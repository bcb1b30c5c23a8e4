-------------------------- MODULE AirlinkRpcProofs --------------------------
(***************************************************************************)
(* Both kinds of calls, for any number of them and of slots.               *)
(*                                                                         *)
(* The context of a suspended call is freed when its last user has gone,   *)
(* whichever messages are lost, unless it is overdrawn: unless its answer  *)
(* is handled between the time-out and the time-out's message, or its      *)
(* coroutine raises.  Nothing is assumed of when that happens: the         *)
(* invariant speaks of the other contexts, those in Sound, whatever the    *)
(* overdrawn ones do.  The argument is a count: the references of a        *)
(* context are those of the coroutine, of the answer and of the time-out,  *)
(* and the lost ones (RefsCounted).  For a step to take exactly one away,  *)
(* the answer must be in one place at a time, and so must the time-out     *)
(* (OnePlace), and the coroutine must still be waiting when neither        *)
(* message has been handled (HandledOnce).  A time-out that neither is to  *)
(* come nor has been handled was lost (LostCounted): that is the reference *)
(* which the stop of its timer makes good.                                 *)
(*                                                                         *)
(* Next to blocking calls they behave as RpcYield says: whatever a         *)
(* blocking call does is a step of RpcYield or none at all, so all of this *)
(* holds there as well.                                                    *)
(*                                                                         *)
(* The context of a blocking call outlives its use, although its count is  *)
(* decremented without a lock.  The argument: as long as both threads      *)
(* hold their reference the count is 2, so that each of them reads 2 and   *)
(* the first to write leaves 1; as long as one holds it, the count is 1    *)
(* and the other, past its write, finds no 0 to free the context for       *)
(* (CountOfHolders).  What the last one writes does not matter any more.   *)
(***************************************************************************)
EXTENDS AirlinkRpc, FiniteSetTheorems, TLAPS

-----------------------------------------------------------------------------
(* The calls that suspend a coroutine, alone.                              *)

Shape ==
    /\ coroutine \in [Call -> {"free", "waiting", "resumed"}]
    /\ refcnt \in [Call -> Int] /\ lost \in [Call -> Int]
    /\ handled \in [Call -> BOOLEAN] /\ timedOut \in [Call -> BOOLEAN]
    /\ timer \in [Call -> {"off", "armed", "firing"}]
    /\ slots \in SUBSET Call
    /\ taken \in Call \union {None} /\ checked \in Call \union {None}
    /\ bus \in SUBSET Message
    /\ overdrawn \in SUBSET Call

RefsCounted ==
    \A c \in Sound :
        refcnt[c] = Count(HeldByCoroutine(c)) + Count(HeldForAnswer(c))
                        + Count(HeldForTimeout(c)) + lost[c]

OnePlace ==
    /\ taken = None \/ checked = None
    /\ \A c \in Sound :
        /\ c \in slots => taken # c /\ checked # c
        /\ Msg("answer", c) \in bus => c \notin slots /\ taken # c /\ checked # c
        /\ Msg("timeout", c) \in bus => timer[c] = "off"

HandledOnce ==
    \A c \in Sound :
        /\ coroutine[c] = "waiting" => ~handled[c]
        /\ coroutine[c] = "resumed" => handled[c]
        /\ coroutine[c] = "free" => refcnt[c] = 0

LostCounted ==
    \A c \in Sound :
        /\ lost[c] >= 0
        /\ coroutine[c] = "waiting" => HeldForTimeout(c) \/ lost[c] >= 1

IInv == Shape /\ RefsCounted /\ OnePlace /\ HandledOnce /\ LostCounted

-----------------------------------------------------------------------------
(* Two messages are the same when they agree on their kind and their call. *)
LEMMA MsgInjective ==
    ASSUME NEW k, NEW c, NEW l, NEW d
    PROVE  (Msg(k, c) = Msg(l, d)) <=> (k = l /\ c = d)
<1>1. Msg(k, c).kind = k /\ Msg(k, c).call = c /\ Msg(l, d).kind = l /\ Msg(l, d).call = d
    BY DEF Msg
<1> QED BY <1>1 DEF Msg

(* Initially no context is in use.                                         *)
LEMMA InitInv == ASSUME Init PROVE IInv
<1> USE CallAssumption DEF Init, Sound
<1>1. Shape BY DEF Shape
<1>2. RefsCounted
    BY DEF RefsCounted, HeldByCoroutine, HeldForAnswer, HeldForTimeout, Count
<1>3. OnePlace BY DEF OnePlace
<1>4. HandledOnce BY DEF HandledOnce
<1>5. LostCounted BY DEF LostCounted
<1> QED BY <1>1, <1>2, <1>3, <1>4, <1>5 DEF IInv

-----------------------------------------------------------------------------
(* Each action keeps the invariant.                                        *)

(* Nothing is left of a context whose count is 0.                          *)
LEMMA FreeIsUnheld ==
    ASSUME IInv, NEW c \in Sound, refcnt[c] <= 0
    PROVE  /\ ~HeldByCoroutine(c) /\ ~HeldForAnswer(c) /\ ~HeldForTimeout(c)
           /\ lost[c] = 0
<1>1. /\ Count(HeldByCoroutine(c)) \in {0, 1} /\ Count(HeldForAnswer(c)) \in {0, 1}
      /\ Count(HeldForTimeout(c)) \in {0, 1} /\ lost[c] \in Int /\ lost[c] >= 0
    BY DEF Count, IInv, Shape, LostCounted, Sound
<1>2. /\ Count(HeldByCoroutine(c)) = 0 /\ Count(HeldForAnswer(c)) = 0
      /\ Count(HeldForTimeout(c)) = 0 /\ lost[c] = 0
    BY <1>1 DEF IInv, RefsCounted
<1> QED BY <1>2 DEF Count

LEMMA StartInv == ASSUME IInv, NEW c \in Call, Start(c) PROVE IInv'
<1> USE CallAssumption DEF IInv, Start, Refs, Sound
<1>1. Shape' BY DEF Shape
<1>2. ASSUME c \in Sound
      PROVE  ~HeldByCoroutine(c) /\ ~HeldForAnswer(c) /\ ~HeldForTimeout(c)
    BY <1>2, FreeIsUnheld
<1>3. RefsCounted'
    <2> SUFFICES ASSUME NEW d \in Sound
                 PROVE  refcnt'[d] = Count(HeldByCoroutine(d))' + Count(HeldForAnswer(d))'
                                       + Count(HeldForTimeout(d))' + lost'[d]
        BY DEF RefsCounted
    <2>1. CASE d # c
        BY <2>1 DEF Shape, RefsCounted, HeldByCoroutine, HeldForAnswer,
           HeldForTimeout, Count
    <2>2. CASE d = c
        BY <1>2, <2>2 DEF Shape, HeldByCoroutine, HeldForAnswer, HeldForTimeout, Count
    <2> QED BY <2>1, <2>2
<1>4. OnePlace' BY <1>2 DEF Shape, OnePlace, HeldForAnswer, HeldForTimeout
<1>5. HandledOnce' BY DEF Shape, HandledOnce
<1>6. LostCounted' BY DEF Shape, LostCounted, HeldForTimeout
<1> QED BY <1>1, <1>3, <1>4, <1>5, <1>6

LEMMA TakeAnswerInv == ASSUME IInv, NEW c \in Call, TakeAnswer(c) PROVE IInv'
<1> USE CallAssumption DEF IInv, TakeAnswer, ctx, Sound
<1>1. Shape' BY DEF Shape
<1>2. RefsCounted'
    BY DEF Shape, RefsCounted, HeldByCoroutine, HeldForAnswer, HeldForTimeout, Count
<1>3. OnePlace' BY DEF Shape, OnePlace
<1>4. HandledOnce' BY DEF Shape, HandledOnce
<1>5. LostCounted' BY DEF Shape, LostCounted, HeldForTimeout
<1> QED BY <1>1, <1>2, <1>3, <1>4, <1>5

LEMMA CopyAnswerInv == ASSUME IInv, CopyAnswer PROVE IInv'
<1> USE CallAssumption DEF IInv, CopyAnswer, ctx, Sound
<1>1. Shape' BY DEF Shape
<1>2. RefsCounted'
    BY DEF Shape, RefsCounted, HeldByCoroutine, HeldForAnswer, HeldForTimeout, Count,
           OnePlace
<1>3. OnePlace' BY DEF Shape, OnePlace
<1>4. HandledOnce' BY DEF Shape, HandledOnce
<1>5. LostCounted' BY DEF Shape, LostCounted, HeldForTimeout
<1> QED BY <1>1, <1>2, <1>3, <1>4, <1>5

LEMMA DropAnswerInv == ASSUME IInv, DropAnswer PROVE IInv'
<1> USE CallAssumption DEF IInv, DropAnswer, Sound
<1>1. Shape' BY DEF Shape
<1>2. PICK c \in Call : c = taken BY DEF Shape
<1>3. /\ c \in Sound => HeldForAnswer(c) /\ ~HeldForAnswer(c)'
      /\ \A d \in Sound \ {c} : HeldForAnswer(d)' <=> HeldForAnswer(d)
    BY <1>2 DEF Shape, OnePlace, HeldForAnswer
<1>4. RefsCounted'
    BY <1>2, <1>3 DEF Shape, RefsCounted, HeldByCoroutine, HeldForTimeout, Count
<1>5. OnePlace' BY DEF Shape, OnePlace
<1>6. HandledOnce' BY DEF Shape, HandledOnce
<1>7. LostCounted' BY <1>2 DEF Shape, LostCounted, HeldForTimeout
<1> QED BY <1>1, <1>4, <1>5, <1>6, <1>7

LEMMA PutAnswerInv == ASSUME IInv, PutAnswer PROVE IInv'
<1> USE CallAssumption DEF IInv, PutAnswer, Sound
<1>1. PICK c \in Call : c = checked BY DEF Shape
<1>2. CASE bus' = bus \union {Msg("answer", checked)} /\ UNCHANGED lost
    <2>1. /\ \A d \in Call : Msg("answer", d) \in bus'
                <=> Msg("answer", d) \in bus \/ d = checked
          /\ \A d \in Call : Msg("timeout", d) \in bus' <=> Msg("timeout", d) \in bus
        BY <1>1, <1>2, MsgInjective
    <2>2. Shape' BY <1>1, <1>2 DEF Shape, Message, Msg, Kind
    <2>3. RefsCounted'
        BY <1>1, <1>2, <2>1 DEF Shape, RefsCounted, HeldByCoroutine, HeldForAnswer,
           HeldForTimeout, Count
    <2>4. OnePlace' BY <1>1, <2>1 DEF Shape, OnePlace
    <2>5. HandledOnce' BY DEF HandledOnce
    <2>6. LostCounted' BY <1>2, <2>1 DEF LostCounted, HeldForTimeout, Shape
    <2> QED BY <2>2, <2>3, <2>4, <2>5, <2>6
<1>3. CASE lost' = [lost EXCEPT ![checked] = @ + 1] /\ UNCHANGED bus
    <2>1. Shape' BY <1>1, <1>3 DEF Shape
    <2>2. /\ c \in Sound => HeldForAnswer(c) /\ ~HeldForAnswer(c)'
          /\ \A d \in Sound \ {c} : HeldForAnswer(d)' <=> HeldForAnswer(d)
        BY <1>1, <1>3 DEF Shape, OnePlace, HeldForAnswer
    <2>3. RefsCounted'
        BY <1>1, <1>3, <2>2 DEF Shape, RefsCounted, HeldByCoroutine, HeldForTimeout, Count
    <2>4. OnePlace' BY <1>3 DEF Shape, OnePlace
    <2>5. HandledOnce' BY DEF HandledOnce
    <2>6. LostCounted' BY <1>1, <1>3 DEF LostCounted, HeldForTimeout, Shape
    <2> QED BY <2>1, <2>3, <2>4, <2>5, <2>6
<1> QED BY <1>2, <1>3 DEF Put

LEMMA FireInv == ASSUME IInv, NEW c \in Call, Fire(c) PROVE IInv'
<1> USE CallAssumption DEF IInv, Fire, ctx, Sound
<1>1. Shape' BY DEF Shape
<1>2. RefsCounted'
    BY DEF Shape, RefsCounted, HeldByCoroutine, HeldForAnswer, HeldForTimeout, Count
<1>3. OnePlace' BY DEF Shape, OnePlace
<1>4. HandledOnce' BY DEF HandledOnce
<1>5. LostCounted' BY DEF Shape, LostCounted, HeldForTimeout
<1> QED BY <1>1, <1>2, <1>3, <1>4, <1>5

LEMMA PutTimeoutInv == ASSUME IInv, NEW c \in Call, PutTimeout(c) PROVE IInv'
<1> USE CallAssumption DEF IInv, PutTimeout, Sound
<1>1. CASE bus' = bus \union {Msg("timeout", c)} /\ UNCHANGED lost
    <2>1. /\ \A d \in Call : Msg("timeout", d) \in bus'
                <=> Msg("timeout", d) \in bus \/ d = c
          /\ \A d \in Call : Msg("answer", d) \in bus' <=> Msg("answer", d) \in bus
        BY <1>1, MsgInjective
    <2>2. Shape' BY <1>1 DEF Shape, Message, Msg, Kind
    <2>3. RefsCounted'
        BY <1>1, <2>1 DEF Shape, RefsCounted, HeldByCoroutine, HeldForAnswer,
           HeldForTimeout, Count
    <2>4. OnePlace' BY <2>1 DEF Shape, OnePlace
    <2>5. HandledOnce' BY DEF HandledOnce
    <2>6. LostCounted' BY <1>1, <2>1 DEF LostCounted, HeldForTimeout, Shape
    <2> QED BY <2>2, <2>3, <2>4, <2>5, <2>6
<1>2. CASE lost' = [lost EXCEPT ![c] = @ + 1] /\ UNCHANGED bus
    <2>1. Shape' BY <1>2 DEF Shape
    <2>2. /\ c \in Sound => HeldForTimeout(c) /\ ~HeldForTimeout(c)'
          /\ \A d \in Sound \ {c} : HeldForTimeout(d)' <=> HeldForTimeout(d)
        BY <1>2 DEF Shape, OnePlace, HeldForTimeout
    <2>3. RefsCounted'
        BY <1>2, <2>2 DEF Shape, RefsCounted, HeldByCoroutine, HeldForAnswer, Count
    <2>4. OnePlace' BY <1>2 DEF Shape, OnePlace
    <2>5. HandledOnce' BY DEF HandledOnce
    <2>6. LostCounted' BY <1>2 DEF LostCounted, HeldForTimeout, Shape
    <2> QED BY <2>1, <2>3, <2>4, <2>5, <2>6
<1> QED BY <1>1, <1>2 DEF Put

-----------------------------------------------------------------------------
(* A message taken off the bus leaves the others there.                    *)
LEMMA TakenOff ==
    ASSUME NEW k, NEW c, bus' = bus \ {Msg(k, c)}
    PROVE  \A l, d : Msg(l, d) \in bus' <=> Msg(l, d) \in bus /\ ~(l = k /\ d = c)
BY MsgInjective

LEMMA LateMessageInv ==
    ASSUME IInv, NEW k \in Kind, NEW c \in Call, LateMessage(k, c)
    PROVE  IInv'
<1> USE CallAssumption DEF IInv, LateMessage, Release, StopTimer, WasHandled, Sound
<1>1. \A l, d : Msg(l, d) \in bus' <=> Msg(l, d) \in bus /\ ~(l = k /\ d = c)
    BY TakenOff
<1>2. Shape' BY DEF Shape
<1>3. k = "answer" \/ k = "timeout" BY DEF Kind
<1>4. ASSUME c \in Sound PROVE timer' = timer /\ coroutine[c] = "resumed"
    <2>1. Count(HeldForTimeout(c)) + Count(HeldForAnswer(c)) <= refcnt[c]
        BY <1>4 DEF RefsCounted, LostCounted, Count, Shape
    <2>2. timer[c] = "armed" => refcnt[c] > 1
        BY <1>3, <1>4, <2>1 DEF OnePlace, HeldForTimeout, HeldForAnswer, Count, Shape
    <2>3. refcnt[c] # 0
        BY <1>3, <1>4, FreeIsUnheld DEF HeldForAnswer, HeldForTimeout
    <2> QED BY <1>4, <2>2, <2>3 DEF Shape, HandledOnce
<1>5. \A d \in Sound : timer'[d] = timer[d]
    BY <1>4 DEF Shape
<1>6. RefsCounted'
    <2> SUFFICES ASSUME NEW d \in Sound
                 PROVE  refcnt'[d] = Count(HeldByCoroutine(d))' + Count(HeldForAnswer(d))'
                                       + Count(HeldForTimeout(d))' + lost'[d]
        BY DEF RefsCounted
    <2>1. CASE d # c
        BY <1>1, <1>5, <2>1 DEF Shape, RefsCounted, HeldByCoroutine, HeldForAnswer,
           HeldForTimeout, Count
    <2>2. CASE d = c /\ k = "answer"
        BY <1>1, <1>5, <2>2 DEF Shape, RefsCounted, HeldByCoroutine, HeldForAnswer,
           HeldForTimeout, Count, OnePlace
    <2>3. CASE d = c /\ k = "timeout"
        BY <1>1, <1>5, <2>3 DEF Shape, RefsCounted, HeldByCoroutine, HeldForAnswer,
           HeldForTimeout, Count, OnePlace
    <2> QED BY <1>3, <2>1, <2>2, <2>3
<1>7. OnePlace' BY <1>1, <1>5 DEF Shape, OnePlace
<1>8. HandledOnce' BY <1>4 DEF Shape, HandledOnce
<1>9. LostCounted' BY <1>1, <1>4, <1>5 DEF Shape, LostCounted, HeldForTimeout
<1> QED BY <1>2, <1>6, <1>7, <1>8, <1>9

(* A message that is the first to be handled finds the coroutine waiting.  *)
LEMMA FirstFindsWaiting ==
    ASSUME IInv, NEW k \in Kind, NEW c \in Sound, Msg(k, c) \in bus, ~handled[c]
    PROVE  coroutine[c] = "waiting"
<1>1. HeldForAnswer(c) \/ HeldForTimeout(c)
    BY DEF Kind, HeldForAnswer, HeldForTimeout
<1>2. refcnt[c] # 0
    BY <1>1, FreeIsUnheld
<1> QED BY <1>2 DEF IInv, Shape, HandledOnce, Sound

LEMMA HandleAnswerInv ==
    ASSUME IInv, NEW c \in Call, HandleAnswer(c)
    PROVE  IInv'
<1> USE CallAssumption
        DEF IInv, HandleAnswer, StopTimer, Resume, StopReleases, WasHandled, Sound
<1>1. \A l, d : Msg(l, d) \in bus' <=> Msg(l, d) \in bus /\ ~(l = "answer" /\ d = c)
    BY TakenOff
<1>2. PICK n \in ResumeReleases :
          /\ refcnt' = [refcnt EXCEPT ![c] = @ - (1 + n + 1)]
          /\ Overdraw(c, n > 1 \/ StillToCome(c))
    OBVIOUS
<1>3. n \in {1, 2} BY DEF ResumeReleases
<1>4. /\ overdrawn' \in SUBSET Call /\ Sound' \subseteq Sound
      /\ c \in Sound' => n = 1 /\ ~StillToCome(c)
    BY <1>2, <1>3 DEF Overdraw, Shape
<1>5. Shape' BY <1>2, <1>3, <1>4 DEF Shape
<1>6. ASSUME c \in Sound PROVE coroutine[c] = "waiting"
    BY <1>6, FirstFindsWaiting DEF Kind
<1>7. RefsCounted'
    <2> SUFFICES ASSUME NEW d \in Sound'
                 PROVE  refcnt'[d] = Count(HeldByCoroutine(d))' + Count(HeldForAnswer(d))'
                                       + Count(HeldForTimeout(d))' + lost'[d]
        BY DEF RefsCounted
    <2>0. d \in Sound BY <1>4
    <2>1. CASE d # c
        BY <1>1, <1>2, <2>0, <2>1 DEF Shape, RefsCounted, HeldByCoroutine, HeldForAnswer,
           HeldForTimeout, Count
    <2>2. CASE d = c
        <3>1. HeldForAnswer(c) /\ ~HeldForAnswer(c)'
            BY <1>1, <2>0, <2>2 DEF Shape, OnePlace, HeldForAnswer
        <3>2. HeldByCoroutine(c) /\ ~HeldByCoroutine(c)'
            BY <1>6, <2>0, <2>2 DEF Shape, HeldByCoroutine
        <3>3. ~HeldForTimeout(c)'
            BY <1>1, <1>4, <2>0, <2>2 DEF Shape, OnePlace, HeldForTimeout, StillToCome
        <3>4. refcnt'[c] = refcnt[c] - 3
            BY <1>2, <1>4, <2>2 DEF Shape
        <3>5. refcnt[c] = 2 + Count(HeldForTimeout(c)) + lost[c]
            BY <2>0, <2>2, <3>1, <3>2 DEF RefsCounted, Count, Shape
        <3>6. lost'[c] = lost[c] - 1 + Count(HeldForTimeout(c))
            BY DEF Shape, Count
        <3>7. refcnt[c] \in Int /\ lost[c] \in Int /\ Count(HeldForTimeout(c)) \in {0, 1}
            BY DEF Shape, Count
        <3>8. refcnt'[c] = lost'[c] BY <3>4, <3>5, <3>6, <3>7
        <3>9. /\ Count(HeldByCoroutine(c))' = 0 /\ Count(HeldForAnswer(c))' = 0
              /\ Count(HeldForTimeout(c))' = 0
            BY <3>1, <3>2, <3>3 DEF Count
        <3>10. lost'[c] \in Int BY <1>5 DEF Shape
        <3> QED BY <2>2, <3>8, <3>9, <3>10
    <2> QED BY <2>1, <2>2
<1>8. OnePlace' BY <1>1, <1>4 DEF Shape, OnePlace
<1>9. HandledOnce' BY <1>2, <1>4, <1>6 DEF Shape, HandledOnce
<1>10. LostCounted'
    <2>1. ASSUME NEW d \in Sound', d # c
          PROVE  /\ lost'[d] >= 0
                 /\ coroutine'[d] = "waiting" => HeldForTimeout(d)' \/ lost'[d] >= 1
        BY <1>1, <1>4, <2>1 DEF Shape, LostCounted, HeldForTimeout
    <2>2. ASSUME c \in Sound'
          PROVE  lost'[c] >= 0 /\ coroutine'[c] # "waiting"
        BY <1>4, <1>6, <2>2 DEF Shape, LostCounted
    <2> QED BY <2>1, <2>2 DEF LostCounted
<1> QED BY <1>5, <1>7, <1>8, <1>9, <1>10

LEMMA HandleTimeoutInv ==
    ASSUME IInv, NEW c \in Call, HandleTimeout(c)
    PROVE  IInv'
<1> USE CallAssumption DEF IInv, HandleTimeout, Resume, UnregReleases, WasHandled, Sound
<1>1. \A l, d : Msg(l, d) \in bus' <=> Msg(l, d) \in bus /\ ~(l = "timeout" /\ d = c)
    BY TakenOff
<1>2. PICK n \in ResumeReleases :
          /\ Release(c, (IF c \in slots THEN 1 ELSE 0) + n + 1)
          /\ Overdraw(c, n > 1)
    OBVIOUS
<1>3. n \in {1, 2} BY DEF ResumeReleases
<1>4. /\ overdrawn' \in SUBSET Call /\ Sound' \subseteq Sound
      /\ c \in Sound' => n = 1
    BY <1>2, <1>3 DEF Overdraw, Shape
<1>5. refcnt' \in [Call -> Int] /\ timer' \in [Call -> {"off", "armed", "firing"}]
    BY <1>2, <1>3 DEF Shape, Release, StopTimer
<1>6. Shape' BY <1>4, <1>5 DEF Shape
<1>7. /\ c \in Sound => timer[c] = "off"
      /\ \A d \in Sound : timer'[d] = timer[d]
    BY <1>2 DEF OnePlace, Release, StopTimer, Shape
<1>8. ASSUME c \in Sound PROVE coroutine[c] = "waiting"
    BY <1>8, FirstFindsWaiting DEF Kind
<1>9. RefsCounted'
    <2> SUFFICES ASSUME NEW d \in Sound'
                 PROVE  refcnt'[d] = Count(HeldByCoroutine(d))' + Count(HeldForAnswer(d))'
                                       + Count(HeldForTimeout(d))' + lost'[d]
        BY DEF RefsCounted
    <2>0. d \in Sound BY <1>4
    <2>1. CASE d # c
        BY <1>1, <1>2, <1>7, <2>0, <2>1 DEF Shape, RefsCounted, HeldByCoroutine,
           HeldForAnswer, HeldForTimeout, Count, Release
    <2>2. CASE d = c
        <3>1. HeldForTimeout(c) /\ ~HeldForTimeout(c)'
            BY <1>1, <1>7, <2>0, <2>2 DEF Shape, HeldForTimeout
        <3>2. HeldByCoroutine(c) /\ ~HeldByCoroutine(c)'
            BY <1>8, <2>0, <2>2 DEF Shape, HeldByCoroutine
        <3>3. refcnt'[c] = refcnt[c] - (IF c \in slots THEN 3 ELSE 2)
            BY <1>2, <1>4, <2>2 DEF Shape, Release
        <3>4. CASE c \in slots
            <4>1. HeldForAnswer(c) /\ ~HeldForAnswer(c)'
                BY <1>1, <2>0, <2>2, <3>4 DEF Shape, OnePlace, HeldForAnswer
            <4> QED BY <2>0, <2>2, <3>1, <3>2, <3>3, <3>4, <4>1 DEF Shape, RefsCounted, Count
        <3>5. CASE c \notin slots
            <4>1. HeldForAnswer(c)' <=> HeldForAnswer(c)
                BY <1>1, <3>5 DEF Shape, HeldForAnswer
            <4> QED BY <2>0, <2>2, <3>1, <3>2, <3>3, <3>5, <4>1 DEF Shape, RefsCounted, Count
        <3> QED BY <3>4, <3>5
    <2> QED BY <2>1, <2>2
<1>10. OnePlace' BY <1>1, <1>4, <1>7 DEF Shape, OnePlace
<1>11. HandledOnce'
    BY <1>2, <1>4, <1>8 DEF Shape, HandledOnce, Release
<1>12. LostCounted' BY <1>1, <1>4, <1>7, <1>8 DEF Shape, LostCounted, HeldForTimeout
<1> QED BY <1>6, <1>9, <1>10, <1>11, <1>12

LEMMA NextInv ==
    ASSUME IInv, [Next]_vars
    PROVE  IInv'
<1>1. CASE AirlinkTask
    BY <1>1, CopyAnswerInv, DropAnswerInv, PutAnswerInv DEF AirlinkTask
<1>2. ASSUME NEW c \in Call, Start(c) \/ TakeAnswer(c) \/ TimerTask(c) PROVE IInv'
    BY <1>2, StartInv, TakeAnswerInv, FireInv, PutTimeoutInv DEF TimerTask
<1>3. ASSUME NEW c \in Call, LuaTask(c) PROVE IInv'
    BY <1>3, LateMessageInv, HandleAnswerInv, HandleTimeoutInv DEF LuaTask
<1>4. CASE UNCHANGED vars
    BY <1>4 DEF vars, ctx, IInv, Shape, RefsCounted, OnePlace, HandledOnce,
       LostCounted, HeldByCoroutine, HeldForAnswer, HeldForTimeout, Sound
<1> QED BY <1>1, <1>2, <1>3, <1>4 DEF Next

-----------------------------------------------------------------------------
(* No more slots are given out than there are.                             *)
SlotsBounded == IsFiniteSet(slots) /\ Cardinality(slots) <= Slots

LEMMA SlotsStep ==
    ASSUME SlotsBounded, [Next]_vars
    PROVE  SlotsBounded'
<1> USE CallAssumption DEF SlotsBounded
<1>1. Cardinality(slots) \in Nat BY FS_CardinalityType
<1>2. ASSUME NEW c \in Call, Start(c) PROVE SlotsBounded'
    <2>1. slots' = slots \union {c} /\ Cardinality(slots) < Slots
        BY <1>2 DEF Start, HasSlot
    <2>2. /\ IsFiniteSet(slots')
          /\ Cardinality(slots') = Cardinality(slots)
                \/ Cardinality(slots') = Cardinality(slots) + 1
        BY <2>1, FS_AddElement
    <2> QED BY <1>1, <2>1, <2>2
<1>3. ASSUME NEW c \in Call, TakeAnswer(c) \/ HandleTimeout(c) PROVE SlotsBounded'
    <2>1. slots' = slots \ {c}
        BY <1>3 DEF TakeAnswer, HandleTimeout
    <2>2. /\ IsFiniteSet(slots')
          /\ Cardinality(slots') = Cardinality(slots)
                \/ Cardinality(slots') = Cardinality(slots) - 1
        BY <2>1, FS_RemoveElement
    <2> QED BY <1>1, <2>2
<1>4. CASE UNCHANGED slots
    BY <1>4 DEF SlotsBounded
<1>5. AirlinkTask => UNCHANGED slots
    BY DEF AirlinkTask, CopyAnswer, DropAnswer, PutAnswer
<1>6. \A c \in Call : TimerTask(c) \/ HandleAnswer(c) => UNCHANGED slots
    BY DEF TimerTask, Fire, PutTimeout, HandleAnswer
<1>7. \A k \in Kind, c \in Call : LateMessage(k, c) => UNCHANGED slots
    BY DEF LateMessage
<1>8. UNCHANGED vars => UNCHANGED slots
    BY DEF vars
<1> QED BY <1>2, <1>3, <1>4, <1>5, <1>6, <1>7, <1>8 DEF Next, LuaTask

-----------------------------------------------------------------------------
(* The invariant holds of every reachable state.                           *)
THEOREM Invariance == Spec => []IInv
<1>1. Init => IInv BY InitInv
<1>2. IInv /\ [Next]_vars => IInv' BY NextInv
<1> QED BY <1>1, <1>2, PTL DEF Spec

(* The state keeps its type, and the slots in use are at most as many as   *)
(* the table of the airlink has (luat_airlink_rpc.c:954).                  *)
THEOREM TypeCorrect == Spec => []TypeOK
<1>1. Init => SlotsBounded
    BY FS_EmptySet, CallAssumption DEF Init, SlotsBounded
<1>2. SlotsBounded /\ [Next]_vars => SlotsBounded' BY SlotsStep
<1>3. IInv /\ SlotsBounded => TypeOK BY DEF IInv, Shape, SlotsBounded, TypeOK
<1> QED BY <1>1, <1>2, <1>3, Invariance, PTL DEF Spec

(* Unless it was overdrawn, a context is freed neither while the           *)
(* coroutine, a thread or a message can still reach it, nor twice          *)
(* (luat_airlink_rpc.c:130-165, 265, 334).                                 *)
THEOREM FreedAfterLastUse == Spec => []NoUseAfterFree
<1>1. IInv => NoUseAfterFree
    BY DEF IInv, Shape, RefsCounted, LostCounted, Count, NoUseAfterFree,
       OutlivesUse, Sound
<1> QED BY <1>1, Invariance, PTL

(* What is left in the end is what was lost (luat_airlink_rpc.c:215, 245). *)
THEOREM LeaksAreLosses == Spec => []OnlyLostRefsLeak
<1>1. IInv => OnlyLostRefsLeak
    BY DEF IInv, Shape, RefsCounted, Count, OnlyLostRefsLeak, Sound
<1> QED BY <1>1, Invariance, PTL

(* A coroutine is resumed only out of the call it waits in                 *)
(* (luat_airlink_rpc.c:253-257, 324-328).                                  *)
THEOREM ResumedOutOfItsCall == Spec => ResumedOnce
<1>1. ASSUME IInv, NEW c \in Sound, HandleAnswer(c) \/ HandleTimeout(c)
      PROVE  coroutine[c] = "waiting"
    BY <1>1, FirstFindsWaiting DEF HandleAnswer, HandleTimeout, WasHandled, Kind
<1>2. IInv => \A c \in Sound : HandleAnswer(c) \/ HandleTimeout(c)
                                => coroutine[c] = "waiting"
    BY <1>1
<1> QED BY <1>2, Invariance, PTL DEF ResumedOnce

-----------------------------------------------------------------------------
(* The calls that suspend a coroutine, next to blocking calls.             *)

LEMMA YieldStep == [AirlinkNext]_airlinkVars => [Next]_vars
<1>1. YieldAirlink => Next BY DEF YieldAirlink, Next
<1>2. ASSUME NEW c \in Call, YieldStart(c) \/ YieldTake(c) \/ YieldTimer(c) \/ YieldLua(c)
      PROVE  Next
    BY <1>2 DEF YieldStart, YieldTake, YieldTimer, YieldLua, Next
<1>3. ASSUME NEW s \in Blocking, Enter(s) \/ Waits(s) \/ TakeBlocking(s) \/ Answers(s)
      PROVE  UNCHANGED vars
    BY <1>3 DEF Enter, Waits, Answered, Expired, Unregister, SetLate, TakeBlocking,
       Answers, CheckLate, Signal, ReleaseStep, ReadCount, WriteCount, TestCount
<1>4. UNCHANGED airlinkVars => UNCHANGED vars BY DEF airlinkVars
<1> QED BY <1>1, <1>2, <1>3, <1>4 DEF AirlinkNext

(* Next to blocking calls, which take slots and keep the Lua task from its *)
(* messages, the calls that suspend a coroutine do what they do alone      *)
(* (luat_airlink.c:1031-1093, luat_airlink_rpc.c:503).                     *)
THEOREM ImplementsRpcYield == AirlinkSpec => Spec
<1>1. AirlinkInit => Init BY DEF AirlinkInit
<1> QED BY <1>1, YieldStep, PTL DEF AirlinkSpec, Spec

(* Their context is freed once and after its last use, here as well        *)
(* (luat_airlink_rpc.c:130-165, 265, 334).                                 *)
THEOREM YieldFreedAfterLastUse == AirlinkSpec => []NoUseAfterFree
BY ImplementsRpcYield, FreedAfterLastUse, PTL

-----------------------------------------------------------------------------
(* Blocking calls.                                                         *)

Local ==
    /\ point \in [Blocking -> [Thread -> Point]]
    /\ value \in [Blocking -> [Thread -> Nat]]
    /\ count \in [Blocking -> Nat] /\ freed \in [Blocking -> Nat]
    /\ sem \in [Blocking -> BOOLEAN] /\ late \in [Blocking -> BOOLEAN]
    /\ registered \subseteq Blocking /\ byLua \subseteq Blocking

(* The answer has a slot only while the caller waits, or is about to take  *)
(* the slot back, and nobody has answered.                                 *)
SlotOrAnswer ==
    \A s \in registered :
        /\ point[s]["callback"] = "out" /\ ~sem[s]
        /\ point[s]["waiter"] \in {"wait", "expired"}

CountOfHolders ==
    \A s \in Blocking :
        /\ \A t \in Thread : Holds(s, t) => count[s] \in {1, 2} /\ freed[s] = 0
        /\ \A t \in Thread : point[s][t] = "write" => value[s][t] \in {1, 2}
        /\ Holds(s, "waiter") /\ Holds(s, "callback") =>
              /\ count[s] = 2
              /\ \A t \in Thread : point[s][t] = "write" => value[s][t] = 2
        /\ \A t, u \in Thread : Holds(s, t) /\ ~Holds(s, u) => count[s] = 1

BInv == Local /\ SlotOrAnswer /\ CountOfHolders

LEMMA BInit == ASSUME AirlinkInit PROVE BInv
<1> USE DEF AirlinkInit
<1>1. Local BY DEF Local, Point
<1>2. SlotOrAnswer BY DEF SlotOrAnswer
<1>3. CountOfHolders BY DEF CountOfHolders, Holds, Thread
<1> QED BY <1>1, <1>2, <1>3 DEF BInv

(* Each action keeps the invariant.                                        *)

LEMMA EnterInv == ASSUME BInv, NEW s \in Blocking, Enter(s) PROVE BInv'
<1> USE DEF BInv, Enter, Goto, Thread
<1>1. Local'
    <2>1. registered' \subseteq Blocking /\ byLua' \subseteq Blocking BY DEF Local
    <2>2. /\ point' \in [Blocking -> [Thread -> Point]]
          /\ value' \in [Blocking -> [Thread -> Nat]]
        BY DEF Local, Point
    <2>3. /\ count' \in [Blocking -> Nat] /\ freed' \in [Blocking -> Nat]
          /\ sem' \in [Blocking -> BOOLEAN] /\ late' \in [Blocking -> BOOLEAN]
        BY DEF Local
    <2> QED BY <2>1, <2>2, <2>3 DEF Local
<1>2. SlotOrAnswer' BY DEF Local, SlotOrAnswer
<1>3. CountOfHolders' BY DEF Local, SlotOrAnswer, CountOfHolders, Holds
<1> QED BY <1>1, <1>2, <1>3

LEMMA AnsweredInv == ASSUME BInv, NEW s \in Blocking, Answered(s) PROVE BInv'
<1> USE DEF BInv, Answered, Goto, Thread
<1>1. Local' BY DEF Local, Point
<1>2. SlotOrAnswer' BY DEF Local, SlotOrAnswer
<1>3. CountOfHolders' BY DEF Local, SlotOrAnswer, CountOfHolders, Holds
<1> QED BY <1>1, <1>2, <1>3

LEMMA ExpiredInv == ASSUME BInv, NEW s \in Blocking, Expired(s) PROVE BInv'
<1> USE DEF BInv, Expired, Goto, Thread
<1>1. Local' BY DEF Local, Point
<1>2. SlotOrAnswer' BY DEF Local, SlotOrAnswer
<1>3. CountOfHolders' BY DEF Local, SlotOrAnswer, CountOfHolders, Holds
<1> QED BY <1>1, <1>2, <1>3

LEMMA UnregisterInv == ASSUME BInv, NEW s \in Blocking, Unregister(s) PROVE BInv'
<1> USE DEF BInv, Unregister, Goto, IsOnlyHolder, Thread
<1>1. Local'
    <2>1. point' \in [Blocking -> [Thread -> Point]] BY SMTT(30) DEF Local, Point
    <2>2. /\ count' \in [Blocking -> Nat] /\ freed' \in [Blocking -> Nat]
          /\ registered' \subseteq Blocking
        BY DEF Local
    <2> QED BY <2>1, <2>2 DEF Local
<1>2. SlotOrAnswer' BY DEF Local, SlotOrAnswer
<1>3. CountOfHolders' BY DEF Local, SlotOrAnswer, CountOfHolders, Holds
<1> QED BY <1>1, <1>2, <1>3

LEMMA SetLateInv == ASSUME BInv, NEW s \in Blocking, SetLate(s) PROVE BInv'
<1> USE DEF BInv, SetLate, Goto, Thread
<1>1. Local' BY DEF Local, Point
<1>2. SlotOrAnswer' BY DEF Local, SlotOrAnswer
<1>3. CountOfHolders' BY DEF Local, SlotOrAnswer, CountOfHolders, Holds
<1> QED BY <1>1, <1>2, <1>3

LEMMA TakeBlockingInv == ASSUME BInv, NEW s \in Blocking, TakeBlocking(s) PROVE BInv'
<1> USE DEF BInv, TakeBlocking, Goto, Thread
<1>1. Local' BY DEF Local, Point
<1>2. SlotOrAnswer' BY DEF Local, SlotOrAnswer
<1>3. CountOfHolders' BY DEF Local, SlotOrAnswer, CountOfHolders, Holds
<1> QED BY <1>1, <1>2, <1>3

LEMMA CheckLateInv == ASSUME BInv, NEW s \in Blocking, CheckLate(s) PROVE BInv'
<1> USE DEF BInv, CheckLate, Goto, Thread
<1>1. Local' BY DEF Local, Point
<1>2. SlotOrAnswer' BY DEF Local, SlotOrAnswer
<1>3. CountOfHolders' BY DEF Local, SlotOrAnswer, CountOfHolders, Holds
<1> QED BY <1>1, <1>2, <1>3

LEMMA SignalInv == ASSUME BInv, NEW s \in Blocking, Signal(s) PROVE BInv'
<1> USE DEF BInv, Signal, Goto, Thread
<1>1. Local' BY DEF Local, Point
<1>2. SlotOrAnswer' BY DEF Local, SlotOrAnswer
<1>3. CountOfHolders' BY DEF Local, SlotOrAnswer, CountOfHolders, Holds
<1> QED BY <1>1, <1>2, <1>3

LEMMA ReadCountInv == ASSUME BInv, NEW s \in Blocking, NEW t \in Thread, ReadCount(s, t) PROVE BInv'
<1> USE DEF BInv, ReadCount, Goto, Thread
<1>1. Local'
    <2>1. value' \in [Blocking -> [Thread -> Nat]] BY DEF Local
    <2>2. point' \in [Blocking -> [Thread -> Point]] BY DEF Local, Point
    <2> QED BY <2>1, <2>2 DEF Local
<1>2. SlotOrAnswer' BY DEF Local, SlotOrAnswer
<1>3. CountOfHolders' BY DEF Local, SlotOrAnswer, CountOfHolders, Holds
<1> QED BY <1>1, <1>2, <1>3

LEMMA WriteCountInv == ASSUME BInv, NEW s \in Blocking, NEW t \in Thread, WriteCount(s, t) PROVE BInv'
<1> USE DEF BInv, WriteCount, Goto, Thread
<1>1. Local'
    <2>1. value[s][t] - 1 \in Nat BY DEF Local, CountOfHolders
    <2>2. count' \in [Blocking -> Nat] BY <2>1 DEF Local
    <2>3. point' \in [Blocking -> [Thread -> Point]] BY DEF Local, Point
    <2> QED BY <2>2, <2>3 DEF Local
<1>2. SlotOrAnswer' BY DEF Local, SlotOrAnswer
<1>3. CountOfHolders' BY DEF Local, SlotOrAnswer, CountOfHolders, Holds
<1> QED BY <1>1, <1>2, <1>3

LEMMA TestCountInv == ASSUME BInv, NEW s \in Blocking, NEW t \in Thread, TestCount(s, t) PROVE BInv'
<1> USE DEF BInv, TestCount, Goto, Thread
<1>1. Local' BY DEF Local, Point
<1>2. SlotOrAnswer' BY DEF Local, SlotOrAnswer
<1>3. CountOfHolders' BY DEF Local, SlotOrAnswer, CountOfHolders, Holds
<1> QED BY <1>1, <1>2, <1>3

LEMMA BNext == ASSUME BInv, [AirlinkNext]_airlinkVars PROVE BInv'
<1>1. ASSUME NEW s \in Blocking, Enter(s) \/ TakeBlocking(s) PROVE BInv'
    BY <1>1, EnterInv, TakeBlockingInv
<1>2. ASSUME NEW s \in Blocking, NEW t \in Thread, ReleaseStep(s, t) PROVE BInv'
    BY <1>2, ReadCountInv, WriteCountInv, TestCountInv DEF ReleaseStep
<1>3. ASSUME NEW s \in Blocking, Waits(s) PROVE BInv'
    BY <1>2, <1>3, AnsweredInv, ExpiredInv, UnregisterInv, SetLateInv DEF Waits, Thread
<1>4. ASSUME NEW s \in Blocking, Answers(s) PROVE BInv'
    BY <1>2, <1>4, CheckLateInv, SignalInv DEF Answers, Thread
<1>5. CASE UNCHANGED blocking
    BY <1>5 DEF blocking, local, BInv, Local, SlotOrAnswer, CountOfHolders, Holds
<1>6. ASSUME NEW c \in Call, YieldStart(c) \/ YieldTake(c) \/ YieldTimer(c) \/ YieldLua(c)
      PROVE  UNCHANGED blocking
    BY <1>6 DEF YieldStart, YieldTake, YieldTimer, YieldLua
<1>7. YieldAirlink \/ UNCHANGED airlinkVars => UNCHANGED blocking
    BY DEF YieldAirlink, airlinkVars
<1> QED BY <1>1, <1>3, <1>4, <1>5, <1>6, <1>7 DEF AirlinkNext

THEOREM BInvariance == AirlinkSpec => []BInv
<1>1. AirlinkInit => BInv BY BInit
<1>2. BInv /\ [AirlinkNext]_airlinkVars => BInv' BY BNext
<1> QED BY <1>1, <1>2, PTL DEF AirlinkSpec

(* No thread uses the context or the semaphore of a blocking call that has *)
(* been freed, whatever the count without a lock comes to                  *)
(* (luat_airlink_rpc.c:127-130, 170-200, 504-548).                         *)
THEOREM ContextIsThere == AirlinkSpec => []ContextOutlivesUse
<1>1. BInv => ContextOutlivesUse BY DEF BInv, CountOfHolders, ContextOutlivesUse
<1> QED BY <1>1, BInvariance, PTL

-----------------------------------------------------------------------------
(* The slots.                                                              *)
SlotsShared ==
    /\ IsFiniteSet(slots) /\ IsFiniteSet(registered)
    /\ Cardinality(slots) + Cardinality(registered) <= Slots

LEMMA SharedStep ==
    ASSUME SlotsShared, [AirlinkNext]_airlinkVars
    PROVE  SlotsShared'
<1> USE CallAssumption DEF SlotsShared
<1>1. Cardinality(slots) \in Nat /\ Cardinality(registered) \in Nat
    BY FS_CardinalityType
<1>2. ASSUME NEW c \in Call, YieldStart(c) PROVE SlotsShared'
    <2>1. slots' = slots \union {c} /\ registered' = registered
        BY <1>2 DEF YieldStart, Start, blocking
    <2>2. Cardinality(slots) + Cardinality(registered) < Slots
        <3>1. CASE registered = {}
            BY <1>1, <1>2, <3>1, FS_EmptySet DEF YieldStart, Start, HasSlot
        <3>2. CASE registered # {} BY <1>2, <3>2 DEF YieldStart, Room
        <3> QED BY <3>1, <3>2
    <2>3. /\ IsFiniteSet(slots')
          /\ Cardinality(slots') = Cardinality(slots)
                \/ Cardinality(slots') = Cardinality(slots) + 1
        BY <2>1, FS_AddElement
    <2> QED BY <1>1, <2>1, <2>2, <2>3
<1>3. ASSUME NEW s \in Blocking, Enter(s) PROVE SlotsShared'
    <2>1. registered' = registered \union {s} /\ slots' = slots
        BY <1>3 DEF Enter, vars
    <2>2. Cardinality(slots) + Cardinality(registered) < Slots
        BY <1>3 DEF Enter, Room
    <2>3. /\ IsFiniteSet(registered')
          /\ Cardinality(registered') = Cardinality(registered)
                \/ Cardinality(registered') = Cardinality(registered) + 1
        BY <2>1, FS_AddElement
    <2> QED BY <1>1, <2>1, <2>2, <2>3
<1>4. ASSUME slots' \subseteq slots, registered' \subseteq registered
      PROVE  SlotsShared'
    <2>1. /\ IsFiniteSet(slots') /\ Cardinality(slots') <= Cardinality(slots)
          /\ IsFiniteSet(registered') /\ Cardinality(registered') <= Cardinality(registered)
          /\ Cardinality(slots') \in Nat /\ Cardinality(registered') \in Nat
        BY <1>4, FS_Subset, FS_CardinalityType
    <2> QED BY <1>1, <2>1
<1>5. ASSUME NEW c \in Call, YieldTake(c) \/ YieldTimer(c) \/ YieldLua(c)
      PROVE  slots' \subseteq slots /\ registered' \subseteq registered
    <2>1. slots' \subseteq slots
        BY <1>5 DEF YieldTake, YieldTimer, YieldLua, TakeAnswer, TimerTask, Fire, PutTimeout,
           LuaTask, HandleAnswer, HandleTimeout, LateMessage
    <2> QED BY <1>5, <2>1 DEF YieldTake, YieldTimer, YieldLua, blocking
<1>6. YieldAirlink \/ UNCHANGED airlinkVars =>
          slots' \subseteq slots /\ registered' \subseteq registered
    BY DEF YieldAirlink, AirlinkTask, CopyAnswer, DropAnswer, PutAnswer, blocking,
       airlinkVars, vars
<1>7. ASSUME NEW s \in Blocking, Waits(s) \/ TakeBlocking(s) \/ Answers(s)
      PROVE  slots' \subseteq slots /\ registered' \subseteq registered
    BY <1>7 DEF Waits, Answered, Expired, Unregister, SetLate, TakeBlocking, Answers,
       CheckLate, Signal, ReleaseStep, ReadCount, WriteCount, TestCount, vars
<1> QED BY <1>2, <1>3, <1>4, <1>5, <1>6, <1>7 DEF AirlinkNext

(* The state keeps its type, and both kinds of calls together never get    *)
(* more slots than there are (luat_airlink.c:1031-1047).                   *)
THEOREM SlotsAreShared == AirlinkSpec => []AirlinkTypeOK
<1>1. AirlinkInit => SlotsShared
    BY FS_EmptySet, CallAssumption DEF AirlinkInit, Init, SlotsShared
<1>2. SlotsShared /\ [AirlinkNext]_airlinkVars => SlotsShared' BY SharedStep
<1>3. TypeOK /\ BInv /\ SlotsShared => AirlinkTypeOK
    BY DEF BInv, Local, SlotsShared, AirlinkTypeOK
<1>4. AirlinkSpec => []TypeOK BY ImplementsRpcYield, TypeCorrect, PTL
<1> QED BY <1>1, <1>2, <1>3, <1>4, BInvariance, PTL DEF AirlinkSpec
=============================================================================
