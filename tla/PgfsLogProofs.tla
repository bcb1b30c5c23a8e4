--------------------------- MODULE PgfsLogProofs ---------------------------
(***************************************************************************)
(* What the data log of pgfs keeps, for any number of files, blocks, slots *)
(* to a block, operations, failures and power cuts: types (LogIsTyped), no *)
(* step touches what a mount would replay (BehindTheBoundOnly), and what a *)
(* checkpoint covered or a close acknowledged is found by every mount      *)
(* (WhatIsCoveredSurvives, WhatIsAckedSurvives), a batch whole or not at   *)
(* all (BatchesAreAtomic).                                                 *)
(*                                                                         *)
(* First what one replay does (Turns, Reached, At), then what a step of    *)
(* the log does to it: TypeInv, ReachInv (where the bounds are), ShapeInv  *)
(* (how blocks are filled), JobInv and FoundInv (what is found), AtomInv   *)
(* (what is found of a batch).                                             *)
(***************************************************************************)
EXTENDS PgfsLog, NaturalsInduction, WellFoundedInduction, TLAPS

-----------------------------------------------------------------------------
(* Counting.                                                               *)

LEMMA Least ==
    ASSUME NEW T \in SUBSET Nat, T # {}
    PROVE  \E k \in T : \A j \in T : k <= j
<1>1. PICK k \in T : \A j \in T : ~(<<j, k>> \in OpToRel(<, Nat))
    BY NatLessThanWellFounded, WFMin
<1>2. ASSUME NEW j \in T, j < k PROVE FALSE
    <2>1. <<j, k>> \in Nat \X Nat /\ <<j, k>>[1] < <<j, k>>[2]
        BY <1>2
    <2>2. <<j, k>> \in OpToRel(<, Nat)
        BY <2>1, Zenon DEF OpToRel
    <2> QED BY <1>1, <2>2
<1> QED BY <1>2

(* What holds of 0, and of n + 1 if of n, holds up to N.                   *)
LEMMA Count ==
    ASSUME NEW N \in Nat, NEW T, 0 \in T, \A n \in 0 .. N - 1 : n \in T => n + 1 \in T
    PROVE  \A n \in 0 .. N : n \in T
<1> DEFINE Bad == {n \in 0 .. N : n \notin T}
<1>0. Bad \in SUBSET Nat OBVIOUS
<1>1. SUFFICES ASSUME Bad # {} PROVE FALSE
    OBVIOUS
<1>2. PICK k \in Bad : \A j \in Bad : k <= j
    BY <1>0, <1>1, Least
<1>3. k - 1 \in 0 .. N - 1 /\ k - 1 \notin Bad
    BY <1>2
<1> QED BY <1>2, <1>3

-----------------------------------------------------------------------------
(* Blocks.  BlockEnd(a) is the first start of a block beyond a.            *)

LEMMA LogEndIs == LogEnd = Blocks * PerBlock /\ LogEnd \in Nat /\ LogEnd > 0
BY LogAssumption DEF LogEnd

LEMMA DivMod ==
    ASSUME NEW a \in Nat
    PROVE  /\ a \div PerBlock \in Nat /\ a % PerBlock \in 0 .. PerBlock - 1
           /\ a = (a \div PerBlock) * PerBlock + (a % PerBlock)
BY LogAssumption

LEMMA Multiple ==
    ASSUME NEW x \in Nat, NEW y \in Nat, x < y
    PROVE  x * PerBlock + PerBlock <= y * PerBlock
<1>1. (y - x - 1) \in Nat /\ (y - x - 1) * PerBlock >= 0
    BY LogAssumption
<1>2. (y - x - 1) * PerBlock = y * PerBlock - x * PerBlock - PerBlock
    BY LogAssumption
<1> QED BY <1>1, <1>2, LogAssumption

LEMMA MultipleIsStart ==
    ASSUME NEW x \in Nat
    PROVE  x * PerBlock \in Nat /\ (x * PerBlock) % PerBlock = 0
<1> DEFINE a == x * PerBlock
           q == a \div PerBlock
           r == a % PerBlock
<1>1. a \in Nat BY LogAssumption
<1>2. q \in Nat /\ r \in 0 .. PerBlock - 1 /\ a = q * PerBlock + r
    BY <1>1, DivMod
<1>3. ~ q < x
    <2> SUFFICES ASSUME q < x PROVE FALSE OBVIOUS
    <2>1. q * PerBlock + PerBlock <= x * PerBlock BY <1>2, Multiple
    <2>2. q * PerBlock \in Nat BY <1>2, LogAssumption
    <2> HIDE DEF q, r
    <2> QED BY <1>1, <1>2, <2>1, <2>2, LogAssumption
<1>4. ~ x < q
    <2> SUFFICES ASSUME x < q PROVE FALSE OBVIOUS
    <2>1. x * PerBlock + PerBlock <= q * PerBlock BY <1>2, Multiple
    <2>2. q * PerBlock \in Nat BY <1>2, LogAssumption
    <2> HIDE DEF q, r
    <2> QED BY <1>1, <1>2, <2>1, <2>2, LogAssumption
<1>5. q = x BY <1>2, <1>3, <1>4
<1>6. q * PerBlock = a BY <1>5
<1> HIDE DEF a, q, r
<1>7. r = 0
    <2>1. q * PerBlock + r = q * PerBlock BY <1>2, <1>6
    <2>2. q * PerBlock \in Nat BY <1>1, <1>6
    <2> QED BY <1>2, <2>1, <2>2
<1> QED BY <1>1, <1>7 DEF a, r

LEMMA EndOfBlock ==
    ASSUME NEW a \in Nat
    PROVE  /\ BlockEnd(a) \in Nat /\ a < BlockEnd(a) /\ BlockEnd(a) <= a + PerBlock
           /\ BlockEnd(a) % PerBlock = 0
           /\ \A b \in Nat : b % PerBlock = 0 /\ a < b => BlockEnd(a) <= b
<1> DEFINE q == a \div PerBlock
           r == a % PerBlock
<1>1. q \in Nat /\ r \in 0 .. PerBlock - 1 /\ a = q * PerBlock + r
    BY DivMod
<1>2. BlockEnd(a) = (q + 1) * PerBlock BY DEF BlockEnd
<1> HIDE DEF q, r
<1>3. (q + 1) * PerBlock = q * PerBlock + PerBlock /\ q * PerBlock \in Nat
    BY <1>1, LogAssumption
<1>4. BlockEnd(a) % PerBlock = 0 /\ BlockEnd(a) \in Nat
    <2>1. q + 1 \in Nat BY <1>1
    <2> QED BY <1>2, <2>1, MultipleIsStart
<1>5. ASSUME NEW b \in Nat, b % PerBlock = 0, a < b PROVE BlockEnd(a) <= b
    <2> DEFINE p == b \div PerBlock
    <2>1. p \in Nat /\ b = p * PerBlock + (b % PerBlock) BY DivMod
    <2> HIDE DEF p
    <2>2. b = p * PerBlock /\ p * PerBlock \in Nat BY <1>5, <2>1, LogAssumption
    <2>3. q < p
        <3> SUFFICES ASSUME p <= q PROVE FALSE BY <1>1, <2>1
        <3>1. (q - p) \in Nat /\ (q - p) * PerBlock \in Nat
            BY <1>1, <2>1, LogAssumption
        <3>2. (q - p) * PerBlock = q * PerBlock - p * PerBlock
            BY <1>1, <2>1, LogAssumption
        <3> QED BY <1>1, <1>3, <1>5, <2>2, <3>1, <3>2, LogAssumption
    <2>4. q * PerBlock + PerBlock <= p * PerBlock
        BY <1>1, <2>1, <2>3, Multiple
    <2> QED BY <1>2, <1>3, <2>2, <2>4
<1> QED BY <1>1, <1>2, <1>3, <1>4, <1>5, LogAssumption

LEMMA LogEndIsStart == LogEnd % PerBlock = 0
<1>1. Blocks \in Nat BY LogAssumption
<1> QED BY <1>1, MultipleIsStart DEF LogEnd

LEMMA BlockOfLog ==
    ASSUME NEW a \in Addr
    PROVE  BlockEnd(a) <= LogEnd /\ a \in Nat
BY LogEndIs, LogEndIsStart, EndOfBlock DEF Addr

(* Blocks have PerBlock slots.                                             *)
LEMMA StartsApart ==
    ASSUME NEW a \in Nat, a % PerBlock = 0
    PROVE  BlockEnd(a) = a + PerBlock
<1> DEFINE q == a \div PerBlock
<1>1. q \in Nat /\ a = q * PerBlock + (a % PerBlock) BY DivMod
<1>2. BlockEnd(a) = (q + 1) * PerBlock BY DEF BlockEnd
<1> HIDE DEF q
<1>3. (q + 1) * PerBlock = q * PerBlock + PerBlock /\ q * PerBlock \in Nat
    BY <1>1, LogAssumption
<1> QED BY <1>1, <1>2, <1>3, LogAssumption

LEMMA BlockEndWithin ==
    ASSUME NEW a \in Nat, a % PerBlock # 0
    PROVE  BlockEnd(a) <= a + PerBlock - 1
<1> DEFINE q == a \div PerBlock
           r == a % PerBlock
<1>1. q \in Nat /\ r \in 0 .. PerBlock - 1 /\ a = q * PerBlock + r /\ r # 0
    BY DivMod
<1>2. BlockEnd(a) = (q + 1) * PerBlock BY DEF BlockEnd
<1> HIDE DEF q, r
<1>3. (q + 1) * PerBlock = q * PerBlock + PerBlock /\ q * PerBlock \in Nat
    BY <1>1, LogAssumption
<1> QED BY <1>1, <1>2, <1>3, LogAssumption

LEMMA SameBlock ==
    ASSUME NEW a \in Nat, NEW c \in Nat, a <= c, c < BlockEnd(a)
    PROVE  BlockEnd(c) = BlockEnd(a) /\ (a < c => c % PerBlock # 0)
BY EndOfBlock

LEMMA Aligned ==
    ASSUME NEW a \in Nat
    PROVE  /\ AlignUp(a) \in Nat /\ a <= AlignUp(a) /\ AlignUp(a) % PerBlock = 0
           /\ AlignUp(a) = a \/ AlignUp(a) = BlockEnd(a)
           /\ \A b \in Nat : b % PerBlock = 0 /\ a <= b => AlignUp(a) <= b
           /\ a <= LogEnd => AlignUp(a) <= LogEnd
<1>1. ASSUME NEW b \in Nat, b % PerBlock = 0, a <= b PROVE AlignUp(a) <= b
    BY <1>1, EndOfBlock DEF AlignUp
<1> QED BY <1>1, EndOfBlock, LogEndIs, LogEndIsStart DEF AlignUp

LEMMA StoredIs ==
    ASSUME NEW a \in Nat
    PROVE  Stored(a) \in 0 .. a /\ (OffsetRange = PerBlock => Stored(a) = a)
<1> DEFINE q == a \div PerBlock
           r == a % PerBlock
<1>1. q \in Nat /\ r \in 0 .. PerBlock - 1 /\ a = q * PerBlock + r
    BY DivMod
<1>2. Stored(a) = q * PerBlock + (r % OffsetRange) BY DEF Stored
<1> HIDE DEF q, r
<1>3. r % OffsetRange \in 0 .. r /\ (OffsetRange = PerBlock => r % OffsetRange = r)
    BY <1>1, LogAssumption
<1>4. PICK y \in Nat : y = q * PerBlock BY <1>1, LogAssumption
<1>5. a = y + r /\ Stored(a) = y + (r % OffsetRange) BY <1>1, <1>2, <1>4
<1>6. r \in Nat BY <1>1, LogAssumption
<1> QED BY <1>3, <1>4, <1>5, <1>6

-----------------------------------------------------------------------------
(* The turns of a replay.                                                  *)

LogType == [Addr -> Part \union {Blank, Torn}]
Found == [at : 0 .. LogEnd, table : [File -> 0 .. MaxOps], staged : SUBSET Part,
          head : 0 .. LogEnd]

LEMMA PartIs ==
    ASSUME NEW l \in LogType, NEW a \in Addr, l[a] \notin {Blank, Torn}
    PROVE  l[a] \in Part
BY DEF LogType

LEMMA ResumeIs ==
    ASSUME NEW l \in LogType, NEW a \in Addr, NEW b \in BOOLEAN
    PROVE  /\ Resume(l, a, b) \in a + 1 .. BlockEnd(a)
           /\ \A h \in a + 1 .. BlockEnd(a) - 1 : b /\ Header(l, h) => Resume(l, a, b) <= h
           /\ Resume(l, a, b) = BlockEnd(a) \/ (b /\ Header(l, Resume(l, a, b)))
<1> DEFINE H == {h \in a + 1 .. BlockEnd(a) - 1 : Header(l, h)}
<1>1. a \in Nat /\ BlockEnd(a) \in Nat /\ a < BlockEnd(a)
    BY EndOfBlock DEF Addr
<1>2. CASE b /\ H # {}
    <2>1. H \in SUBSET Nat BY <1>1
    <2>2. \E h \in H : \A k \in H : h <= k BY <1>2, <2>1, Least
    <2>3. Resume(l, a, b) = CHOOSE h \in H : \A k \in H : h <= k
        BY <1>2 DEF Resume
    <2> HIDE DEF H
    <2>4. PICK x \in H : x = Resume(l, a, b) /\ \A k \in H : x <= k
        BY <2>2, <2>3
    <2>5. x \in a + 1 .. BlockEnd(a) - 1 /\ Header(l, x) BY <2>4 DEF H
    <2>6. \A h \in a + 1 .. BlockEnd(a) - 1 : Header(l, h) => x <= h
        BY <2>4 DEF H
    <2>7. x \in a + 1 .. BlockEnd(a) BY <1>1, <2>5
    <2> QED BY <1>2, <2>4, <2>5, <2>6, <2>7, Zenon
<1>3. CASE ~(b /\ H # {})
    <2>1. Resume(l, a, b) = BlockEnd(a) BY <1>3 DEF Resume
    <2>2. \A h \in a + 1 .. BlockEnd(a) - 1 : ~(b /\ Header(l, h))
        BY <1>3, Zenon
    <2>3. BlockEnd(a) \in a + 1 .. BlockEnd(a) BY <1>1
    <2>4. Resume(l, a, b) \in a + 1 .. BlockEnd(a) BY <2>1, <2>3
    <2>5. \A h \in a + 1 .. BlockEnd(a) - 1 : b /\ Header(l, h) => Resume(l, a, b) <= h
        BY <2>2, Zenon
    <2> QED BY <2>1, <2>4, <2>5, Zenon
<1> QED BY <1>2, <1>3

LEMMA WholeFits ==
    ASSUME NEW l \in LogType, NEW a \in Addr, Whole(l, a)
    PROVE  /\ l[a] \in Part /\ l[a].len \in 1 .. 2 /\ l[a].part = 1
           /\ a + l[a].len \in a + 1 .. LogEnd
<1>1. l[a] \in Part /\ l[a].part = 1 BY PartIs DEF Whole, Header
<1>2. l[a].len \in 1 .. 2 BY <1>1 DEF Part
<1>3. l[a].len = 2 => a + 1 \in Addr BY DEF Whole, Addr
<1> QED BY <1>1, <1>2, <1>3, LogEndIs DEF Addr

LEMMA TakeIs ==
    ASSUME NEW s \in Found, NEW r \in Part
    PROVE  /\ Take(s, r) \in Found
           /\ Take(s, r).at = s.at /\ Take(s, r).head = s.head
<1> DEFINE Mine == {t \in s.staged : t.id = r.id}
           Wrote(f) == {t.ver : t \in {t \in Mine : f \in t.files}}
<1>1. CASE r.kind = "DATA"
    <2> DEFINE T == [f \in File |-> IF f \in r.files THEN r.ver ELSE s.table[f]]
    <2>1. Take(s, r) = [s EXCEPT !.table = T] BY <1>1 DEF Take
    <2>2. T \in [File -> 0 .. MaxOps] BY DEF Found, Part
    <2> HIDE DEF T
    <2> QED BY <2>1, <2>2 DEF Found
<1>2. CASE r.kind = "BATCH_DATA"
    BY <1>2 DEF Take, Found
<1>3. CASE r.kind \notin {"DATA", "BATCH_DATA"}
    <2>1. ASSUME NEW f \in File, Wrote(f) # {}
          PROVE  (CHOOSE v \in Wrote(f) : TRUE) \in 0 .. MaxOps
        <3>1. (CHOOSE v \in Wrote(f) : TRUE) \in Wrote(f) BY <2>1
        <3>2. Wrote(f) \subseteq 1 .. MaxOps BY DEF Found, Part
        <3> QED BY <3>1, <3>2
    <2>2. Take(s, r) = [s EXCEPT !.staged = @ \ Mine, !.table = [f \in File |->
            IF Wrote(f) # {} THEN CHOOSE v \in Wrote(f) : TRUE ELSE s.table[f]]]
        BY <1>3 DEF Take
    <2>3. [f \in File |-> IF Wrote(f) # {} THEN CHOOSE v \in Wrote(f) : TRUE
                          ELSE s.table[f]] \in [File -> 0 .. MaxOps]
        BY <2>1 DEF Found
    <2> HIDE DEF Wrote
    <2>4. Mine \subseteq s.staged OBVIOUS
    <2> HIDE DEF Mine
    <2> QED BY <2>2, <2>3, <2>4 DEF Found
<1> QED BY <1>1, <1>2, <1>3

(* A turn gets on.                                                         *)
LEMMA ScanIs ==
    ASSUME NEW l \in LogType, NEW s \in Found, s.at \in Addr
    PROVE  /\ Scan(l, s) \in Found
           /\ Scan(l, s).at > s.at
           /\ Whole(l, s.at) => /\ Scan(l, s).at = s.at + l[s.at].len
                                /\ Scan(l, s).head = s.at + l[s.at].len
                                /\ Scan(l, s).table = Take(s, l[s.at]).table
                                /\ Scan(l, s).staged = Take(s, l[s.at]).staged
           /\ ~Whole(l, s.at) => /\ Scan(l, s).head = s.head
                                 /\ Scan(l, s).table = s.table
                                 /\ Scan(l, s).staged = s.staged
                                 /\ Scan(l, s).at \in s.at + 1 .. BlockEnd(s.at)
<1> DEFINE a == s.at
           b == Header(l, a) \/ s.staged # {} \/ BlockEnd(a) = LogEnd
<1>1. CASE Whole(l, a)
    <2>1. /\ l[a] \in Part /\ a + l[a].len \in a + 1 .. LogEnd
        BY <1>1, WholeFits
    <2>2. Scan(l, s) = [Take(s, l[a]) EXCEPT !.at = a + l[a].len, !.head = a + l[a].len]
        BY <1>1 DEF Scan
    <2>3. Take(s, l[a]) \in Found BY <2>1, TakeIs
    <2> DEFINE t == Take(s, l[a])
               e == a + l[a].len
    <2>4. e \in 0 .. LogEnd /\ e > a
        BY <2>1, LogEndIs DEF Addr
    <2> HIDE DEF t, e
    <2>5. Scan(l, s) = [t EXCEPT !.at = e, !.head = e] /\ t \in Found
        BY <2>2, <2>3 DEF t, e
    <2>6. /\ Scan(l, s) \in Found /\ Scan(l, s).at = e /\ Scan(l, s).head = e
          /\ Scan(l, s).table = t.table /\ Scan(l, s).staged = t.staged
        BY <2>4, <2>5 DEF Found
    <2> QED BY <1>1, <2>4, <2>6 DEF t, e
<1>2. CASE ~Whole(l, a)
    <2>1. Scan(l, s) = [s EXCEPT !.at = Resume(l, a, b)]
        BY <1>2 DEF Scan
    <2>2. Resume(l, a, b) \in a + 1 .. BlockEnd(a)
        BY ResumeIs
    <2>3. BlockEnd(a) <= LogEnd /\ a \in Nat /\ BlockEnd(a) \in Nat
        BY BlockOfLog, EndOfBlock
    <2> DEFINE x == Resume(l, a, b)
    <2> HIDE DEF x, b
    <2>4. x \in a + 1 .. BlockEnd(a) /\ Scan(l, s) = [s EXCEPT !.at = x]
        BY <2>1, <2>2 DEF x
    <2>5. x \in 0 .. LogEnd BY <2>3, <2>4, LogEndIs
    <2> QED BY <1>2, <2>3, <2>4, <2>5, LogEndIs DEF Found
<1> QED BY <1>1, <1>2

First(bound) == [at |-> 0, table |-> NoFiles, staged |-> {}, head |-> bound]
Limit(bound) == IF bound = 0 THEN LogEnd ELSE bound
Turn(l, bound, s) == IF s.at >= Limit(bound) THEN s ELSE Scan(l, s)

LEMMA FirstIs ==
    ASSUME NEW bound \in 0 .. LogEnd
    PROVE  First(bound) \in Found
<1>1. NoFiles \in [File -> 0 .. MaxOps] BY LogAssumption DEF NoFiles
<1> QED BY <1>1, LogEndIs DEF First, Found

LEMMA TurnIs ==
    ASSUME NEW l \in LogType, NEW bound \in 0 .. LogEnd, NEW s \in Found
    PROVE  /\ Turn(l, bound, s) \in Found
           /\ s.at < Limit(bound) => s.at \in Addr
<1>2. s.at < Limit(bound) => s.at \in Addr
    BY LogEndIs DEF Limit, Found, Addr
<1>3. Turn(l, bound, s) \in Found
    <2>1. CASE s.at >= Limit(bound) BY <2>1 DEF Turn
    <2>2. CASE ~(s.at >= Limit(bound))
        <3>1. s.at \in Addr BY <1>2, <2>2, LogEndIs DEF Limit, Found
        <3>2. Scan(l, s) \in Found BY <3>1, ScanIs
        <3> QED BY <2>2, <3>2 DEF Turn
    <2> QED BY <2>1, <2>2
<1> QED BY <1>2, <1>3

(* The function that Turns chooses exists.                                 *)
LEMMA TurnsAre ==
    ASSUME NEW l \in LogType, NEW bound \in 0 .. LogEnd
    PROVE  /\ Turns(l, bound) \in [0 .. LogEnd -> Found]
           /\ Turns(l, bound)[0] = First(bound)
           /\ \A n \in 1 .. LogEnd :
                Turns(l, bound)[n] = Turn(l, bound, Turns(l, bound)[n - 1])
<1> DEFINE T(t) == Turn(l, bound, t)
           Start0 == First(bound)
           Upto(m) == {f \in [0 .. m -> Found] :
                        f[0] = Start0 /\ \A n \in 1 .. m : f[n] = T(f[n - 1])}
           Good == {m \in Nat : Upto(m) # {}}
           Equation(g) == g = [n \in 0 .. LogEnd |->
                                IF n = 0 THEN Start0 ELSE T(g[n - 1])]
<1>0. LogEnd \in Nat /\ LogEnd > 0 BY LogEndIs
<1>1. Start0 \in Found /\ \A t \in Found : T(t) \in Found BY TurnIs, FirstIs
<1>2. Turns(l, bound) = CHOOSE g : Equation(g)
    BY DEF Turns, Turn, Limit, First, NoFiles
<1> HIDE DEF T, Start0
<1>3. 0 \in Good
    <2>1. [n \in 0 .. 0 |-> Start0] \in Upto(0) BY <1>1
    <2> QED BY <2>1
<1>4. ASSUME NEW m \in Nat, m \in Good PROVE m + 1 \in Good
    <2>1. PICK f \in Upto(m) : TRUE BY <1>4
    <2> DEFINE g == [n \in 0 .. m + 1 |-> IF n = m + 1 THEN T(f[m]) ELSE f[n]]
    <2>2. f[m] \in Found BY <2>1
    <2>3. g \in [0 .. m + 1 -> Found] BY <1>1, <2>1, <2>2
    <2>4. g[0] = Start0 BY <2>1
    <2>5. ASSUME NEW n \in 1 .. m + 1 PROVE g[n] = T(g[n - 1])
        BY <2>1, SMTT(30)
    <2>6. g \in Upto(m + 1) BY <2>3, <2>4, <2>5
    <2> QED BY <2>6
<1>5. LogEnd \in Good
    <2>1. \A n \in 0 .. LogEnd - 1 : n \in Good => n + 1 \in Good
        BY <1>4, <1>0
    <2> HIDE DEF Good
    <2> QED BY <1>0, <1>3, <2>1, Count
<1>6. \E g : Equation(g)
    <2>1. PICK f \in Upto(LogEnd) : TRUE BY <1>5
    <2>2. f = [n \in 0 .. LogEnd |-> IF n = 0 THEN Start0 ELSE T(f[n - 1])]
        <3>1. f = [n \in 0 .. LogEnd |-> f[n]] BY <2>1
        <3>2. ASSUME NEW n \in 0 .. LogEnd
              PROVE  f[n] = IF n = 0 THEN Start0 ELSE T(f[n - 1])
            BY <2>1
        <3> QED BY <3>1, <3>2
    <2> QED BY <2>2
<1>7. Equation(Turns(l, bound))
    <2> HIDE DEF Equation
    <2> QED BY <1>2, <1>6
<1> DEFINE S == Turns(l, bound)
<1> HIDE DEF S
<1>8. S = [n \in 0 .. LogEnd |-> IF n = 0 THEN Start0 ELSE T(S[n - 1])]
    BY <1>7 DEF S
<1>9. S[0] = Start0 /\ \A n \in 1 .. LogEnd : S[n] = T(S[n - 1])
    <2>1. ASSUME NEW n \in 0 .. LogEnd
          PROVE  S[n] = IF n = 0 THEN Start0 ELSE T(S[n - 1])
        BY <1>8, Zenon
    <2>2. 0 \in 0 .. LogEnd /\ \A n \in 1 .. LogEnd : n \in 0 .. LogEnd /\ n # 0
        BY <1>0
    <2> QED BY <2>1, <2>2
<1>10. \A n \in 0 .. LogEnd : S[n] \in Found
    <2> DEFINE G == {n \in 0 .. LogEnd : S[n] \in Found}
    <2>1. 0 \in G BY <1>0, <1>1, <1>9
    <2>2. \A n \in 0 .. LogEnd - 1 : n \in G => n + 1 \in G
        BY <1>0, <1>1, <1>9
    <2> HIDE DEF G
    <2>3. \A n \in 0 .. LogEnd : n \in G BY <1>0, <2>1, <2>2, Count
    <2> QED BY <2>3 DEF G
<1>11. S \in [0 .. LogEnd -> Found]
    <2>1. S = [n \in 0 .. LogEnd |-> S[n]] BY <1>8
    <2> QED BY <1>10, <2>1
<1> QED BY <1>9, <1>11 DEF S, T, Start0

(* The address grows until the limit is met, and the head with it.         *)
LEMMA Advance ==
    ASSUME NEW l \in LogType, NEW bound \in 0 .. LogEnd, NEW i \in 0 .. LogEnd,
           NEW j \in 0 .. LogEnd, i <= j
    PROVE  LET S == Turns(l, bound) IN
           /\ S[i] = S[j] \/ S[i].at < S[j].at
           /\ S[i].head <= S[j].head \/ S[i].head = bound
           /\ S[i].at + (j - i) <= S[j].at \/ S[j].at >= Limit(bound)
           /\ S[j].head <= S[j].at \/ S[j].head = bound
<1> DEFINE S == Turns(l, bound)
           G == {k \in 0 .. LogEnd : i <= k =>
                    /\ S[i] = S[k] \/ S[i].at < S[k].at
                    /\ S[i].head <= S[k].head \/ S[i].head = bound
                    /\ S[i].at + (k - i) <= S[k].at \/ S[k].at >= Limit(bound)}
           H == {k \in 0 .. LogEnd : S[k].head <= S[k].at \/ S[k].head = bound}
<1>0. LogEnd \in Nat BY LogEndIs
<1>1. /\ \A n \in 0 .. LogEnd : S[n] \in Found
      /\ S[0] = First(bound)
      /\ \A n \in 1 .. LogEnd : S[n] = Turn(l, bound, S[n - 1])
    BY TurnsAre
<1> HIDE DEF S
<1>2. \A n \in 0 .. LogEnd : S[n].at \in Nat /\ S[n].head \in Nat
    BY <1>1, <1>0 DEF Found
<1>3. ASSUME NEW k \in 0 .. LogEnd - 1
      PROVE  LET s == S[k]
                 t == S[k + 1] IN
             /\ t = s \/ s.at < t.at
             /\ t = s => s.at >= Limit(bound)
             /\ t.head = s.head \/ (t.head = t.at /\ t.at > s.at)
    <2>1. S[k] \in Found /\ k + 1 \in 1 .. LogEnd /\ k \in 0 .. LogEnd
        BY <1>0, <1>1
    <2>2. S[k + 1] = Turn(l, bound, S[k]) BY <1>0, <1>1, <2>1
    <2>3. CASE S[k].at >= Limit(bound) BY <2>2, <2>3 DEF Turn
    <2>4. CASE ~(S[k].at >= Limit(bound))
        <3>1. S[k].at \in Addr BY <2>1, <2>4, <1>0 DEF Limit, Found, Addr
        <3>2. S[k + 1] = Scan(l, S[k]) BY <2>2, <2>4 DEF Turn
        <3>3. Scan(l, S[k]).at > S[k].at BY <2>1, <3>1, ScanIs
        <3>4. \/ Scan(l, S[k]).head = S[k].head
              \/ Scan(l, S[k]).head = Scan(l, S[k]).at
            BY <2>1, <3>1, ScanIs
        <3>5. S[k].at \in Nat /\ S[k + 1].at \in Nat BY <1>2, <2>1
        <3> QED BY <3>2, <3>3, <3>4, <3>5
    <2> QED BY <2>3, <2>4
<1>4. S[0].at = 0 /\ S[0].head = bound BY <1>1 DEF First
<1>5. \A n \in 0 .. LogEnd : n \in H
    <2>1. 0 \in H BY <1>0, <1>4
    <2>2. \A n \in 0 .. LogEnd - 1 : n \in H => n + 1 \in H
        BY <1>0, <1>2, <1>3
    <2> HIDE DEF H
    <2> QED BY <1>0, <2>1, <2>2, Count
<1>6. ASSUME NEW k \in 0 .. LogEnd - 1, k \in G PROVE k + 1 \in G
    <2>1. k \in 0 .. LogEnd /\ k + 1 \in 0 .. LogEnd BY <1>0
    <2>2. PICK s, t : s = S[k] /\ t = S[k + 1] OBVIOUS
    <2>3. PICK u : u = S[i] OBVIOUS
    <2>4. /\ s.at \in Nat /\ t.at \in Nat /\ u.at \in Nat
          /\ s.head \in Nat /\ t.head \in Nat /\ u.head \in Nat
        BY <1>2, <2>1, <2>2, <2>3
    <2>5. /\ t = s \/ s.at < t.at
          /\ t = s => s.at >= Limit(bound)
          /\ t.head = s.head \/ (t.head = t.at /\ t.at > s.at)
        BY <1>3, <2>2
    <2>6. (s.head <= s.at \/ s.head = bound) /\ (u.head <= u.at \/ u.head = bound)
        BY <1>5, <2>1, <2>2, <2>3
    <2>7. i <= k => /\ u = s \/ u.at < s.at
                    /\ u.head <= s.head \/ u.head = bound
                    /\ u.at + (k - i) <= s.at \/ s.at >= Limit(bound)
        BY <1>6, <2>2, <2>3
    <2>8. i = k + 1 => u = t BY <2>2, <2>3
    <2>9. Limit(bound) \in Nat BY <1>0 DEF Limit
    <2>10. CASE ~(i <= k + 1) BY <2>1, <2>10
    <2>11. CASE i = k + 1
        BY <1>0, <2>1, <2>2, <2>3, <2>4, <2>8, <2>11
    <2>12. CASE i <= k
        <3>1. u = t \/ u.at < t.at BY <2>4, <2>5, <2>7, <2>12
        <3>2. u.head <= t.head \/ u.head = bound
            BY <2>4, <2>5, <2>6, <2>7, <2>12
        <3>3. u.at + (k + 1 - i) <= t.at \/ t.at >= Limit(bound)
            BY <2>1, <2>4, <2>5, <2>7, <2>9, <2>12
        <3> QED BY <2>1, <2>2, <2>3, <3>1, <3>2, <3>3
    <2> QED BY <2>1, <2>10, <2>11, <2>12
<1>7. 0 \in G
    <2>1. i <= 0 => i = 0 BY <1>0
    <2> QED BY <1>0, <1>2, <2>1
<1>8. \A n \in 0 .. LogEnd : n \in G
    <2> HIDE DEF G
    <2> QED BY <1>0, <1>7, <1>6, Count
<1> QED BY <1>5, <1>8 DEF G, H, S

(* The replay without a bound comes to x, and a record ends there.         *)
Reached(l, x) ==
    \E n \in 0 .. LogEnd : Turns(l, 0)[n].at = x /\ Turns(l, 0)[n].head = x
(* What it has found then.                                                 *)
At(l, x) == Turns(l, 0)[CHOOSE n \in 0 .. LogEnd :
                            Turns(l, 0)[n].at = x /\ Turns(l, 0)[n].head = x]

LEMMA AtIs ==
    ASSUME NEW l \in LogType, NEW x, Reached(l, x)
    PROVE  /\ x \in 0 .. LogEnd
           /\ At(l, x) \in Found /\ At(l, x).at = x /\ At(l, x).head = x
           /\ \E n \in 0 .. LogEnd : Turns(l, 0)[n] = At(l, x)
           /\ \A n \in 0 .. LogEnd : Turns(l, 0)[n].at = x => Turns(l, 0)[n] = At(l, x)
<1> DEFINE S == Turns(l, 0)
<1>0. LogEnd \in Nat BY LogEndIs
<1>1. \A n \in 0 .. LogEnd : S[n] \in Found
    BY TurnsAre, <1>0
<1>2. PICK k \in 0 .. LogEnd : S[k].at = x /\ S[k].head = x /\ At(l, x) = S[k]
    BY DEF Reached, At
<1>3. ASSUME NEW n \in 0 .. LogEnd, S[n].at = x PROVE S[n] = S[k]
    <2>1. \A i, j \in 0 .. LogEnd : i <= j => S[i] = S[j] \/ S[i].at < S[j].at
        BY Advance, <1>0
    <2>2. x \in Nat BY <1>1, <1>2, <1>0 DEF Found
    <2> HIDE DEF S
    <2> QED BY <2>1, <2>2, <1>2, <1>3, <1>0
<1>4. S[k] \in Found /\ x \in 0 .. LogEnd BY <1>1, <1>2 DEF Found
<1> HIDE DEF S
<1>5. \A n \in 0 .. LogEnd : S[n].at = x => S[n] = At(l, x) BY <1>2, <1>3
<1> QED BY <1>2, <1>4, <1>5 DEF S

(* A replay comes nowhere else.                                            *)
LEMMA ReachedBy ==
    ASSUME NEW l \in LogType, NEW n \in 0 .. LogEnd, NEW x,
           Turns(l, 0)[n].at = x, Turns(l, 0)[n].head = x
    PROVE  Reached(l, x) /\ At(l, x) = Turns(l, 0)[n]
<1>1. Reached(l, x) BY DEF Reached
<1> QED BY <1>1, AtIs

LEMMA ReachedStart ==
    ASSUME NEW l \in LogType
    PROVE  Reached(l, 0) /\ At(l, 0).table = NoFiles
<1>1. Turns(l, 0)[0] = First(0) /\ 0 \in 0 .. LogEnd
    BY TurnsAre, LogEndIs
<1>2. Turns(l, 0)[0].at = 0 /\ Turns(l, 0)[0].head = 0 /\ Turns(l, 0)[0].table = NoFiles
    BY <1>1 DEF First
<1> QED BY <1>1, <1>2, ReachedBy

(* A replay to a bound that is reached finds what was found there.         *)
LEMMA ReplayTo ==
    ASSUME NEW l \in LogType, NEW x, x # 0, Reached(l, x)
    PROVE  Replay(l, x) = At(l, x)
<1> DEFINE S == Turns(l, 0)
           T == Turns(l, x)
<1>0. LogEnd \in Nat /\ x \in 1 .. LogEnd /\ x \in 0 .. LogEnd
    BY LogEndIs, AtIs
<1>1. /\ \A n \in 0 .. LogEnd : S[n] \in Found /\ T[n] \in Found
      /\ S[0] = First(0) /\ T[0] = First(x)
      /\ \A n \in 1 .. LogEnd : S[n] = Turn(l, 0, S[n - 1]) /\ T[n] = Turn(l, x, T[n - 1])
    BY TurnsAre, <1>0
<1>2. PICK k \in 0 .. LogEnd : S[k] = At(l, x) /\ S[k].at = x /\ S[k].head = x
    BY AtIs
<1>3. \A i \in 0 .. k : S[i] = S[k] \/ S[i].at < x
    <2>1. \A i, j \in 0 .. LogEnd : i <= j => S[i] = S[j] \/ S[i].at < S[j].at
        BY Advance, <1>0
    <2> HIDE DEF S
    <2> QED BY <1>0, <1>2, <2>1
<1> HIDE DEF S, T
<1> DEFINE Same(s, t) == /\ t.at = s.at /\ t.table = s.table /\ t.staged = s.staged
                         /\ t.head = IF s.head = 0 THEN x ELSE s.head
           G == {i \in 0 .. LogEnd : i <= k => Same(S[i], T[i])}
<1>4. Limit(0) = LogEnd /\ Limit(x) = x BY <1>0 DEF Limit
<1>5. 0 \in G
    <2>1. Same(First(0), First(x)) BY DEF First
    <2>2. Same(S[0], T[0]) BY <1>1, <2>1
    <2> HIDE DEF Same
    <2> QED BY <1>0, <2>2
<1>6. ASSUME NEW i \in 0 .. LogEnd - 1, i \in G PROVE i + 1 \in G
    <2>0. SUFFICES ASSUME i + 1 <= k PROVE Same(S[i + 1], T[i + 1])
        BY <1>0
    <2>1. PICK s, t : s = S[i] /\ t = T[i] OBVIOUS
    <2>2. i \in 0 .. LogEnd /\ i \in 0 .. k /\ i + 1 \in 1 .. LogEnd
        BY <1>0, <1>2, <2>0
    <2>3. s \in Found /\ t \in Found /\ Same(s, t)
        BY <1>1, <1>6, <2>0, <2>1, <2>2
    <2>4. S[i + 1] = Turn(l, 0, s) /\ T[i + 1] = Turn(l, x, t)
        BY <1>1, <2>1, <2>2, <1>0
    <2>5. CASE s.at >= x
        <3>1. s = S[k] BY <1>3, <2>1, <2>2, <2>5, <1>0, <2>3 DEF Found
        <3>2. T[i + 1] = t BY <2>3, <2>4, <2>5, <1>4 DEF Turn
        <3>3. S[i + 1] = S[k]
            <4>1. S[i + 1] = S[k] \/ S[i + 1].at < x
                BY <1>3, <2>0, <2>2
            <4>2. s = S[i + 1] \/ s.at < S[i + 1].at
                BY Advance, <2>1, <2>2, <1>0 DEF S
            <4>3. S[i + 1] \in Found BY <1>1, <2>2
            <4> QED BY <3>1, <4>1, <4>2, <4>3, <2>3, <2>5, <1>0 DEF Found
        <3> QED BY <3>1, <3>2, <3>3, <2>3
    <2>6. CASE ~(s.at >= x)
        <3>1. s.at \in Addr /\ t.at \in Addr
            BY <2>3, <2>6, <1>0 DEF Found, Addr
        <3>2. S[i + 1] = Scan(l, s) /\ T[i + 1] = Scan(l, t)
            <4>1. ~(s.at >= Limit(0)) /\ ~(t.at >= Limit(x))
                BY <2>3, <2>6, <1>4, <1>0 DEF Found
            <4> QED BY <2>4, <4>1 DEF Turn
        <3>3. CASE Whole(l, s.at)
            <4>1. l[s.at] \in Part /\ s.at + l[s.at].len > 0
                BY <3>1, <3>3, WholeFits, <1>0 DEF Addr
            <4>2. /\ Take(s, l[s.at]).table = Take(t, l[s.at]).table
                  /\ Take(s, l[s.at]).staged = Take(t, l[s.at]).staged
                BY <2>3 DEF Take, Found
            <4>3. /\ Scan(l, s).at = s.at + l[s.at].len /\ Scan(l, s).head = s.at + l[s.at].len
                  /\ Scan(l, s).table = Take(s, l[s.at]).table
                  /\ Scan(l, s).staged = Take(s, l[s.at]).staged
                BY <2>3, <3>1, <3>3, ScanIs
            <4>4. /\ Scan(l, t).at = t.at + l[t.at].len /\ Scan(l, t).head = t.at + l[t.at].len
                  /\ Scan(l, t).table = Take(t, l[t.at]).table
                  /\ Scan(l, t).staged = Take(t, l[t.at]).staged
                BY <2>3, <3>1, <3>3, ScanIs
            <4> QED BY <2>3, <3>2, <4>1, <4>2, <4>3, <4>4
        <3>4. CASE ~Whole(l, s.at)
            <4>1. /\ Scan(l, s).head = s.head /\ Scan(l, s).table = s.table
                  /\ Scan(l, s).staged = s.staged
                BY <2>3, <3>1, <3>4, ScanIs
            <4>2. /\ Scan(l, t).head = t.head /\ Scan(l, t).table = t.table
                  /\ Scan(l, t).staged = t.staged
                BY <2>3, <3>1, <3>4, ScanIs
            <4>3. Scan(l, s).at = Scan(l, t).at
                BY <2>3, <3>4 DEF Scan, Found
            <4> QED BY <2>3, <3>2, <4>1, <4>2, <4>3
        <3> QED BY <3>3, <3>4
    <2> QED BY <2>5, <2>6
<1>7. Same(S[k], T[k])
    <2> HIDE DEF G
    <2>1. \A n \in 0 .. LogEnd : n \in G BY <1>0, <1>5, <1>6, Count
    <2> QED BY <2>1, <1>2, <1>0 DEF G
<1>8. T[k] = S[k]
    <2>1. T[k] \in Found /\ S[k] \in Found BY <1>1, <1>2
    <2> QED BY <2>1, <1>2, <1>7, <1>0 DEF Found
<1>9. T[LogEnd] = T[k]
    <2>1. T[k] = T[LogEnd] \/ T[k].at < T[LogEnd].at
        BY Advance, <1>0, <1>2 DEF T
    <2> DEFINE H == {i \in 0 .. LogEnd : k <= i => T[i] = T[k]}
    <2>2. 0 \in H BY <1>0, <1>2
    <2>3. ASSUME NEW i \in 0 .. LogEnd - 1, i \in H PROVE i + 1 \in H
        <3>1. i \in 0 .. LogEnd /\ i + 1 \in 0 .. LogEnd BY <1>0
        <3>2. CASE k <= i
            <4>1. T[i + 1] = Turn(l, x, T[k])
                BY <1>0, <1>1, <2>3, <3>1, <3>2
            <4>2. T[i + 1] = T[k] BY <4>1, <1>0, <1>2, <1>8, <1>4 DEF Turn
            <4> QED BY <3>1, <4>2
        <3>3. CASE ~(k <= i)
            <4>1. k <= i + 1 => k = i + 1 BY <1>0, <1>2, <3>3
            <4> QED BY <3>1, <4>1
        <3> QED BY <3>2, <3>3
    <2> HIDE DEF H
    <2>4. \A n \in 0 .. LogEnd : n \in H BY <1>0, <2>2, <2>3, Count
    <2> QED BY <2>4, <1>0, <1>2 DEF H
<1> QED BY <1>2, <1>8, <1>9 DEF Replay, T

LEMMA NextTurn ==
    ASSUME NEW l \in LogType, NEW n \in 0 .. LogEnd, Turns(l, 0)[n].at \in Addr
    PROVE  /\ n + 1 \in 0 .. LogEnd
           /\ Turns(l, 0)[n + 1] = Scan(l, Turns(l, 0)[n])
<1> DEFINE S == Turns(l, 0)
<1>0. LogEnd \in Nat /\ 0 \in 0 .. LogEnd /\ Limit(0) = LogEnd
    BY LogEndIs DEF Limit
<1>1. S[0].at + (n - 0) <= S[n].at \/ S[n].at >= Limit(0)
    BY Advance, <1>0
<1>2. S[0].at = 0
    <2>1. S[0] = First(0) BY TurnsAre, <1>0
    <2> QED BY <2>1 DEF First
<1>3. S[n + 1] = Turn(l, 0, S[n]) \/ n + 1 \notin 1 .. LogEnd
    <2>1. \A k \in 1 .. LogEnd : S[k] = Turn(l, 0, S[k - 1]) BY TurnsAre, <1>0
    <2>2. (n + 1) - 1 = n BY <1>0
    <2> QED BY <2>1, <2>2
<1> HIDE DEF S
<1>4. n < LogEnd /\ ~(S[n].at >= Limit(0))
    BY <1>0, <1>1, <1>2 DEF Addr, S
<1>5. S[n + 1] = Scan(l, S[n]) BY <1>0, <1>3, <1>4 DEF Turn
<1> QED BY <1>0, <1>4, <1>5 DEF S

(* A turn that comes no further than x does not depend on what is behind x. *)
LEMMA ScanSame ==
    ASSUME NEW l \in LogType, NEW m \in LogType, NEW s \in Found, s.at \in Addr,
           NEW x \in Nat, \A a \in Addr : a < x => m[a] = l[a],
           Scan(l, s).at < x \/ (Whole(l, s.at) /\ Scan(l, s).at = x)
    PROVE  Scan(m, s) = Scan(l, s)
<1> DEFINE a == s.at
           u == Scan(l, s)
<1>0. LogEnd \in Nat /\ a \in Addr /\ a \in Nat BY LogEndIs DEF Addr
<1>1. u \in Found /\ u.at > a /\ u.at \in Nat
    <2>1. u \in Found /\ u.at > a BY ScanIs
    <2> QED BY <2>1, <1>0 DEF Found
<1>2. a < x /\ m[a] = l[a] BY <1>0, <1>1
<1>3. CASE Whole(l, a)
    <2>1. l[a] \in Part /\ l[a].len \in 1 .. 2 BY <1>3, WholeFits
    <2>2. u.at = a + l[a].len BY <1>3, ScanIs
    <2>3. ASSUME NEW j \in 2 .. l[a].len
          PROVE  a + j - 1 \in Addr /\ m[a + j - 1] = l[a + j - 1]
        <3>1. a + j - 1 \in Addr BY <1>3 DEF Whole
        <3>2. a + j - 1 < x BY <1>0, <1>1, <2>1, <2>2
        <3> QED BY <3>1, <3>2
    <2>4. Whole(m, a) BY <1>2, <1>3, <2>3 DEF Whole, Header
    <2> QED BY <1>2, <1>3, <2>4 DEF Scan
<1>4. CASE ~Whole(l, a)
    <2> DEFINE b == Header(l, a) \/ s.staged # {} \/ BlockEnd(a) = LogEnd
               h == Resume(l, a, b)
               g == Resume(m, a, b)
    <2>1. u.at < x BY <1>4
    <2>2. ~Whole(m, a)
        <3> SUFFICES ASSUME Whole(m, a) PROVE FALSE OBVIOUS
        <3>1. m[a].len \in 1 .. 2 BY WholeFits
        <3>2. ASSUME NEW j \in 2 .. m[a].len
              PROVE  a + j - 1 \in Addr /\ m[a + j - 1] = l[a + j - 1]
            <4>1. a + j - 1 \in Addr BY DEF Whole
            <4>2. a + j - 1 < x BY <1>0, <1>1, <2>1, <3>1
            <4> QED BY <4>1, <4>2
        <3>3. Whole(l, a) BY <1>2, <3>2 DEF Whole, Header
        <3> QED BY <1>4, <3>3
    <2>3. u = [s EXCEPT !.at = h] BY <1>4 DEF Scan
    <2>4. Scan(m, s) = [s EXCEPT !.at = g] BY <1>2, <2>2 DEF Scan, Header
    <2>5. /\ h \in a + 1 .. BlockEnd(a)
          /\ \A c \in a + 1 .. BlockEnd(a) - 1 : b /\ Header(l, c) => h <= c
          /\ h = BlockEnd(a) \/ (b /\ Header(l, h))
        BY ResumeIs
    <2>6. /\ g \in a + 1 .. BlockEnd(a)
          /\ \A c \in a + 1 .. BlockEnd(a) - 1 : b /\ Header(m, c) => g <= c
          /\ g = BlockEnd(a) \/ (b /\ Header(m, g))
        BY ResumeIs
    <2>7. h < x /\ BlockEnd(a) \in Nat
        BY <1>0, <2>1, <2>3, EndOfBlock DEF Found
    <2>8. \A c \in a + 1 .. BlockEnd(a) - 1 : c < x => (Header(m, c) <=> Header(l, c))
        <3> TAKE c \in a + 1 .. BlockEnd(a) - 1
        <3>1. c \in Addr BY <1>0, <2>7, BlockOfLog DEF Addr
        <3> QED BY <3>1 DEF Header
    <2> HIDE DEF h, g, b, a, u
    <2>9. ~ h < g
        <3> SUFFICES ASSUME h < g PROVE FALSE OBVIOUS
        <3>1. h \in a + 1 .. BlockEnd(a) - 1 /\ h \in Nat
            BY <1>0, <2>5, <2>6, <2>7
        <3>2. b /\ Header(l, h) BY <2>5, <2>7, <3>1
        <3>3. g <= h BY <2>6, <2>7, <2>8, <3>1, <3>2
        <3> QED BY <3>1, <3>3, <2>6, <1>0, <2>7
    <2>10. ~ g < h
        <3> SUFFICES ASSUME g < h PROVE FALSE OBVIOUS
        <3>1. g \in a + 1 .. BlockEnd(a) - 1 /\ g \in Nat /\ g < x
            BY <1>0, <2>5, <2>6, <2>7
        <3>2. b /\ Header(m, g) BY <2>6, <2>7, <3>1
        <3>3. h <= g BY <2>5, <2>8, <3>1, <3>2
        <3> QED BY <3>1, <3>3, <2>5, <1>0, <2>7
    <2>11. h = g BY <2>5, <2>6, <2>7, <2>9, <2>10, <1>0
    <2> QED BY <2>3, <2>4, <2>11 DEF u
<1> QED BY <1>3, <1>4

(* What a replay does before x does not depend on what is behind x.        *)
LEMMA PathSame ==
    ASSUME NEW l \in LogType, NEW m \in LogType, NEW x, Reached(l, x),
           \A a \in Addr : a < x => m[a] = l[a]
    PROVE  Reached(m, x) /\ At(m, x) = At(l, x)
<1> DEFINE S == Turns(l, 0)
           T == Turns(m, 0)
<1>0. LogEnd \in Nat /\ 0 \in 0 .. LogEnd /\ x \in 0 .. LogEnd
    BY LogEndIs, AtIs
<1>1. /\ \A n \in 0 .. LogEnd : S[n] \in Found /\ T[n] \in Found
      /\ S[0] = First(0) /\ T[0] = First(0)
    BY TurnsAre, <1>0
<1>2. PICK k \in 0 .. LogEnd : S[k] = At(l, x) /\ S[k].at = x /\ S[k].head = x
    BY AtIs
<1>3. /\ \A i, j \in 0 .. LogEnd : i <= j => S[i] = S[j] \/ S[i].at < S[j].at
      /\ \A i \in 0 .. LogEnd : S[i].head <= S[i].at \/ S[i].head = 0
    BY Advance, <1>0
<1>4. \A n \in 0 .. LogEnd - 1 :
        /\ S[n + 1] = IF S[n].at >= LogEnd THEN S[n] ELSE Scan(l, S[n])
        /\ T[n + 1] = IF T[n].at >= LogEnd THEN T[n] ELSE Scan(m, T[n])
    <2>1. /\ \A n \in 1 .. LogEnd : S[n] = Turn(l, 0, S[n - 1])
          /\ \A n \in 1 .. LogEnd : T[n] = Turn(m, 0, T[n - 1])
          /\ Limit(0) = LogEnd
        BY TurnsAre, <1>0 DEF Limit
    <2> HIDE DEF S, T
    <2>2. ASSUME NEW n \in 0 .. LogEnd - 1
          PROVE  S[n + 1] = Turn(l, 0, S[n]) /\ T[n + 1] = Turn(m, 0, T[n])
        <3>1. n + 1 \in 1 .. LogEnd /\ (n + 1) - 1 = n BY <1>0
        <3> QED BY <2>1, <3>1
    <2> QED BY <2>1, <2>2 DEF Turn
<1> HIDE DEF S, T
<1> DEFINE G == {i \in 0 .. LogEnd : i <= k => T[i] = S[i]}
<1>5. 0 \in G BY <1>0, <1>1
<1>6. ASSUME NEW i \in 0 .. LogEnd - 1, i \in G PROVE i + 1 \in G
    <2>0. SUFFICES ASSUME i + 1 <= k PROVE T[i + 1] = S[i + 1]
        BY <1>0
    <2>1. /\ i \in 0 .. LogEnd /\ i + 1 \in 0 .. LogEnd /\ i <= k /\ T[i] = S[i]
        BY <1>0, <1>2, <1>6, <2>0
    <2>2. PICK s : s = S[i] /\ s \in Found BY <1>1, <2>1
    <2> DEFINE a == s.at
               u == Scan(l, s)
    <2>3. a \in Nat /\ s.head \in Nat BY <2>2, <1>0 DEF Found
    <2>4. CASE a >= LogEnd BY <1>4, <2>1, <2>2, <2>4
    <2>5. CASE ~(a >= LogEnd)
        <3>1. a \in Addr BY <2>3, <2>5, <1>0 DEF Addr
        <3>2. S[i + 1] = u /\ T[i + 1] = Scan(m, s) BY <1>4, <2>1, <2>2, <2>5
        <3>3. u \in Found /\ u.at > a BY <2>2, <3>1, ScanIs
        <3>4. u.at <= x
            BY <1>0, <1>2, <1>3, <2>0, <2>1, <3>2, <3>3 DEF Found
        <3>5. u.at = x => u.head = x
            BY <1>0, <1>2, <1>3, <2>0, <2>1, <3>2, <3>3 DEF Found
        <3>6. s.head < x
            <4>1. s.head <= a \/ s.head = 0 BY <1>3, <2>1, <2>2
            <4> QED BY <4>1, <2>3, <3>3, <3>4, <1>0 DEF Found
        <3>7. u.at < x \/ (Whole(l, a) /\ u.at = x)
            <4> SUFFICES ASSUME ~Whole(l, a) PROVE u.at # x
                BY <3>3, <3>4, <1>0 DEF Found
            <4>1. u.head = s.head BY <2>2, <3>1, ScanIs
            <4> QED BY <3>5, <3>6, <4>1, <2>3, <1>0
        <3>8. x \in Nat BY <1>0
        <3>9. Scan(m, s) = Scan(l, s) BY <2>2, <3>1, <3>7, <3>8, ScanSame
        <3> QED BY <3>2, <3>9
    <2> QED BY <2>4, <2>5
<1>7. T[k] = S[k]
    <2> HIDE DEF G
    <2>1. \A n \in 0 .. LogEnd : n \in G BY <1>0, <1>5, <1>6, Count
    <2> QED BY <2>1, <1>0, <1>2 DEF G
<1> QED BY <1>2, <1>7, ReachedBy DEF T, S

(* Nor does a turn that has not passed c depend on what is behind c.       *)
LEMMA VisitSame ==
    ASSUME NEW l \in LogType, NEW m \in LogType, NEW c \in Addr,
           \A a \in Addr : a <= c => m[a] = l[a],
           NEW n \in 0 .. LogEnd, Turns(l, 0)[n].at <= c
    PROVE  Turns(m, 0)[n] = Turns(l, 0)[n]
<1> DEFINE S == Turns(l, 0)
           T == Turns(m, 0)
           G == {i \in 0 .. LogEnd : i <= n => T[i] = S[i]}
<1>0. LogEnd \in Nat /\ 0 \in 0 .. LogEnd /\ c \in Nat /\ c < LogEnd
    BY LogEndIs DEF Addr
<1>1. /\ \A i \in 0 .. LogEnd : S[i] \in Found /\ T[i] \in Found
      /\ S[0] = First(0) /\ T[0] = First(0)
    BY TurnsAre, <1>0
<1>2. \A i \in 0 .. LogEnd : i <= n => S[i] = S[n] \/ S[i].at < S[n].at
    BY Advance, <1>0
<1>3. /\ \A i \in 0 .. LogEnd : S[i].at \in Addr => S[i + 1] = Scan(l, S[i])
      /\ \A i \in 0 .. LogEnd : T[i].at \in Addr => T[i + 1] = Scan(m, T[i])
    BY NextTurn
<1>4. S[n].at <= c OBVIOUS
<1> HIDE DEF S, T
<1>5. 0 \in G BY <1>0, <1>1
<1>6. ASSUME NEW i \in 0 .. LogEnd - 1, i \in G PROVE i + 1 \in G
    <2>0. SUFFICES ASSUME i + 1 <= n PROVE T[i + 1] = S[i + 1]
        BY <1>0
    <2>1. /\ i \in 0 .. LogEnd /\ i + 1 \in 0 .. LogEnd /\ i <= n /\ T[i] = S[i]
        BY <1>0, <1>6, <2>0
    <2>2. PICK s : s = S[i] /\ s \in Found BY <1>1, <2>1
    <2>3. s.at <= c /\ S[i + 1].at <= c
        <3>1. S[n].at \in Nat /\ S[i + 1].at \in Nat /\ s.at \in Nat
            BY <1>0, <1>1, <2>1, <2>2 DEF Found
        <3> QED BY <1>0, <1>2, <1>4, <2>0, <2>1, <2>2, <3>1
    <2>4. s.at \in Addr BY <1>0, <2>2, <2>3 DEF Found, Addr
    <2>5. S[i + 1] = Scan(l, s) /\ T[i + 1] = Scan(m, s)
        BY <1>3, <2>1, <2>2, <2>4
    <2>6. c + 1 \in Nat /\ Scan(l, s).at < c + 1
        <3>1. Scan(l, s) \in Found BY <2>2, <2>4, ScanIs
        <3> QED BY <1>0, <2>3, <2>5, <3>1 DEF Found
    <2>7. \A a \in Addr : a < c + 1 => m[a] = l[a]
        BY <1>0 DEF Addr
    <2>8. Scan(m, s) = Scan(l, s) BY <2>2, <2>4, <2>6, <2>7, ScanSame
    <2> QED BY <2>5, <2>8
<1>7. \A i \in 0 .. LogEnd : i \in G
    <2> HIDE DEF G
    <2> QED BY <1>0, <1>5, <1>6, Count
<1> QED BY <1>7, <1>0 DEF S, T

(* The start of a block that no record runs across is not jumped over.     *)
LEMMA Walk ==
    ASSUME NEW l \in LogType, NEW x, Reached(l, x), NEW b \in Addr,
           x < b, b = BlockEnd(x), ~(Whole(l, b - 1) /\ l[b - 1].len = 2),
           NEW G \in SUBSET Found, At(l, x) \in G,
           \A s \in G : s.at \in x .. b - 1 => Scan(l, s) \in G
    PROVE  \E k \in 0 .. LogEnd : Turns(l, 0)[k].at = b /\ Turns(l, 0)[k] \in G
<1> DEFINE S == Turns(l, 0)
           There == \E k \in 0 .. LogEnd : S[k].at = b /\ S[k] \in G
<1>0. LogEnd \in Nat /\ 0 \in 0 .. LogEnd /\ x \in 0 .. LogEnd /\ x \in Nat /\ b \in Nat
      /\ Limit(0) = LogEnd /\ b < LogEnd
    BY LogEndIs, AtIs DEF Addr, Limit
<1>1. PICK n \in 0 .. LogEnd : S[n] = At(l, x) /\ S[n].at = x
    BY AtIs
<1>2. \A i \in 0 .. LogEnd : S[i].at \in Addr => S[i + 1] = Scan(l, S[i])
    BY NextTurn
<1>3. S[0].at + (LogEnd - 0) <= S[LogEnd].at \/ S[LogEnd].at >= Limit(0)
    BY Advance, <1>0
<1>4. S[0] = First(0) BY TurnsAre, <1>0
<1>5. S[0].at = 0 BY <1>4 DEF First
<1>6. \A i \in 0 .. LogEnd : S[i] \in Found BY TurnsAre, <1>0
<1> HIDE DEF S, There
<1> DEFINE H == {i \in 0 .. LogEnd : n <= i => There \/ (S[i] \in G /\ S[i].at \in x .. b - 1)}
<1>7. 0 \in H
    <2>1. 0 >= n => S[0] = At(l, x) /\ S[0].at = x BY <1>0, <1>1
    <2> QED BY <1>0, <1>1, <2>1
<1>8. ASSUME NEW i \in 0 .. LogEnd - 1, i \in H PROVE i + 1 \in H
    <2>0. SUFFICES ASSUME n <= i + 1, ~There
                   PROVE  S[i + 1] \in G /\ S[i + 1].at \in x .. b - 1
        BY <1>0
    <2>1. i \in 0 .. LogEnd /\ i + 1 \in 0 .. LogEnd BY <1>0
    <2>2. CASE n = i + 1 BY <1>0, <1>1, <2>2
    <2>3. CASE n <= i
        <3>1. PICK s : s = S[i] /\ s \in G /\ s.at \in x .. b - 1 /\ s \in Found
            BY <1>6, <1>8, <2>0, <2>1, <2>3
        <3>2. s.at \in Addr /\ s.at \in Nat BY <1>0, <3>1 DEF Addr
        <3>3. S[i + 1] = Scan(l, s) /\ Scan(l, s) \in G
            BY <1>2, <2>1, <3>1, <3>2
        <3>4. Scan(l, s).at > s.at /\ Scan(l, s) \in Found BY <3>1, <3>2, ScanIs
        <3>5. Scan(l, s).at <= b
            <4>1. BlockEnd(s.at) = b BY <1>0, <3>1, <3>2, SameBlock
            <4>2. CASE Whole(l, s.at)
                <5>1. Scan(l, s).at = s.at + l[s.at].len BY <3>1, <3>2, <4>2, ScanIs
                <5>2. l[s.at].len \in 1 .. 2 BY <3>2, <4>2, WholeFits
                <5>3. s.at = b - 1 => l[s.at].len # 2 BY <4>2
                <5> QED BY <5>1, <5>2, <5>3, <3>1, <3>2, <1>0
            <4>3. CASE ~Whole(l, s.at)
                <5>1. Scan(l, s).at \in s.at + 1 .. BlockEnd(s.at)
                    BY <3>1, <3>2, <4>3, ScanIs
                <5> QED BY <4>1, <5>1, <3>2, <1>0
            <4> QED BY <4>2, <4>3
        <3>6. Scan(l, s).at # b BY <2>0, <2>1, <3>3 DEF There
        <3> QED BY <3>1, <3>2, <3>3, <3>4, <3>5, <3>6, <1>0 DEF Found
    <2> QED BY <2>0, <2>1, <2>2, <2>3, <1>0
<1>9. LogEnd \in H
    <2> HIDE DEF H
    <2>1. \A i \in 0 .. LogEnd : i \in H BY <1>0, <1>7, <1>8, Count
    <2> QED BY <1>0, <2>1
<1>10. There
    <2>1. n <= LogEnd BY <1>0
    <2>2. LogEnd <= S[LogEnd].at BY <1>0, <1>3, <1>5, <1>6 DEF Found
    <2>3. ~(S[LogEnd].at \in x .. b - 1) BY <2>2, <1>0, <1>6 DEF Found
    <2> QED BY <1>9, <2>1, <2>3
<1> QED BY <1>10 DEF There, S

(* A replay without a bound: its head is reached, and no record is found   *)
(* right behind it.                                                        *)
LEMMA ReplayAll ==
    ASSUME NEW l \in LogType
    PROVE  LET r == Replay(l, 0) IN
           /\ r \in Found
           /\ Reached(l, r.head) /\ At(l, r.head).table = r.table
           /\ r.head \in Addr => ~Whole(l, r.head)
<1> DEFINE S == Turns(l, 0)
           h == S[LogEnd].head
           G == {i \in 0 .. LogEnd : Reached(l, S[i].head)
                                     /\ At(l, S[i].head).table = S[i].table}
<1>0. LogEnd \in Nat /\ 0 \in 0 .. LogEnd /\ LogEnd \in 0 .. LogEnd BY LogEndIs
<1>1. \A i \in 0 .. LogEnd : S[i] \in Found BY TurnsAre, <1>0
<1>2. /\ S[0] = First(0)
      /\ \A i \in 1 .. LogEnd : S[i] = Turn(l, 0, S[i - 1])
    BY TurnsAre, <1>0
<1>3. \A i \in 0 .. LogEnd : S[i].at = S[i].head =>
        Reached(l, S[i].head) /\ At(l, S[i].head) = S[i]
    BY ReachedBy
<1>4. \A i, j \in 0 .. LogEnd : i <= j => S[i].head <= S[j].head \/ S[i].head = 0
    BY Advance, <1>0
<1>5. Replay(l, 0) = S[LogEnd] BY DEF Replay
<1> HIDE DEF S
<1>6. ASSUME NEW i \in 0 .. LogEnd - 1
      PROVE  /\ i \in 0 .. LogEnd /\ i + 1 \in 0 .. LogEnd
             /\ S[i + 1] = Turn(l, 0, S[i])
    <2>1. i + 1 \in 1 .. LogEnd /\ (i + 1) - 1 = i /\ i \in 0 .. LogEnd BY <1>0
    <2> QED BY <1>2, <2>1, <1>0
<1>7. 0 \in G
    <2>1. S[0].at = 0 /\ S[0].head = 0 BY <1>2 DEF First
    <2> QED BY <1>0, <1>3, <2>1
<1>8. ASSUME NEW i \in 0 .. LogEnd - 1, i \in G PROVE i + 1 \in G
    <2>1. PICK s : s = S[i] /\ s \in Found BY <1>1, <1>6
    <2>2. S[i + 1] = Turn(l, 0, s) /\ i + 1 \in 0 .. LogEnd BY <1>6, <2>1
    <2>3. CASE s.at >= Limit(0) BY <1>8, <2>1, <2>2, <2>3 DEF Turn
    <2>4. CASE ~(s.at >= Limit(0))
        <3>1. s.at \in Addr BY <2>1, <2>4, <1>0 DEF Limit, Found, Addr
        <3>2. S[i + 1] = Scan(l, s) BY <2>2, <2>4 DEF Turn
        <3>3. CASE Whole(l, s.at)
            <4>1. S[i + 1].at = S[i + 1].head BY <2>1, <3>1, <3>2, <3>3, ScanIs
            <4> QED BY <1>3, <2>2, <4>1
        <3>4. CASE ~Whole(l, s.at)
            <4>1. S[i + 1].head = s.head /\ S[i + 1].table = s.table
                BY <2>1, <3>1, <3>2, <3>4, ScanIs
            <4> QED BY <1>8, <2>1, <2>2, <4>1
        <3> QED BY <3>3, <3>4
    <2> QED BY <2>3, <2>4
<1>9. LogEnd \in G
    <2> HIDE DEF G
    <2>1. \A i \in 0 .. LogEnd : i \in G BY <1>0, <1>7, <1>8, Count
    <2> QED BY <2>1, <1>0
<1>10. ASSUME h \in Addr, Whole(l, h) PROVE FALSE
    <2>1. PICK n \in 0 .. LogEnd : S[n].at = h /\ S[n].head = h
        <3>1. Reached(l, h) BY <1>9
        <3> QED BY <3>1 DEF Reached, S
    <2>2. n + 1 \in 0 .. LogEnd /\ S[n + 1] = Scan(l, S[n])
        BY <1>10, <2>1, NextTurn DEF S
    <2>3. S[n] \in Found BY <1>1
    <2>4. S[n + 1].head = S[n + 1].at /\ S[n + 1].at > h
        BY <1>10, <2>1, <2>2, <2>3, ScanIs
    <2>5. S[n + 1].head <= h \/ S[n + 1].head = 0
        <3>1. n + 1 <= LogEnd BY <2>2, <1>0
        <3> QED BY <1>4, <1>0, <2>2, <3>1
    <2>6. h \in Nat /\ S[n + 1].head \in Nat BY <1>1, <1>0, <2>2 DEF Found
    <2> QED BY <2>4, <2>5, <2>6
<1> QED BY <1>1, <1>0, <1>5, <1>9, <1>10

-----------------------------------------------------------------------------
(* Writing to the log.                                                     *)

LEMMA EraseIs ==
    ASSUME NEW l \in LogType, NEW x, NEW y
    PROVE  /\ Erase(l, x, y) \in LogType
           /\ \A s \in Addr : Erase(l, x, y)[s] = IF s \in x .. y - 1 THEN Blank ELSE l[s]
BY DEF Erase, LogType

LEMMA PutIs ==
    ASSUME NEW l \in LogType, NEW r \in Part, r.part = 1, NEW a \in Nat,
           NEW j \in 0 .. r.len
    PROVE  /\ Put(l, r, a, j) \in LogType
           /\ \A s \in Addr :
                Put(l, r, a, j)[s] =
                    IF s \notin a .. a + j - 1 THEN l[s]
                    ELSE IF l[s] = Blank THEN [r EXCEPT !.part = s - a + 1] ELSE Torn
<1>1. r.len \in 1 .. 2 BY DEF Part
<1>2. ASSUME NEW s \in Addr, s \in a .. a + j - 1
      PROVE  [r EXCEPT !.part = s - a + 1] \in Part
    <2>1. s - a + 1 \in 1 .. 2 BY <1>1, <1>2
    <2> QED BY <2>1 DEF Part
<1> QED BY <1>2 DEF Put, LogType

LEMMA CutShortIs ==
    ASSUME NEW l \in LogType, NEW r \in Part, r.part = 1, NEW a \in Nat,
           NEW m \in CutShort(l, r, a)
    PROVE  /\ m \in LogType
           /\ \E j \in 0 .. r.len :
                \/ m = Put(l, r, a, j)
                \/ j < r.len /\ m = [Put(l, r, a, j) EXCEPT ![a + j] = Torn]
<1>0. r.len \in 1 .. 2 BY DEF Part
<1>1. CASE m \in {Put(l, r, a, j) : j \in 0 .. r.len}
    BY <1>1, PutIs
<1>2. CASE m \in {[Put(l, r, a, j) EXCEPT ![a + j] = Torn] : j \in 0 .. r.len - 1}
    <2>1. PICK j \in 0 .. r.len - 1 : m = [Put(l, r, a, j) EXCEPT ![a + j] = Torn]
        BY <1>2
    <2>2. j \in 0 .. r.len /\ j < r.len BY <1>0
    <2>3. Put(l, r, a, j) \in LogType BY <2>2, PutIs
    <2> QED BY <2>1, <2>2, <2>3 DEF LogType
<1> QED BY <1>1, <1>2 DEF CutShort

(* Where a record is written, and what is erased for it.                   *)
LEMMA PreparedIs ==
    ASSUME NEW l \in LogType, NEW a \in Nat, NEW n \in 1 .. 2, NEW p \in Nat
    PROVE  LET q == Prepared(l, a, n, p) IN
           /\ q.log \in LogType
           /\ q.addr \in Nat /\ q.addr \in {a, BlockEnd(a)}
           /\ q.addr = a \/ (a % PerBlock # 0 /\ l[a] # Blank)
           /\ \/ q.until = AlignUp(q.addr + n)
              \/ q.until = p /\ q.log = l /\ q.addr = a /\ a % PerBlock # 0
           /\ \A s \in Addr : s < q.addr => q.log[s] = l[s]
           /\ \A s \in Addr : q.log[s] = l[s] \/ q.log[s] = Blank
           /\ q.addr # a => \A s \in Addr : q.addr <= s /\ s < AlignUp(q.addr + n)
                                => q.log[s] = Blank
           /\ q.addr = a /\ a % PerBlock # 0 => q.log = l /\ l[a] = Blank
           /\ a % PerBlock = 0 /\ p <= a => \A s \in Addr : a <= s /\ s < AlignUp(a + n)
                                => q.log[s] = Blank
<1> DEFINE b == BlockEnd(a)
           q == Prepared(l, a, n, p)
<1>1. b \in Nat /\ a < b /\ b % PerBlock = 0 BY EndOfBlock
<1>2. AlignUp(b) = b /\ (a % PerBlock = 0 => AlignUp(a) = a)
    BY <1>1 DEF AlignUp
<1>3. AlignUp(a + n) \in Nat /\ AlignUp(b + n) \in Nat BY <1>1, Aligned
<1>4. CASE a % PerBlock = 0
    <2> DEFINE x == AlignUp(Max2(p, a))
               y == AlignUp(a + n)
    <2>1. q = [log |-> Erase(l, x, y), addr |-> a, until |-> y]
        BY <1>4 DEF Prepared
    <2>2. x \in Nat /\ a <= x /\ (p <= a => x = a)
        <3>1. Max2(p, a) \in Nat /\ a <= Max2(p, a) /\ (p <= a => Max2(p, a) = a)
            BY DEF Max2
        <3> QED BY <3>1, <1>2, <1>4, Aligned
    <2>3. y \in Nat BY <1>3
    <2> HIDE DEF x, y
    <2>4. Erase(l, x, y) \in LogType
          /\ \A s \in Addr : Erase(l, x, y)[s] = IF s \in x .. y - 1 THEN Blank ELSE l[s]
        BY EraseIs
    <2>5. \A s \in Addr : s < a => Erase(l, x, y)[s] = l[s]
        BY <2>2, <2>4, LogEndIs DEF Addr
    <2>6. \A s \in Addr : Erase(l, x, y)[s] = l[s] \/ Erase(l, x, y)[s] = Blank
        BY <2>4
    <2>7. p <= a => \A s \in Addr : a <= s /\ s < y => Erase(l, x, y)[s] = Blank
        BY <2>2, <2>3, <2>4, LogEndIs DEF Addr
    <2> HIDE DEF q
    <2>8. q.log = Erase(l, x, y) /\ q.addr = a /\ q.until = y BY <2>1
    <2>9. y = AlignUp(a + n) BY DEF y
    <2> QED BY <1>4, <2>4, <2>5, <2>6, <2>7, <2>8, <2>9 DEF q
<1>5. CASE a % PerBlock # 0 /\ l[a] = Blank
    <2>1. q = [log |-> l, addr |-> a, until |-> p] BY <1>5 DEF Prepared
    <2> HIDE DEF q
    <2>2. q.log = l /\ q.addr = a /\ q.until = p BY <2>1
    <2> QED BY <1>5, <2>2 DEF q
<1>6. CASE a % PerBlock # 0 /\ l[a] # Blank
    <2> DEFINE y == AlignUp(b + n)
    <2>1. q = [log |-> Erase(l, b, y), addr |-> b, until |-> y]
        BY <1>6 DEF Prepared
    <2>2. y \in Nat BY <1>3
    <2> HIDE DEF y
    <2>3. Erase(l, b, y) \in LogType
          /\ \A s \in Addr : Erase(l, b, y)[s] = IF s \in b .. y - 1 THEN Blank ELSE l[s]
        BY EraseIs
    <2>4. \A s \in Addr : s < b => Erase(l, b, y)[s] = l[s]
        BY <1>1, <2>3, LogEndIs DEF Addr
    <2>5. \A s \in Addr : Erase(l, b, y)[s] = l[s] \/ Erase(l, b, y)[s] = Blank
        BY <2>3
    <2>6. \A s \in Addr : b <= s /\ s < y => Erase(l, b, y)[s] = Blank
        BY <1>1, <2>2, <2>3, LogEndIs DEF Addr
    <2> HIDE DEF q
    <2>7. q.log = Erase(l, b, y) /\ q.addr = b /\ q.until = y BY <2>1
    <2>8. y = AlignUp(b + n) BY DEF y
    <2> QED BY <1>1, <1>6, <2>3, <2>4, <2>5, <2>6, <2>7, <2>8 DEF q
<1> QED BY <1>4, <1>5, <1>6

-----------------------------------------------------------------------------
(* The type invariant.  It needs that what is left of an operation fits    *)
(* into the log.                                                           *)

JobType == [op : {"none", "close", "flush", "batch", "umount"},
            files : SUBSET File, todo : Seq(Part),
            headStored : BOOLEAN, saved : BOOLEAN]

Counters ==
    /\ ops \in 0 .. MaxOps /\ begun \in 0 .. MaxBatches
    /\ nextId \in 1 .. begun + 1
    /\ job \in JobType /\ spoilt \in BOOLEAN
    /\ acked \in [File -> 0 .. MaxOps] /\ covered \in [File -> 0 .. MaxOps]

Underway ==
    /\ pc # "idle" => up
    /\ pc = "append" =>
        /\ job.todo # << >>
        /\ \A i \in 1 .. Len(job.todo) : /\ job.todo[i].part = 1
                                         /\ i > 1 => job.todo[i].len = 1
        /\ writeAddr + PerBlock * Len(job.todo) + NextRecord.len - 1 <= LogEnd

TypeInv == TypeOK /\ Counters /\ Underway

LEMMA BoundsAre ==
    /\ MaxOps \in Nat /\ MaxBatches \in Nat /\ BatchCloses \in Nat
    /\ PerBlock \in Nat /\ PerBlock > 1 /\ LogEnd \in Nat /\ LogEnd > 0
BY LogAssumption, LogEndIs

LEMMA TypeOKIs ==
    TypeOK => /\ log \in LogType
              /\ cpTail \in 0 .. LogEnd /\ ftl \in 0 .. LogEnd
              /\ Bound(cpTail, ftl) \in 0 .. LogEnd
              /\ writeAddr \in 0 .. LogEnd /\ prepared \in 0 .. LogEnd
BY DEF TypeOK, LogType, Bound, Max2

LEMMA InitType == Init => TypeInv
<1> SUFFICES ASSUME Init PROVE TypeInv OBVIOUS
<1>0. NoFiles \in [File -> 0 .. MaxOps] BY BoundsAre DEF NoFiles
<1>1. TypeOK
    <2>1. log \in [Addr -> Part \union {Blank, Torn}] BY DEF Init
    <2>2. cpTail \in 0 .. LogEnd /\ ftl \in 0 .. LogEnd
        BY BoundsAre DEF Init
    <2>3. writeAddr \in 0 .. LogEnd /\ prepared \in 0 .. LogEnd
          /\ pending \in 0 .. BatchCloses
        BY BoundsAre DEF Init
    <2>4. table \in [File -> 0 .. MaxOps] BY <1>0 DEF Init
    <2>5. up \in BOOLEAN /\ pc = "idle" BY DEF Init
    <2> QED BY <2>1, <2>2, <2>3, <2>4, <2>5 DEF TypeOK
<1>2. Counters
    <2>1. job \in JobType BY DEF Init, NoJob, Job, JobType
    <2>2. ops \in 0 .. MaxOps /\ begun \in 0 .. MaxBatches
          /\ nextId \in 1 .. begun + 1
        BY BoundsAre DEF Init
    <2>3. /\ spoilt \in BOOLEAN
          /\ acked \in [File -> 0 .. MaxOps] /\ covered \in [File -> 0 .. MaxOps]
        BY <1>0 DEF Init
    <2> QED BY <2>1, <2>2, <2>3 DEF Counters
<1>3. Underway BY DEF Init, Underway
<1> QED BY <1>1, <1>2, <1>3 DEF TypeInv

LEMMA ReplayIs ==
    ASSUME NEW l \in LogType, NEW bound \in 0 .. LogEnd
    PROVE  Replay(l, bound) \in Found
BY TurnsAre, LogEndIs DEF Replay

LEMMA MountType == TypeInv /\ Mount => TypeInv'
<1> SUFFICES ASSUME TypeInv, Mount PROVE TypeInv' OBVIOUS
<1> USE DEF TypeInv
<1>1. PICK r \in Found : r = Replay(log, Bound(cpTail, ftl))
    BY TypeOKIs, ReplayIs
<1>2. /\ writeAddr' = r.head /\ prepared' = Max2(Bound(cpTail, ftl), r.head)
      /\ table' = r.table /\ acked' = [f \in File |-> Min2(acked[f], r.table[f])]
    BY <1>1 DEF Mount
<1>3. r.head \in 0 .. LogEnd /\ r.table \in [File -> 0 .. MaxOps] BY DEF Found
<1>4. prepared' \in 0 .. LogEnd BY <1>2, <1>3, TypeOKIs DEF Max2
<1>5. TypeOK' BY <1>2, <1>3, <1>4, LogAssumption DEF Mount, TypeOK, flash
<1>6. acked' \in [File -> 0 .. MaxOps]
    BY <1>2, <1>3 DEF Counters, Min2
<1>7. Counters' BY <1>6, LogAssumption DEF Counters, Mount, bounds
<1>8. Underway' BY DEF Underway, Mount
<1> QED BY <1>5, <1>7, <1>8

LEMMA Times ==
    ASSUME NEW k \in Nat, k > 0
    PROVE  /\ PerBlock * k = PerBlock * (k - 1) + PerBlock
           /\ PerBlock * (k - 1) \in Nat /\ PerBlock * k \in Nat
BY LogAssumption

LEMMA BeginType ==
    ASSUME TypeInv, NEW op \in {"close", "flush", "batch"}, NEW fs \in SUBSET File,
           NEW todo \in Seq(Part), todo # << >>,
           \A i \in 1 .. Len(todo) : todo[i].part = 1 /\ (i > 1 => todo[i].len = 1),
           writeAddr + PerBlock * Len(todo) + Head(todo).len - 1 <= LogEnd,
           Begin(op, fs, todo), begun' \in 0 .. MaxBatches, nextId' \in 1 .. begun' + 1
    PROVE  TypeInv'
<1> USE DEF TypeInv
<1>1. job' = [op |-> op, files |-> fs, todo |-> todo,
              headStored |-> FALSE, saved |-> FALSE]
    BY DEF Begin, Job
<1>2. job' \in JobType /\ job'.todo = todo BY <1>1 DEF JobType
<1>3. TypeOK' BY DEF Begin, TypeOK, flash
<1>4. Counters'
    <2>1. ops' \in 0 .. MaxOps BY BoundsAre DEF Counters, Begin
    <2>2. UNCHANGED <<spoilt, acked, covered>> BY DEF Begin
    <2> QED BY <1>2, <2>1, <2>2 DEF Counters
<1>5. Underway' BY <1>2 DEF Underway, Begin, NextRecord
<1> QED BY <1>3, <1>4, <1>5

LEMMA RecordIs ==
    ASSUME TypeInv, ops < MaxOps, NEW kind \in Kind, NEW fs \in SUBSET File,
           NEW id \in 0 .. MaxBatches, NEW len \in 1 .. 2
    PROVE  /\ Record(kind, fs, id, len) \in Part
           /\ Record(kind, fs, id, len).part = 1
           /\ Record(kind, fs, id, len).len = len
<1>1. ops + 1 \in 1 .. MaxOps BY BoundsAre DEF TypeInv, Counters
<1> QED BY <1>1 DEF Record, Part

LEMMA StartType == TypeInv /\ Start => TypeInv'
<1> SUFFICES ASSUME TypeInv, Start PROVE TypeInv' OBVIOUS
<1>0. PerBlock \in Nat /\ PerBlock > 1 /\ writeAddr \in Nat /\ LogEnd \in Nat
    BY LogAssumption, LogEndIs DEF TypeInv, TypeOK
<1>1. ASSUME NEW op \in {"close", "flush"}, NEW f \in File, NEW len \in 1 .. 2,
             Write(op, f, len)
      PROVE  TypeInv'
    <2>1. PICK r \in Part : /\ r = Record("DATA", {f}, 0, len)
                            /\ r.part = 1 /\ r.len = len
        <3>1. ops < MaxOps BY <1>1 DEF Write, Begin
        <3>2. 0 \in 0 .. MaxBatches BY LogAssumption
        <3> QED BY <3>1, <3>2, RecordIs DEF Kind
    <2>2. Begin(op, {f}, <<r>>) /\ UNCHANGED <<nextId, begun>> /\ Room(2)
        BY <1>1, <2>1 DEF Write
    <2>3. writeAddr + PerBlock * 1 + r.len - 1 <= LogEnd
        BY <1>0, <2>1, <2>2 DEF Room
    <2>4. /\ <<r>> \in Seq(Part) /\ Len(<<r>>) = 1 /\ Head(<<r>>) = r
          /\ <<r>> # << >> /\ <<r>>[1] = r
        OBVIOUS
    <2>5. \A i \in 1 .. Len(<<r>>) : <<r>>[i].part = 1 /\ (i > 1 => <<r>>[i].len = 1)
        BY <2>1, <2>4
    <2>6. writeAddr + PerBlock * Len(<<r>>) + Head(<<r>>).len - 1 <= LogEnd
        BY <2>3, <2>4
    <2>7. begun' \in 0 .. MaxBatches /\ nextId' \in 1 .. begun' + 1
        BY <2>2 DEF TypeInv, Counters
    <2> DEFINE todo == <<r>>
    <2>8. todo \in Seq(Part) /\ todo # << >> BY <2>4
    <2> HIDE DEF todo
    <2>9. /\ \A i \in 1 .. Len(todo) : todo[i].part = 1 /\ (i > 1 => todo[i].len = 1)
          /\ writeAddr + PerBlock * Len(todo) + Head(todo).len - 1 <= LogEnd
          /\ Begin(op, {f}, todo)
        BY <2>2, <2>5, <2>6 DEF todo
    <2> QED BY <2>7, <2>8, <2>9, BeginType
<1>2. ASSUME NEW f \in File, NEW g \in File, NEW len \in 1 .. 2,
             CommitBatch(f, g, len)
      PROVE  TypeInv'
    <2>0. nextId \in 0 .. MaxBatches /\ begun < MaxBatches
        BY <1>2, LogAssumption DEF CommitBatch, TypeInv, Counters
    <2>1. ops < MaxOps BY <1>2 DEF CommitBatch, Begin
    <2>2. PICK r \in Part : /\ r = Record("BATCH_DATA", {f}, nextId, len)
                            /\ r.part = 1 /\ r.len = len
        BY <2>0, <2>1, RecordIs DEF Kind
    <2>3. PICK s \in Part : /\ s = Record("BATCH_DATA", {g}, nextId, 1)
                            /\ s.part = 1 /\ s.len = 1
        BY <2>0, <2>1, RecordIs DEF Kind
    <2>4. PICK t \in Part : /\ t = Record("BATCH_COMMIT", {}, nextId, 1)
                            /\ t.part = 1 /\ t.len = 1
        BY <2>0, <2>1, RecordIs DEF Kind
    <2>5. Begin("batch", {f, g}, <<r, s, t>>) /\ Room(4)
        BY <1>2, <2>2, <2>3, <2>4 DEF CommitBatch
    <2>6. writeAddr + PerBlock * 3 + r.len - 1 <= LogEnd
        BY <1>0, <2>2, <2>5 DEF Room
    <2>7. /\ <<r, s, t>> \in Seq(Part) /\ Len(<<r, s, t>>) = 3 /\ Head(<<r, s, t>>) = r
          /\ <<r, s, t>> # << >> /\ <<r, s, t>>[1] = r /\ <<r, s, t>>[2] = s
          /\ <<r, s, t>>[3] = t
        OBVIOUS
    <2> DEFINE todo == <<r, s, t>>
    <2>8. todo \in Seq(Part) /\ todo # << >> /\ Len(todo) = 3 /\ Head(todo) = r
          /\ todo[1] = r /\ todo[2] = s /\ todo[3] = t
        BY <2>7
    <2>9. Begin("batch", {f, g}, todo) BY <2>5
    <2> HIDE DEF todo
    <2>10. /\ \A i \in 1 .. Len(todo) : todo[i].part = 1 /\ (i > 1 => todo[i].len = 1)
           /\ writeAddr + PerBlock * Len(todo) + Head(todo).len - 1 <= LogEnd
        BY <2>2, <2>3, <2>4, <2>6, <2>8
    <2>11. begun' \in 0 .. MaxBatches /\ nextId' \in 1 .. begun' + 1
        BY <1>2, <2>0, LogAssumption DEF CommitBatch, TypeInv, Counters
    <2> QED BY <2>8, <2>9, <2>10, <2>11, BeginType
<1>3. CASE Umount
    <2>1. job' \in JobType BY <1>3 DEF Umount, Job, JobType
    <2>2. TypeOK' BY <1>3 DEF Umount, TypeInv, TypeOK, flash, ram
    <2>3. Counters'
        BY <1>3, <2>1 DEF Umount, TypeInv, Counters, ram, bounds, history
    <2>4. Underway' BY <1>3 DEF Umount, TypeInv, Underway, ram
    <2> QED BY <2>2, <2>3, <2>4 DEF TypeInv
<1> QED BY <1>1, <1>2, <1>3 DEF Start

LEMMA NextRecordIs ==
    ASSUME TypeInv, pc = "append"
    PROVE  /\ NextRecord \in Part /\ NextRecord.part = 1 /\ NextRecord.len \in 1 .. 2
           /\ Tail(job.todo) \in Seq(Part)
           /\ Len(job.todo) \in Nat /\ Len(job.todo) > 0
           /\ Len(Tail(job.todo)) = Len(job.todo) - 1
           /\ \A i \in 1 .. Len(Tail(job.todo)) :
                Tail(job.todo)[i].part = 1 /\ Tail(job.todo)[i].len = 1
           /\ writeAddr + PerBlock * Len(job.todo) + NextRecord.len - 1 <= LogEnd
<1> DEFINE todo == job.todo
<1>1. todo \in Seq(Part) /\ todo # << >>
    BY DEF TypeInv, Counters, Underway, JobType
<1>2. /\ \A i \in 1 .. Len(todo) : todo[i].part = 1 /\ (i > 1 => todo[i].len = 1)
      /\ writeAddr + PerBlock * Len(todo) + NextRecord.len - 1 <= LogEnd
    BY DEF TypeInv, Underway
<1>3. NextRecord = Head(todo) BY DEF NextRecord
<1> HIDE DEF todo
<1>4. /\ Head(todo) \in Part /\ Head(todo) = todo[1]
      /\ Tail(todo) \in Seq(Part) /\ Len(todo) \in Nat /\ Len(todo) > 0
      /\ Len(Tail(todo)) = Len(todo) - 1
      /\ \A i \in 1 .. Len(Tail(todo)) : Tail(todo)[i] = todo[i + 1]
    BY <1>1
<1>5. NextRecord.part = 1 /\ NextRecord.len \in 1 .. 2
    BY <1>2, <1>3, <1>4 DEF Part
<1>6. \A i \in 1 .. Len(Tail(todo)) : Tail(todo)[i].part = 1 /\ Tail(todo)[i].len = 1
    BY <1>2, <1>4
<1> QED BY <1>2, <1>3, <1>4, <1>5, <1>6 DEF todo

LEMMA AppendedType ==
    ASSUME TypeInv, pc = "append", NEW l \in LogType, NEW a \in Nat,
           NEW p \in 0 .. LogEnd, Appended(l, a, p),
           a + NextRecord.len + PerBlock * Len(Tail(job.todo)) <= LogEnd
    PROVE  TypeInv'
<1> DEFINE rest == Tail(job.todo)
           w == a + NextRecord.len
<1>0. /\ NextRecord \in Part /\ NextRecord.part = 1 /\ NextRecord.len \in 1 .. 2
      /\ rest \in Seq(Part) /\ Len(rest) \in Nat
      /\ \A i \in 1 .. Len(rest) : rest[i].part = 1 /\ rest[i].len = 1
    BY NextRecordIs
<1>1. PerBlock * Len(rest) \in Nat /\ LogEnd \in Nat BY <1>0, BoundsAre
<1>2. w \in 0 .. LogEnd /\ w + PerBlock * Len(rest) <= LogEnd
    BY <1>0, <1>1
<1>3. log' \in LogType
    <2>1. NextRecord.len \in 0 .. NextRecord.len BY <1>0
    <2>2. Put(l, NextRecord, a, NextRecord.len) \in LogType
        BY <1>0, <2>1, PutIs
    <2> QED BY <2>2 DEF Appended
<1>4. job' = [job EXCEPT !.todo = rest] BY DEF Appended
<1>5. job' \in JobType /\ job'.todo = rest
    BY <1>0, <1>4 DEF TypeInv, Counters, JobType
<1>6. writeAddr' = w /\ prepared' = p BY DEF Appended
<1>7. pc' \in {"idle", "append", "eraseHead", "writeHead", "finish"}
    BY DEF Appended
<1>8. TypeOK'
    BY <1>2, <1>3, <1>6, <1>7 DEF Appended, TypeInv, TypeOK, LogType
<1>9. Counters'
    <2>1. spoilt' \in BOOLEAN BY DEF Appended
    <2>2. UNCHANGED <<ops, begun, nextId, acked, covered>> BY DEF Appended
    <2> QED BY <1>5, <2>1, <2>2 DEF TypeInv, Counters
<1>10. Underway'
    <2>1. up' BY DEF Appended, TypeInv, Underway
    <2>2. ASSUME pc' = "append"
          PROVE  /\ rest # << >>
                 /\ Head(rest).len = 1
        <3>1. rest # << >> BY <2>2 DEF Appended
        <3> HIDE DEF rest
        <3>2. Head(rest) = rest[1] /\ 1 \in 1 .. Len(rest) BY <1>0, <3>1
        <3> QED BY <1>0, <3>1, <3>2
    <2>3. NextRecord' = Head(rest) BY <1>5 DEF NextRecord
    <2> HIDE DEF rest, w
    <2> QED BY <1>0, <1>1, <1>2, <1>5, <1>6, <2>1, <2>2, <2>3 DEF Underway
<1> QED BY <1>8, <1>9, <1>10 DEF TypeInv

(* Where the next record goes, there is room for it.                       *)
LEMMA PlaceIs ==
    ASSUME TypeInv, pc = "append"
    PROVE  /\ Place.log \in LogType /\ Place.addr \in Nat
           /\ Place.addr + NextRecord.len + PerBlock * Len(Tail(job.todo)) <= LogEnd
           /\ Place.addr + NextRecord.len <= LogEnd
           /\ Place.addr \in Addr
           /\ Place.until \in 0 .. LogEnd
<1> DEFINE r == NextRecord
           k == Len(job.todo)
           q == Place
<1>0. /\ r.len \in 1 .. 2 /\ k \in Nat /\ k > 0 /\ Len(Tail(job.todo)) = k - 1
      /\ writeAddr + PerBlock * k + r.len - 1 <= LogEnd
    BY NextRecordIs
<1>1. log \in LogType /\ writeAddr \in Nat /\ prepared \in Nat /\ prepared \in 0 .. LogEnd
    BY TypeOKIs, BoundsAre DEF TypeInv
<1>2. /\ q.log \in LogType
      /\ q.addr \in Nat /\ q.addr \in {writeAddr, BlockEnd(writeAddr)}
      /\ q.addr = writeAddr \/ writeAddr % PerBlock # 0
      /\ q.until = prepared \/ q.until = AlignUp(q.addr + r.len)
    <2> DEFINE n == r.len
               t == Prepared(log, writeAddr, n, prepared)
    <2>1. q = t BY DEF Place
    <2>2. n \in 1 .. 2 BY <1>0
    <2> HIDE DEF n
    <2>3. /\ t.log \in LogType
          /\ t.addr \in Nat /\ t.addr \in {writeAddr, BlockEnd(writeAddr)}
          /\ t.addr = writeAddr \/ writeAddr % PerBlock # 0
          /\ t.until = prepared \/ t.until = AlignUp(t.addr + n)
        BY <1>1, <2>2, PreparedIs
    <2> HIDE DEF q, t
    <2> QED BY <2>1, <2>3 DEF n
<1>3. q.addr <= writeAddr + PerBlock - 1
    <2>1. CASE q.addr = writeAddr BY <1>1, <2>1, BoundsAre
    <2>2. CASE q.addr # writeAddr
        <3>1. q.addr = BlockEnd(writeAddr) /\ writeAddr % PerBlock # 0
            BY <1>2, <2>2
        <3>2. BlockEnd(writeAddr) <= writeAddr + PerBlock - 1
            BY <1>1, <3>1, BlockEndWithin
        <3> QED BY <3>1, <3>2
    <2> QED BY <2>1, <2>2
<1>4. PerBlock * k = PerBlock * (k - 1) + PerBlock /\ PerBlock * (k - 1) \in Nat
    BY <1>0, Times
<1> HIDE DEF r, k, q
<1>5. /\ q.addr + r.len + PerBlock * (k - 1) <= LogEnd
      /\ q.addr + r.len <= LogEnd
    BY <1>0, <1>1, <1>2, <1>3, <1>4, BoundsAre, SMTT(30)
<1>6. q.until \in 0 .. LogEnd
    <2>1. q.addr + r.len \in Nat BY <1>0, <1>2
    <2>2. AlignUp(q.addr + r.len) \in Nat /\ AlignUp(q.addr + r.len) <= LogEnd
        BY <1>5, <2>1, Aligned
    <2> QED BY <1>1, <1>2, <2>2, BoundsAre
<1>7. q.addr \in Addr BY <1>0, <1>2, <1>5, BoundsAre DEF Addr
<1> QED BY <1>0, <1>2, <1>5, <1>6, <1>7 DEF r, k, q

LEMMA AppendType == TypeInv /\ AppendRecord => TypeInv'
<1> SUFFICES ASSUME TypeInv, AppendRecord PROVE TypeInv' OBVIOUS
<1>1. pc = "append" /\ Appended(Place.log, Place.addr, Place.until)
    BY DEF AppendRecord
<1> QED BY <1>1, PlaceIs, AppendedType

(* The second attempt is at the start of the next block.                   *)
LEMMA AgainIs ==
    ASSUME TypeInv, RetryRecord
    PROVE  \E l \in CutShort(Place.log, NextRecord, writeAddr) :
            LET a == BlockEnd(writeAddr)
                again == Prepared(l, a, NextRecord.len, a)
            IN
            /\ l \in LogType /\ l[writeAddr] # Blank
            /\ a \in Addr /\ a % PerBlock = 0 /\ writeAddr < a
            /\ again.addr = a /\ again.log \in LogType
            /\ again.until \in 0 .. LogEnd
            /\ a + NextRecord.len + PerBlock * Len(Tail(job.todo)) <= LogEnd
            /\ a + NextRecord.len <= LogEnd
            /\ Appended(again.log, a, again.until)
<1> DEFINE a == BlockEnd(writeAddr)
           n == NextRecord.len
           k == PerBlock * Len(Tail(job.todo))
<1>1. pc = "append" /\ a + n + k <= LogEnd BY DEF RetryRecord
<1>2. /\ NextRecord \in Part /\ NextRecord.part = 1 /\ n \in 1 .. 2
      /\ Len(Tail(job.todo)) \in Nat
    BY <1>1, NextRecordIs
<1>3. writeAddr \in Nat BY TypeOKIs, BoundsAre DEF TypeInv
<1>4. a \in Nat /\ a % PerBlock = 0 /\ writeAddr < a BY <1>3, EndOfBlock
<1>5. PICK l \in CutShort(Place.log, NextRecord, writeAddr) :
        /\ l[writeAddr] # Blank
        /\ Appended(Prepared(l, a, n, a).log, a, Prepared(l, a, n, a).until)
    BY DEF RetryRecord
<1>6. k \in Nat BY <1>2, BoundsAre
<1> DEFINE q == Prepared(l, a, n, a)
<1>7. l \in LogType BY <1>1, <1>2, <1>3, PlaceIs, CutShortIs
<1>8. /\ q.log \in LogType /\ q.addr = a
      /\ q.until = a \/ q.until = AlignUp(a + n)
    BY <1>2, <1>4, <1>7, PreparedIs, SMTT(30)
<1> HIDE DEF a, n, k, q
<1>9. a + n <= LogEnd /\ a \in Addr /\ a + n \in Nat
    BY <1>1, <1>2, <1>4, <1>6, BoundsAre DEF Addr
<1>10. q.until \in 0 .. LogEnd
    <2>1. AlignUp(a + n) \in 0 .. LogEnd BY <1>9, Aligned, BoundsAre
    <2> QED BY <1>8, <1>9, <2>1, BoundsAre DEF Addr
<1> QED BY <1>1, <1>4, <1>5, <1>7, <1>8, <1>9, <1>10 DEF a, n, k, q

LEMMA RetryType == TypeInv /\ RetryRecord => TypeInv'
<1> SUFFICES ASSUME TypeInv, RetryRecord PROVE TypeInv' OBVIOUS
<1>1. pc = "append" BY DEF RetryRecord
<1>2. PICK l, a, q : /\ a \in Nat /\ q.log \in LogType /\ q.until \in 0 .. LogEnd
                     /\ a + NextRecord.len + PerBlock * Len(Tail(job.todo)) <= LogEnd
                     /\ Appended(q.log, a, q.until)
    BY AgainIs DEF Addr
<1> QED BY <1>1, <1>2, AppendedType

LEMMA HeadType ==
    TypeInv /\ (EraseHead \/ WriteHead \/ HeadFails) => TypeInv'
<1> SUFFICES ASSUME TypeInv, EraseHead \/ WriteHead \/ HeadFails PROVE TypeInv'
    OBVIOUS
<1> USE DEF TypeInv
<1>0. writeAddr \in 0 .. LogEnd /\ Stored(writeAddr) \in 0 .. LogEnd /\ 0 \in 0 .. LogEnd
    <2>1. writeAddr \in Nat /\ writeAddr <= LogEnd BY TypeOKIs, BoundsAre
    <2>2. Stored(writeAddr) \in 0 .. writeAddr BY <2>1, StoredIs
    <2> QED BY <2>1, <2>2, BoundsAre
<1>1. /\ HeadOnly
      /\ ftl' \in 0 .. LogEnd
      /\ pc' \in {"writeHead", "finish"}
      /\ job' = job \/ job' = [job EXCEPT !.headStored = TRUE]
    BY <1>0, TypeOKIs DEF EraseHead, WriteHead, HeadFails
<1>2. job' \in JobType BY <1>1 DEF Counters, JobType
<1>3. TypeOK' BY <1>1 DEF TypeOK, HeadOnly, ram
<1>4. Counters' BY <1>1, <1>2 DEF Counters, HeadOnly, ram, history
<1>5. pc # "idle" BY DEF EraseHead, WriteHead, HeadFails
<1>6. Underway' BY <1>1, <1>5 DEF Underway, HeadOnly, ram
<1> QED BY <1>3, <1>4, <1>6

LEMMA NewTableIs ==
    ASSUME TypeInv
    PROVE  /\ NewTable \in [File -> 0 .. MaxOps]
           /\ Counted \in 0 .. BatchCloses
<1>1. NewTable \in [File -> 0 .. MaxOps]
    BY DEF NewTable, TypeInv, TypeOK, Counters
<1>2. Counted \in 0 .. BatchCloses
    BY BoundsAre DEF Counted, Min2, TypeInv, TypeOK
<1> QED BY <1>1, <1>2

LEMMA CheckpointType == TypeInv /\ (StoreCheckpoint \/ StoreFails) => TypeInv'
<1> SUFFICES ASSUME TypeInv, StoreCheckpoint \/ StoreFails PROVE TypeInv'
    OBVIOUS
<1>0. writeAddr \in 0 .. LogEnd /\ Stored(writeAddr) \in 0 .. LogEnd
    <2>1. writeAddr \in Nat /\ writeAddr <= LogEnd BY TypeOKIs, BoundsAre DEF TypeInv
    <2>2. Stored(writeAddr) \in 0 .. writeAddr BY <2>1, StoredIs
    <2> QED BY <2>1, <2>2, BoundsAre
<1>1. /\ cpTail' \in 0 .. LogEnd
      /\ pc' \in {"eraseHead", "idle"} /\ pc = "finish"
      /\ job' = NoJob \/ job' = [job EXCEPT !.saved = TRUE]
      /\ covered' = NewTable \/ covered' = covered
      /\ table' = NewTable
      /\ UNCHANGED <<log, ftl, up, writeAddr, prepared, nextId, ops, begun, acked, spoilt>>
    BY <1>0, TypeOKIs DEF StoreCheckpoint, StoreFails, Due, bounds, history, TypeInv
<1>2. pending' \in 0 .. BatchCloses
    BY NewTableIs, BoundsAre DEF StoreCheckpoint, StoreFails
<1>3. NoJob \in JobType BY DEF NoJob, Job, JobType
<1>4. job' \in JobType BY <1>1, <1>3 DEF TypeInv, Counters, JobType
<1>5. TypeOK' BY <1>1, <1>2, NewTableIs DEF TypeInv, TypeOK
<1>6. Counters' BY <1>1, <1>4, NewTableIs DEF TypeInv, Counters
<1>7. Underway' BY <1>1 DEF TypeInv, Underway
<1> QED BY <1>5, <1>6, <1>7 DEF TypeInv

LEMMA OffType ==
    ASSUME TypeInv, Off
    PROVE  /\ UNCHANGED begun => nextId' \in 1 .. begun' + 1
           /\ writeAddr' \in 0 .. LogEnd /\ prepared' \in 0 .. LogEnd
           /\ pending' \in 0 .. BatchCloses
           /\ table' \in [File -> 0 .. MaxOps]
           /\ up' = FALSE /\ pc' = "idle" /\ job' \in JobType
<1>1. NoFiles \in [File -> 0 .. MaxOps] BY BoundsAre DEF NoFiles
<1>2. NoJob \in JobType BY DEF NoJob, Job, JobType
<1>3. begun \in Nat BY BoundsAre DEF TypeInv, Counters
<1> QED BY <1>1, <1>2, <1>3, BoundsAre DEF Off

LEMMA FinishType == TypeInv /\ Finish => TypeInv'
<1> SUFFICES ASSUME TypeInv, Finish PROVE TypeInv' OBVIOUS
<1>1. acked' \in [File -> 0 .. MaxOps]
    BY DEF Finish, TypeInv, Counters
<1>2. UNCHANGED <<log, cpTail, ftl, ops, begun, covered, spoilt>>
    BY DEF Finish, flash, bounds
<1>3. CASE Off
    <2>1. TypeOK' BY <1>2, <1>3, OffType DEF TypeInv, TypeOK
    <2>2. Counters' BY <1>1, <1>2, <1>3, OffType DEF TypeInv, Counters
    <2>3. Underway' BY <1>3, OffType DEF Underway
    <2> QED BY <2>1, <2>2, <2>3 DEF TypeInv
<1>4. CASE /\ job' = NoJob /\ pc' = "idle"
           /\ table' = NewTable /\ pending' = Counted
           /\ UNCHANGED <<up, writeAddr, prepared, nextId>>
    <2>1. job' \in JobType BY <1>4 DEF NoJob, Job, JobType
    <2>2. TypeOK' BY <1>2, <1>4, NewTableIs DEF TypeInv, TypeOK
    <2>3. Counters' BY <1>1, <1>2, <1>4, <2>1 DEF TypeInv, Counters
    <2>4. Underway' BY <1>4 DEF Underway
    <2> QED BY <2>2, <2>3, <2>4 DEF TypeInv
<1> QED BY <1>3, <1>4 DEF Finish

LEMMA PowerCutType == TypeInv /\ PowerCut => TypeInv'
<1> SUFFICES ASSUME TypeInv, PowerCut PROVE TypeInv' OBVIOUS
<1>1. Off /\ UNCHANGED <<cpTail, ftl, ops, begun, acked, covered, spoilt>>
    BY DEF PowerCut, history
<1>2. log' \in LogType
    <2>1. CASE pc = "append"
        <3>1. log' \in CutShort(Place.log, NextRecord, Place.addr)
            BY <2>1 DEF PowerCut
        <3> QED BY <2>1, <3>1, PlaceIs, NextRecordIs, CutShortIs
    <2>2. CASE pc # "append" BY <2>2, TypeOKIs DEF PowerCut, TypeInv
    <2> QED BY <2>1, <2>2
<1>3. TypeOK' BY <1>1, <1>2, OffType DEF TypeInv, TypeOK, LogType
<1>4. Counters' BY <1>1, OffType DEF TypeInv, Counters
<1>5. Underway' BY <1>1, OffType DEF Underway
<1> QED BY <1>3, <1>4, <1>5 DEF TypeInv

LEMMA NextType == TypeInv /\ [Next]_vars => TypeInv'
<1> SUFFICES ASSUME TypeInv, [Next]_vars PROVE TypeInv' OBVIOUS
<1>1. CASE Mount BY <1>1, MountType
<1>2. CASE Start BY <1>2, StartType
<1>3. CASE Step
    BY <1>3, AppendType, RetryType, HeadType, CheckpointType, FinishType DEF Step
<1>4. CASE PowerCut BY <1>4, PowerCutType
<1>5. CASE UNCHANGED vars
    <2>1. TypeOK' BY <1>5 DEF TypeInv, TypeOK, vars, flash, ram
    <2>2. Counters'
        BY <1>5 DEF TypeInv, Counters, vars, ram, bounds, history
    <2>3. Underway'
        BY <1>5 DEF TypeInv, Underway, NextRecord, vars, ram
    <2> QED BY <2>1, <2>2, <2>3 DEF TypeInv
<1> QED BY <1>1, <1>2, <1>3, <1>4, <1>5 DEF Next

(* Every slot of the log holds nothing, something torn or a part of a      *)
(* record, and no address leaves the log, whatever fails and whenever the  *)
(* power is cut: an operation that is begun has the room its appends need, *)
(* retries and moves to the next block included.                           *)
THEOREM LogIsTyped == Spec => [](TypeOK /\ Counters /\ Underway)
<1>1. Init => TypeInv BY InitType
<1>2. TypeInv /\ [Next]_vars => TypeInv' BY NextType
<1>3. TypeInv => TypeOK /\ Counters /\ Underway BY DEF TypeInv
<1> QED BY <1>1, <1>2, <1>3, PTL DEF Spec

-----------------------------------------------------------------------------
(* Where the replay comes.  Each bound in flash, and the write head in     *)
(* RAM, is the end of a record that a replay reaches; appends lie behind.  *)

ReachInv ==
    ~spoilt =>
        /\ Reached(log, cpTail) /\ Reached(log, ftl)
        /\ up => Reached(log, writeAddr) /\ cpTail <= writeAddr /\ ftl <= writeAddr

LEMMA CutShortSame ==
    ASSUME NEW l \in LogType, NEW r \in Part, r.part = 1, NEW a \in Nat,
           NEW m \in CutShort(l, r, a), NEW s \in Addr, s < a \/ s >= a + r.len
    PROVE  m[s] = l[s]
<1>0. r.len \in 1 .. 2 /\ s \in Nat BY BoundsAre DEF Part, Addr
<1>1. PICK j \in 0 .. r.len :
        \/ m = Put(l, r, a, j)
        \/ j < r.len /\ m = [Put(l, r, a, j) EXCEPT ![a + j] = Torn]
    BY CutShortIs
<1>2. Put(l, r, a, j)[s] = l[s]
    <2>1. s \notin a .. a + j - 1 BY <1>0
    <2> QED BY <2>1, PutIs
<1>3. j < r.len => s # a + j BY <1>0
<1>4. Put(l, r, a, j) \in LogType BY PutIs
<1>5. CASE m = Put(l, r, a, j) BY <1>2, <1>5
<1>6. CASE j < r.len /\ m = [Put(l, r, a, j) EXCEPT ![a + j] = Torn]
    BY <1>2, <1>3, <1>4, <1>6 DEF LogType
<1> QED BY <1>1, <1>5, <1>6

LEMMA PlaceSame ==
    ASSUME TypeInv, pc = "append"
    PROVE  /\ Place.addr \in {writeAddr, BlockEnd(writeAddr)}
           /\ writeAddr <= Place.addr
           /\ \A s \in Addr : s < Place.addr => Place.log[s] = log[s]
<1> DEFINE n == NextRecord.len
           t == Prepared(log, writeAddr, n, prepared)
<1>1. Place = t BY DEF Place
<1>2. n \in 1 .. 2 BY NextRecordIs
<1>3. log \in LogType /\ writeAddr \in Nat /\ prepared \in Nat
    BY TypeOKIs, BoundsAre DEF TypeInv
<1> HIDE DEF n
<1>4. /\ t.addr \in {writeAddr, BlockEnd(writeAddr)}
      /\ \A s \in Addr : s < t.addr => t.log[s] = log[s]
    BY <1>2, <1>3, PreparedIs
<1>5. writeAddr <= t.addr BY <1>3, <1>4, EndOfBlock
<1> HIDE DEF t
<1> QED BY <1>1, <1>4, <1>5

LEMMA Writes ==
    ASSUME TypeInv, AppendRecord \/ RetryRecord
    PROVE  /\ pc = "append"
           /\ \E l \in LogType, a \in Addr, p \in 0 .. LogEnd :
                /\ Appended(l, a, p)
                /\ a \in {writeAddr, BlockEnd(writeAddr)} /\ writeAddr <= a
                /\ a + NextRecord.len <= LogEnd
                /\ \A s \in Addr : s < writeAddr => l[s] = log[s]
<1>0. pc = "append" /\ writeAddr \in Nat
    BY TypeOKIs, BoundsAre DEF AppendRecord, RetryRecord, TypeInv
<1>1. CASE AppendRecord
    <2>1. Appended(Place.log, Place.addr, Place.until) BY <1>1 DEF AppendRecord
    <2>2. \A s \in Addr : s < writeAddr => Place.log[s] = log[s]
        <3>1. Place.addr \in Nat /\ \A s \in Addr : s \in Nat
            BY <1>0, PlaceIs, BoundsAre DEF Addr
        <3> QED BY <1>0, <3>1, PlaceSame
    <2> QED BY <1>0, <2>1, <2>2, PlaceIs, PlaceSame
<1>2. CASE RetryRecord
    <2> DEFINE b == BlockEnd(writeAddr)
               n == NextRecord.len
    <2>1. PICK m \in CutShort(Place.log, NextRecord, writeAddr) :
            LET again == Prepared(m, b, n, b) IN
            /\ m \in LogType
            /\ b \in Addr /\ b % PerBlock = 0 /\ writeAddr < b
            /\ again.addr = b /\ again.log \in LogType
            /\ again.until \in 0 .. LogEnd
            /\ b + n <= LogEnd
            /\ Appended(again.log, b, again.until)
        BY <1>2, AgainIs
    <2> DEFINE again == Prepared(m, b, n, b)
    <2>2. /\ NextRecord \in Part /\ NextRecord.part = 1 /\ n \in 1 .. 2
          /\ Place.log \in LogType
        BY <1>0, NextRecordIs, PlaceIs
    <2>3. \A s \in Addr : s < writeAddr => m[s] = Place.log[s]
        BY <1>0, <2>2, CutShortSame
    <2>4. \A s \in Addr : s < b => again.log[s] = m[s]
        <3>1. b \in Nat BY <1>0, EndOfBlock
        <3>2. m \in LogType /\ n \in 1 .. 2 /\ again.addr = b BY <2>1, <2>2
        <3> HIDE DEF b, n
        <3>3. \A s \in Addr : s < again.addr => again.log[s] = m[s]
            BY <3>1, <3>2, PreparedIs
        <3> HIDE DEF again
        <3> QED BY <3>2, <3>3
    <2>5. \A s \in Addr : s < writeAddr => Place.log[s] = log[s]
        <3>1. Place.addr \in Nat /\ \A s \in Addr : s \in Nat
            BY <1>0, PlaceIs, BoundsAre DEF Addr
        <3> QED BY <1>0, <3>1, PlaceSame
    <2>6. \A s \in Addr : s < writeAddr => again.log[s] = log[s]
        <3>1. \A s \in Addr : s \in Nat /\ b \in Nat
            BY <1>0, EndOfBlock, BoundsAre DEF Addr
        <3> HIDE DEF again, b
        <3> QED BY <1>0, <2>1, <2>3, <2>4, <2>5, <3>1
    <2>7. b \in {writeAddr, BlockEnd(writeAddr)} /\ writeAddr <= b
        BY <1>0, <2>1 DEF Addr
    <2> QED BY <1>0, <2>1, <2>6, <2>7
<1> QED BY <1>1, <1>2

(* A record that is written onto blank slots is whole.                     *)
LEMMA PutWhole ==
    ASSUME NEW l \in LogType, NEW r \in Part, r.part = 1, NEW a \in Addr,
           a + r.len <= LogEnd, \A s \in a .. a + r.len - 1 : l[s] = Blank
    PROVE  LET m == Put(l, r, a, r.len) IN
           m \in LogType /\ m[a] = r /\ Whole(m, a)
<1> DEFINE m == Put(l, r, a, r.len)
<1>0. r.len \in 1 .. 2 /\ a \in Nat BY BoundsAre DEF Part, Addr
<1>1. /\ m \in LogType
      /\ \A s \in Addr : s \in a .. a + r.len - 1 =>
            m[s] = IF l[s] = Blank THEN [r EXCEPT !.part = s - a + 1] ELSE Torn
    BY <1>0, PutIs
<1>2. a \in a .. a + r.len - 1 BY <1>0
<1>3. m[a] = [r EXCEPT !.part = a - a + 1] BY <1>1, <1>2
<1>4. [r EXCEPT !.part = a - a + 1] = r
    <2>1. a - a + 1 = 1 BY <1>0
    <2> QED BY <2>1 DEF Part
<1>5. m[a] = r BY <1>3, <1>4
<1>6. ASSUME NEW j \in 2 .. r.len
      PROVE  a + j - 1 \in Addr /\ m[a + j - 1] = [r EXCEPT !.part = j]
    <2>1. a + j - 1 \in Addr /\ a + j - 1 \in a .. a + r.len - 1
          /\ (a + j - 1) - a + 1 = j
        BY <1>0, BoundsAre DEF Addr
    <2> HIDE DEF m
    <2> QED BY <1>1, <2>1
<1> HIDE DEF m
<1>7. Header(m, a) BY <1>5, PartIs, LogAssumption DEF Header
<1>8. Whole(m, a) BY <1>5, <1>6, <1>7 DEF Whole
<1> QED BY <1>1, <1>5, <1>8 DEF m

(* The replay comes to a record written at the write head, or at the start *)
(* of the next block.                                                      *)
LEMMA AppendReached ==
    ASSUME NEW l \in LogType, NEW m \in LogType, NEW w, Reached(l, w),
           \A s \in Addr : s < w => m[s] = l[s],
           NEW a \in Addr, a = w \/ (w < a /\ a = BlockEnd(w)), Whole(m, a),
           NEW G \in SUBSET Found, At(l, w) \in G,
           a # w => \A s \in G : s.at \in w .. a - 1 => Scan(m, s) \in G
    PROVE  /\ Reached(m, a + m[a].len)
           /\ \E s \in G : s.at = a /\ At(m, a + m[a].len) = Scan(m, s)
<1>0. w \in Nat /\ a \in Nat BY AtIs, BoundsAre DEF Addr
<1>1. Reached(m, w) /\ At(m, w) = At(l, w) BY PathSame
<1>2. PICK n \in 0 .. LogEnd : Turns(m, 0)[n].at = a /\ Turns(m, 0)[n] \in G
    <2>1. CASE a = w
        BY <1>1, <2>1, AtIs
    <2>2. CASE a # w
        <3>1. ~(Whole(m, a - 1) /\ m[a - 1].len = 2)
            <4> SUFFICES ASSUME Whole(m, a - 1), m[a - 1].len = 2 PROVE FALSE
                OBVIOUS
            <4>1. a - 1 \in Addr BY <1>0, <2>2, BoundsAre DEF Addr
            <4>2. m[a - 1] \in Part BY <4>1, WholeFits
            <4>3. 2 \in 2 .. m[a - 1].len /\ a - 1 + 2 - 1 = a BY <1>0
            <4>4. m[a] = [m[a - 1] EXCEPT !.part = 2] BY <4>3 DEF Whole
            <4>5. m[a].part = 1 BY WholeFits
            <4> QED BY <4>2, <4>4, <4>5 DEF Part
        <3> QED BY <1>1, <2>2, <3>1, Walk
    <2> QED BY <2>1, <2>2
<1>3. n + 1 \in 0 .. LogEnd /\ Turns(m, 0)[n + 1] = Scan(m, Turns(m, 0)[n])
    BY <1>2, NextTurn
<1>4. /\ Turns(m, 0)[n + 1].at = a + m[a].len
      /\ Turns(m, 0)[n + 1].head = a + m[a].len
    BY <1>2, <1>3, ScanIs
<1> QED BY <1>2, <1>3, <1>4, ReachedBy

LEMMA MountedAt ==
    ASSUME NEW l \in LogType, NEW bound, Reached(l, bound)
    PROVE  LET r == Replay(l, bound) IN
           /\ r \in Found /\ r.head \in 0 .. LogEnd
           /\ Reached(l, r.head) /\ At(l, r.head).table = r.table
           /\ bound <= r.head
           /\ bound # 0 => r.head = bound
           /\ bound = 0 /\ r.head \in Addr => ~Whole(l, r.head)
<1>0. bound \in 0 .. LogEnd /\ bound \in Nat BY AtIs, BoundsAre
<1>1. CASE bound = 0
    <2>1. Replay(l, bound) \in Found BY <1>0, ReplayIs
    <2>2. Replay(l, bound).head \in 0 .. LogEnd /\ 0 <= Replay(l, bound).head
        BY <2>1, BoundsAre DEF Found
    <2> QED BY <1>1, <2>1, <2>2, ReplayAll
<1>2. CASE bound # 0
    <2>1. Replay(l, bound) = At(l, bound) BY <1>2, ReplayTo
    <2>2. /\ At(l, bound) \in Found /\ At(l, bound).head = bound
        BY AtIs
    <2> QED BY <1>0, <1>2, <2>1, <2>2
<1> QED BY <1>1, <1>2

LEMMA BoundIs ==
    ASSUME NEW x \in Nat, NEW y \in Nat
    PROVE  /\ Bound(x, y) \in {x, y} /\ x <= Bound(x, y) /\ y <= Bound(x, y)
           /\ Bound(x, y) \in Nat
BY DEF Bound, Max2

LEMMA BoundReached ==
    ASSUME TypeInv, ReachInv, ~spoilt
    PROVE  Reached(log, Bound(cpTail, ftl))
<1>1. cpTail \in Nat /\ ftl \in Nat BY BoundsAre DEF TypeInv, TypeOK
<1> QED BY <1>1, BoundIs DEF ReachInv

LEMMA MountReach == TypeInv /\ ReachInv /\ Mount => ReachInv'
<1> SUFFICES ASSUME TypeInv, ReachInv, Mount, ~spoilt'
             PROVE  ReachInv'
    BY DEF ReachInv
<1>0. UNCHANGED <<log, cpTail, ftl, spoilt>> BY DEF Mount, flash
<1>1. cpTail \in Nat /\ ftl \in Nat /\ log \in LogType
    BY TypeOKIs, BoundsAre DEF TypeInv
<1> DEFINE b == Bound(cpTail, ftl)
<1>2. Reached(log, b) BY <1>0, BoundReached
<1>3. PICK h : h = Replay(log, b).head /\ h \in 0 .. LogEnd
               /\ Reached(log, h) /\ b <= h
    BY <1>1, <1>2, MountedAt
<1>4. writeAddr' = h BY <1>3 DEF Mount
<1>5. cpTail <= h /\ ftl <= h
    <2>1. cpTail <= b /\ ftl <= b /\ b \in Nat BY <1>1, BoundIs
    <2> HIDE DEF b
    <2> QED BY <1>1, <1>3, <2>1, BoundsAre
<1>6. Reached(log, cpTail) /\ Reached(log, ftl) BY <1>0 DEF ReachInv
<1> QED BY <1>0, <1>3, <1>4, <1>5, <1>6 DEF ReachInv

LEMMA AppendReach ==
    TypeInv /\ ReachInv /\ (AppendRecord \/ RetryRecord) => ReachInv'
<1> SUFFICES ASSUME TypeInv, ReachInv, AppendRecord \/ RetryRecord, ~spoilt'
             PROVE  ReachInv'
    BY DEF ReachInv
<1> DEFINE r == NextRecord
           w == writeAddr
<1>1. PICK l \in LogType, a \in Addr, p \in 0 .. LogEnd :
        /\ Appended(l, a, p)
        /\ a \in {w, BlockEnd(w)} /\ w <= a
        /\ a + r.len <= LogEnd
        /\ \A s \in Addr : s < w => l[s] = log[s]
    BY Writes
<1>2. r \in Part /\ r.part = 1 /\ r.len \in 1 .. 2 BY Writes, NextRecordIs
<1>3. ~spoilt /\ up /\ \A s \in a .. a + r.len - 1 : l[s] = Blank
    BY <1>1, Writes DEF Appended, TypeInv, Underway
<1>4. /\ Reached(log, w) /\ cpTail <= w /\ ftl <= w
      /\ Reached(log, cpTail) /\ Reached(log, ftl)
    BY <1>3 DEF ReachInv
<1>5. log \in LogType /\ w \in Nat /\ cpTail \in Nat /\ ftl \in Nat
    BY TypeOKIs, BoundsAre DEF TypeInv
<1>6. /\ log' = Put(l, r, a, r.len) /\ writeAddr' = a + r.len
      /\ UNCHANGED <<cpTail, ftl>>
    BY <1>1 DEF Appended
<1> HIDE DEF r, w
<1>7. log' \in LogType /\ log'[a] = r /\ Whole(log', a)
    BY <1>1, <1>2, <1>3, <1>6, PutWhole
<1>8. \A s \in Addr : s < w => log'[s] = log[s]
    <2> TAKE s \in Addr
    <2> HAVE s < w
    <2>1. s \notin a .. a + r.len - 1
        BY <1>1, <1>2, <1>5, BoundsAre DEF Addr
    <2>2. a \in Nat /\ r.len \in 0 .. r.len BY <1>2, BoundsAre DEF Addr
    <2>3. Put(l, r, a, r.len)[s] = l[s] BY <1>2, <2>1, <2>2, PutIs
    <2> QED BY <1>1, <1>6, <2>3
<1>9. PICK m : m = log' OBVIOUS
<1>10. Reached(m, a + r.len)
    <2>1. a = w \/ (w < a /\ a = BlockEnd(w))
        BY <1>1, <1>5, BoundsAre DEF Addr
    <2>2. /\ At(log, w) \in Found
          /\ \A s \in Found : s.at \in w .. a - 1 => Scan(m, s) \in Found
        <3>1. \A s \in Found : s.at \in w .. a - 1 => s.at \in Addr
            BY <1>5, BoundsAre DEF Addr
        <3> QED BY <1>4, <1>5, <1>7, <1>9, <3>1, AtIs, ScanIs
    <2>3. Found \in SUBSET Found OBVIOUS
    <2>4. m \in LogType /\ Whole(m, a) /\ m[a] = r
          /\ \A s \in Addr : s < w => m[s] = log[s]
        BY <1>7, <1>8, <1>9
    <2>5. Reached(m, a + m[a].len)
        BY <1>4, <1>5, <2>1, <2>2, <2>3, <2>4, AppendReached
    <2> QED BY <2>4, <2>5
<1>11. Reached(m, cpTail) /\ Reached(m, ftl)
    <2>1. \A s \in Addr : (s < cpTail \/ s < ftl) => m[s] = log[s]
        BY <1>4, <1>5, <1>8, <1>9, BoundsAre DEF Addr
    <2> QED BY <1>4, <1>5, <1>7, <1>9, <2>1, PathSame
<1>12. cpTail <= a + r.len /\ ftl <= a + r.len
    BY <1>1, <1>2, <1>4, <1>5, BoundsAre DEF Addr
<1>13. UNCHANGED up BY <1>1 DEF Appended
<1> QED BY <1>6, <1>9, <1>10, <1>11, <1>12, <1>13 DEF ReachInv

LEMMA PowerCutSame ==
    ASSUME TypeInv, PowerCut
    PROVE  \A s \in Addr : s < writeAddr => log'[s] = log[s]
<1>1. CASE pc # "append" BY <1>1 DEF PowerCut
<1>2. CASE pc = "append"
    <2>1. log' \in CutShort(Place.log, NextRecord, Place.addr)
        BY <1>2 DEF PowerCut
    <2>2. /\ NextRecord \in Part /\ NextRecord.part = 1
          /\ Place.log \in LogType /\ Place.addr \in Nat
        BY <1>2, NextRecordIs, PlaceIs
    <2>3. writeAddr \in Nat /\ \A s \in Addr : s \in Nat
        BY TypeOKIs, BoundsAre DEF TypeInv, Addr
    <2>4. \A s \in Addr : s < writeAddr => s < Place.addr
        BY <1>2, <2>2, <2>3, PlaceSame
    <2>5. \A s \in Addr : s < Place.addr => log'[s] = Place.log[s]
        BY <2>1, <2>2, CutShortSame
    <2> QED BY <1>2, <2>4, <2>5, PlaceSame
<1> QED BY <1>1, <1>2

LEMMA PowerCutReach == TypeInv /\ ReachInv /\ PowerCut => ReachInv'
<1> SUFFICES ASSUME TypeInv, ReachInv, PowerCut, ~spoilt'
             PROVE  ReachInv'
    BY DEF ReachInv
<1>1. /\ UNCHANGED <<cpTail, ftl, spoilt>> /\ up /\ ~up'
    BY DEF PowerCut, history, Off
<1>2. PICK m : m = log' OBVIOUS
<1>3. m \in LogType BY <1>2, PowerCutType, TypeOKIs DEF TypeInv, TypeOK, LogType
<1>4. \A s \in Addr : s < writeAddr => m[s] = log[s] BY <1>2, PowerCutSame
<1>5. /\ cpTail <= writeAddr /\ ftl <= writeAddr
      /\ Reached(log, cpTail) /\ Reached(log, ftl)
    BY <1>1 DEF ReachInv
<1>6. \A s \in Addr : (s < cpTail \/ s < ftl) => m[s] = log[s]
    <2>1. log \in LogType /\ writeAddr \in Nat /\ cpTail \in Nat /\ ftl \in Nat
        BY TypeOKIs, BoundsAre DEF TypeInv
    <2> QED BY <1>4, <1>5, <2>1, BoundsAre DEF Addr
<1>7. Reached(m, cpTail) /\ Reached(m, ftl)
    BY <1>3, <1>5, <1>6, PathSame, TypeOKIs DEF TypeInv
<1> QED BY <1>1, <1>2, <1>7 DEF ReachInv

(* The other steps move the bounds to the write head, or to the start.     *)
LEMMA StoredAll ==
    ASSUME OffsetRange = PerBlock, TypeInv
    PROVE  Stored(writeAddr) = writeAddr
<1>1. writeAddr \in Nat BY TypeOKIs, BoundsAre DEF TypeInv
<1> QED BY <1>1, StoredIs

LEMMA OtherReach ==
    ASSUME OffsetRange = PerBlock, TypeInv, ReachInv,
           UNCHANGED <<log, spoilt>>,
           up' => up /\ writeAddr' = writeAddr,
           cpTail' = cpTail \/ (cpTail' = Stored(writeAddr) /\ up),
           ftl' \in {ftl, 0} \/ (ftl' = Stored(writeAddr) /\ up)
    PROVE  ReachInv'
<1> SUFFICES ASSUME ~spoilt' PROVE ReachInv' BY DEF ReachInv
<1>1. /\ log \in LogType /\ writeAddr \in Nat /\ Stored(writeAddr) = writeAddr
    BY TypeOKIs, BoundsAre, StoredAll DEF TypeInv
<1>2. Reached(log, 0) /\ 0 <= writeAddr BY <1>1, ReachedStart
<1>3. /\ Reached(log, cpTail) /\ Reached(log, ftl)
      /\ up => Reached(log, writeAddr) /\ cpTail <= writeAddr /\ ftl <= writeAddr
    BY DEF ReachInv
<1> QED BY <1>1, <1>2, <1>3 DEF ReachInv

LEMMA InitReach == Init => ReachInv
<1> SUFFICES ASSUME Init PROVE ReachInv OBVIOUS
<1>1. log \in LogType BY InitType, TypeOKIs DEF TypeInv
<1> QED BY <1>1, ReachedStart DEF Init, ReachInv

LEMMA NextReach ==
    ASSUME OffsetRange = PerBlock, TypeInv, ReachInv, [Next]_vars
    PROVE  ReachInv'
<1>1. CASE Mount BY <1>1, MountReach
<1>2. CASE Start
    <2>1. UNCHANGED <<log, cpTail, ftl, up, writeAddr, spoilt>>
        BY <1>2 DEF Start, Write, CommitBatch, Umount, Begin, flash, ram, history
    <2> QED BY <2>1, OtherReach
<1>3. CASE AppendRecord \/ RetryRecord BY <1>3, AppendReach
<1>4. CASE EraseHead \/ WriteHead \/ HeadFails
    <2>1. pc # "idle" BY <1>4 DEF EraseHead, WriteHead, HeadFails
    <2>2. up BY <2>1 DEF TypeInv, Underway
    <2>3. /\ UNCHANGED <<log, cpTail, up, writeAddr, spoilt>>
          /\ ftl' \in {ftl, 0} \/ ftl' = Stored(writeAddr)
        BY <1>4 DEF EraseHead, WriteHead, HeadFails, HeadOnly, ram, history
    <2> QED BY <2>2, <2>3, OtherReach
<1>5. CASE StoreCheckpoint \/ StoreFails
    <2>1. pc # "idle" BY <1>5 DEF StoreCheckpoint, StoreFails, Due
    <2>2. up BY <2>1 DEF TypeInv, Underway
    <2>3. /\ UNCHANGED <<log, ftl, up, writeAddr, spoilt>>
          /\ cpTail' \in {cpTail, Stored(writeAddr)}
        BY <1>5 DEF StoreCheckpoint, StoreFails, history
    <2> QED BY <2>2, <2>3, OtherReach
<1>6. CASE Finish
    <2>1. UNCHANGED <<log, cpTail, ftl, spoilt>>
        BY <1>6 DEF Finish, flash
    <2>2. up' => up /\ writeAddr' = writeAddr BY <1>6 DEF Finish, Off
    <2> QED BY <2>1, <2>2, OtherReach
<1>7. CASE PowerCut BY <1>7, PowerCutReach
<1>8. CASE UNCHANGED vars
    <2>1. UNCHANGED <<log, cpTail, ftl, up, writeAddr, spoilt>>
        BY <1>8 DEF vars, flash, ram, history
    <2> QED BY <2>1, OtherReach
<1> QED BY <1>1, <1>2, <1>3, <1>4, <1>5, <1>6, <1>7, <1>8 DEF Next, Step

(* No step, a failing or a torn one included, touches what lies before the *)
(* bound of a replay: appends and the erasures for them lie behind the     *)
(* write head, and the head a mount begins with is never before the bound. *)
(* It takes the offset in a block to fit what is stored of it.             *)
THEOREM BehindTheBoundOnly ==
    ASSUME OffsetRange = PerBlock
    PROVE  Spec => DurableIsUntouched
<1>1. Init => TypeInv /\ ReachInv BY InitType, InitReach
<1>2. TypeInv /\ ReachInv /\ [Next]_vars => (TypeInv /\ ReachInv)'
    BY NextType, NextReach
<1>3. ASSUME TypeInv, ReachInv, [Next]_vars
      PROVE  [~spoilt => \A a \in 0 .. Bound(cpTail, ftl) - 1 :
                Whole(log, a) => log'[a] = log[a]]_vars
    <2> SUFFICES ASSUME ~spoilt, NEW a \in 0 .. Bound(cpTail, ftl) - 1
                 PROVE  log'[a] = log[a]
        OBVIOUS
    <2>1. /\ cpTail \in Nat /\ ftl \in Nat /\ Bound(cpTail, ftl) \in 0 .. LogEnd
          /\ writeAddr \in Nat
        BY <1>3, TypeOKIs, BoundsAre DEF TypeInv
    <2>2. a \in Addr BY <2>1, BoundsAre DEF Addr
    <2>3. up => a < writeAddr
        <3>1. up => cpTail <= writeAddr /\ ftl <= writeAddr BY <1>3 DEF ReachInv
        <3>2. Bound(cpTail, ftl) \in {cpTail, ftl} BY <2>1, BoundIs
        <3> QED BY <2>1, <3>1, <3>2
    <2>4. CASE AppendRecord \/ RetryRecord
        <3>1. PICK l \in LogType, c \in Addr, p \in 0 .. LogEnd :
                /\ Appended(l, c, p) /\ writeAddr <= c
                /\ \A s \in Addr : s < writeAddr => l[s] = log[s]
            BY <1>3, <2>4, Writes
        <3>2. pc = "append" BY <2>4 DEF AppendRecord, RetryRecord
        <3>3. up /\ NextRecord \in Part /\ NextRecord.part = 1 /\ NextRecord.len \in 1 .. 2
            BY <1>3, <3>2, NextRecordIs DEF TypeInv, Underway
        <3>4. a \notin c .. c + NextRecord.len - 1 /\ c \in Nat
              /\ NextRecord.len \in 0 .. NextRecord.len
            BY <2>1, <2>2, <2>3, <3>1, <3>3, BoundsAre DEF Addr
        <3>5. Put(l, NextRecord, c, NextRecord.len)[a] = l[a]
            BY <2>2, <3>3, <3>4, PutIs
        <3> QED BY <2>2, <2>3, <3>1, <3>3, <3>5 DEF Appended
    <2>5. CASE PowerCut
        <3>1. up BY <2>5 DEF PowerCut
        <3> QED BY <1>3, <2>2, <2>3, <2>5, <3>1, PowerCutSame
    <2>6. CASE UNCHANGED log BY <2>6
    <2> QED BY <1>3, <2>4, <2>5, <2>6
            DEF Next, Step, Start, Mount, Write, CommitBatch, Umount, Begin, EraseHead,
                WriteHead, HeadFails, HeadOnly, StoreCheckpoint, StoreFails, Finish,
                flash, vars
<1> QED BY <1>1, <1>2, <1>3, PTL DEF Spec, DurableIsUntouched

-----------------------------------------------------------------------------
(* The shape of a block: what follows what in it.                          *)

Ordered(l, s) ==
    /\ l[s - 1] = Blank => l[s] = Blank
    /\ l[s - 1] = Torn /\ (s - 1) % PerBlock # 0 => l[s] = Blank
    /\ l[s - 1] \in Part /\ l[s - 1].part < l[s - 1].len =>
        l[s] \in {[l[s - 1] EXCEPT !.part = 2], Torn, Blank}
    /\ l[s - 1] \in Part /\ l[s - 1].part = l[s - 1].len =>
        l[s] \in {Torn, Blank} \/ l[s].part = 1

Shape(l) == \A s \in Addr : s % PerBlock # 0 => Ordered(l, s)

LEMMA InBlock ==
    ASSUME NEW s \in Addr, s % PerBlock # 0
    PROVE  s - 1 \in Addr /\ s \in Nat /\ s - 1 \in Nat
<1>1. 0 % PerBlock = 0 BY LogAssumption
<1> QED BY <1>1, BoundsAre DEF Addr

LEMMA BlankOrdered ==
    ASSUME NEW l, NEW s \in Addr, l[s] = Blank
    PROVE  Ordered(l, s)
BY DEF Ordered

LEMMA EraseShape ==
    ASSUME NEW l \in LogType, Shape(l), NEW x \in Nat, NEW y \in Nat,
           x % PerBlock = 0, y % PerBlock = 0
    PROVE  Shape(Erase(l, x, y))
<1> DEFINE m == Erase(l, x, y)
<1> SUFFICES ASSUME NEW s \in Addr, s % PerBlock # 0 PROVE Ordered(m, s)
    BY DEF Shape
<1>1. \A t \in Addr : m[t] = IF t \in x .. y - 1 THEN Blank ELSE l[t]
    BY EraseIs
<1>2. s - 1 \in Addr /\ s \in Nat /\ s - 1 \in Nat /\ s # x /\ s # y BY InBlock
<1> HIDE DEF m
<1>3. CASE s \in x .. y - 1 BY <1>1, <1>3, BlankOrdered
<1>4. CASE s \notin x .. y - 1
    <2>1. s - 1 \notin x .. y - 1 BY <1>2, <1>4
    <2>2. m[s] = l[s] /\ m[s - 1] = l[s - 1] BY <1>1, <1>2, <1>4, <2>1
    <2>3. Ordered(l, s) BY DEF Shape
    <2> QED BY <2>2, <2>3 DEF Ordered
<1> QED BY <1>3, <1>4

(* Behind a blank slot the block is blank.                                 *)
LEMMA BlankRest ==
    ASSUME NEW l \in LogType, Shape(l), NEW x \in Addr, l[x] = Blank,
           NEW s \in Addr, x <= s, s < BlockEnd(x)
    PROVE  l[s] = Blank
<1>0. x \in Nat /\ s \in Nat BY BoundsAre DEF Addr
<1> DEFINE Bad == {t \in x .. s : l[t] # Blank}
<1>1. SUFFICES ASSUME Bad # {} PROVE FALSE
    BY <1>0
<1>2. Bad \in SUBSET Nat BY <1>0
<1>3. PICK t \in Bad : \A u \in Bad : t <= u BY <1>1, <1>2, Least
<1>4. t \in Nat /\ x < t /\ t <= s /\ t \in Addr
    BY <1>0, <1>3, BoundsAre DEF Addr
<1>5. t % PerBlock # 0
    <2>1. BlockEnd(x) \in Nat BY <1>0, EndOfBlock
    <2> QED BY <1>0, <1>4, <2>1, SameBlock
<1>6. l[t - 1] = Blank
    <2>1. t - 1 \in x .. s /\ ~(t <= t - 1) BY <1>0, <1>4
    <2> QED BY <1>3, <2>1
<1> QED BY <1>3, <1>4, <1>5, <1>6 DEF Shape, Ordered

(* What a write that is cut short, or is not, leaves behind.               *)
Second(r) == [r EXCEPT !.part = 2]

LEMMA CutShortWrites ==
    ASSUME NEW l \in LogType, NEW r \in Part, r.part = 1, NEW a \in Addr, l[a] = Blank,
           NEW m \in CutShort(l, r, a)
    PROVE  /\ m[a] \in {Blank, Torn, r}
           /\ \A s \in Addr : s < a \/ s > a + 1 => m[s] = l[s]
           /\ a + 1 \in Addr =>
                \/ m[a + 1] = l[a + 1]
                \/ /\ m[a] = r /\ r.len = 2
                   /\ m[a + 1] = Torn \/ (m[a + 1] = Second(r) /\ l[a + 1] = Blank)
<1>0. r.len \in 1 .. 2 /\ a \in Nat /\ \A s \in Addr : s \in Nat
    BY BoundsAre DEF Part, Addr
<1>1. PICK j \in 0 .. r.len :
        \/ m = Put(l, r, a, j)
        \/ j < r.len /\ m = [Put(l, r, a, j) EXCEPT ![a + j] = Torn]
    BY <1>0, CutShortIs
<1> DEFINE u == Put(l, r, a, j)
<1>2. /\ u \in LogType
      /\ \A s \in Addr : u[s] = IF s \notin a .. a + j - 1 THEN l[s]
                    ELSE IF l[s] = Blank THEN [r EXCEPT !.part = s - a + 1] ELSE Torn
    BY <1>0, PutIs
<1>3. m \in LogType /\ \A s \in Addr : m[s] = u[s] \/ (j < r.len /\ s = a + j /\ m[s] = Torn)
    BY <1>0, <1>1, <1>2 DEF LogType
<1>3a. j < r.len /\ m # u => \A s \in Addr : s = a + j => m[s] = Torn
    BY <1>1, <1>2 DEF LogType
<1> HIDE DEF u
<1>4. \A s \in Addr : s < a \/ s > a + 1 => m[s] = l[s]
    <2> TAKE s \in Addr
    <2> HAVE s < a \/ s > a + 1
    <2>1. s \notin a .. a + j - 1 /\ ~(j < r.len /\ s = a + j) BY <1>0
    <2> QED BY <1>2, <1>3, <2>1
<1>5. j = 0 => u[a] = Blank
    <2>1. j = 0 => a \notin a .. a + j - 1 BY <1>0
    <2> QED BY <1>2, <2>1
<1>6. j > 0 => u[a] = r
    <2>1. SUFFICES ASSUME j > 0 PROVE u[a] = r OBVIOUS
    <2>2. u[a] = [r EXCEPT !.part = a - a + 1] BY <1>0, <1>2, <2>1
    <2>3. a - a + 1 = 1 BY <1>0
    <2> QED BY <2>2, <2>3 DEF Part
<1>7. m[a] \in {Blank, Torn, r} BY <1>3, <1>5, <1>6, <1>0
<1>8. ASSUME a + 1 \in Addr, m[a + 1] # l[a + 1]
      PROVE  /\ m[a] = r /\ r.len = 2
             /\ m[a + 1] = Torn \/ (m[a + 1] = Second(r) /\ l[a + 1] = Blank)
    <2>1. CASE m[a + 1] = u[a + 1]
        <3>1. a + 1 \in a .. a + j - 1 BY <1>2, <1>8, <2>1
        <3>2. j = 2 /\ r.len = 2 BY <1>0, <3>1
        <3>3. m[a] = r BY <1>0, <1>3, <1>6, <3>2
        <3>4. l[a + 1] = Blank => u[a + 1] = [r EXCEPT !.part = (a + 1) - a + 1]
            BY <1>2, <1>8, <3>1
        <3>5. (a + 1) - a + 1 = 2 BY <1>0
        <3>6. l[a + 1] # Blank => u[a + 1] = Torn BY <1>2, <1>8, <3>1
        <3> QED BY <2>1, <3>2, <3>3, <3>4, <3>5, <3>6 DEF Second
    <2>2. CASE m[a + 1] # u[a + 1]
        <3>1. j < r.len /\ a + 1 = a + j /\ m[a + 1] = Torn
            BY <1>3, <1>8, <2>2
        <3>2. j = 1 /\ r.len = 2 BY <1>0, <3>1
        <3>3. m[a] = r BY <1>0, <1>3, <1>6, <3>2
        <3> QED BY <3>1, <3>2, <3>3
    <2> QED BY <2>1, <2>2
<1> QED BY <1>4, <1>7, <1>8

LEMMA WriteShape ==
    ASSUME NEW l \in LogType, Shape(l), NEW r \in Part, r.part = 1, NEW a \in Addr,
           \A s \in Addr : a <= s /\ s < BlockEnd(a) => l[s] = Blank,
           a % PerBlock # 0 => l[a - 1] \in Part /\ l[a - 1].part = l[a - 1].len,
           NEW m \in CutShort(l, r, a)
    PROVE  Shape(m)
<1> SUFFICES ASSUME NEW s \in Addr, s % PerBlock # 0 PROVE Ordered(m, s)
    BY DEF Shape
<1>0. a \in Nat /\ s \in Nat /\ s - 1 \in Addr /\ s - 1 \in Nat
      /\ a < BlockEnd(a) /\ BlockEnd(a) \in Nat /\ BlockEnd(a) % PerBlock = 0
    BY InBlock, EndOfBlock, BoundsAre DEF Addr
<1>1. l[a] = Blank BY <1>0
<1>2. /\ m[a] \in {Blank, Torn, r}
      /\ \A t \in Addr : t < a \/ t > a + 1 => m[t] = l[t]
      /\ a + 1 \in Addr =>
            \/ m[a + 1] = l[a + 1]
            \/ /\ m[a] = r /\ r.len = 2
               /\ m[a + 1] = Torn \/ (m[a + 1] = Second(r) /\ l[a + 1] = Blank)
    BY <1>1, CutShortWrites
<1>3. Ordered(l, s) BY DEF Shape
<1>4. Blank # Torn /\ Blank \notin Part /\ Torn \notin Part BY LogAssumption
<1>5. CASE s < a \/ s > a + 2
    <2>1. m[s] = l[s] /\ m[s - 1] = l[s - 1] BY <1>0, <1>2, <1>5
    <2> QED BY <1>3, <2>1 DEF Ordered
<1>6. CASE s = a
    <2>1. m[s - 1] = l[s - 1] BY <1>0, <1>2, <1>6
    <2>2. l[s - 1] \in Part /\ l[s - 1].part = l[s - 1].len BY <1>6
    <2>3. l[s - 1].part \in Nat /\ l[s - 1].len \in Nat BY <2>2 DEF Part
    <2> QED BY <1>2, <1>4, <1>6, <2>1, <2>2, <2>3 DEF Ordered
<1>7. CASE s = a + 1
    <2>1. s < BlockEnd(a)
        <3>1. s # BlockEnd(a) BY <1>0
        <3> QED BY <1>0, <1>7, <3>1
    <2>2. l[s] = Blank /\ s - 1 = a BY <1>0, <1>7, <2>1
    <2>3. CASE m[s] = Blank BY <2>3, BlankOrdered
    <2>4. CASE m[s] # Blank
        <3>1. m[a] = r /\ r.len = 2 /\ m[s] \in {Torn, Second(r)}
            BY <1>2, <1>7, <2>2, <2>4
        <3> QED BY <1>4, <2>2, <3>1 DEF Ordered, Second
    <2> QED BY <2>3, <2>4
<1>8. CASE s = a + 2
    <2>1. m[s] = l[s] /\ s - 1 = a + 1 /\ a + 1 \in Addr BY <1>0, <1>2, <1>8
    <2>2. CASE a + 1 < BlockEnd(a)
        <3>1. s # BlockEnd(a) BY <1>0
        <3>2. l[s] = Blank BY <1>0, <1>8, <2>2, <3>1
        <3> QED BY <2>1, <3>2, BlankOrdered
    <2>3. CASE ~(a + 1 < BlockEnd(a))
        <3>1. (a + 1) % PerBlock = 0
            <4>1. a + 1 = BlockEnd(a) BY <1>0, <2>3
            <4> QED BY <1>0, <4>1
        <3>2. CASE m[a + 1] = l[a + 1]
            BY <1>3, <2>1, <3>2 DEF Ordered
        <3>3. CASE m[a + 1] = Torn
            BY <1>4, <2>1, <3>1, <3>3 DEF Ordered
        <3>4. CASE l[a + 1] = Blank
            <4>1. l[s] = Blank BY <1>3, <2>1, <3>4 DEF Ordered
            <4> QED BY <2>1, <4>1, BlankOrdered
        <3> QED BY <1>2, <2>1, <3>2, <3>3, <3>4
    <2> QED BY <2>2, <2>3
<1> QED BY <1>0, <1>5, <1>6, <1>7, <1>8

(* What is new in m is r.                                                  *)
Grows(l, m, r) ==
    \A p \in Addr :
        /\ m[p] \in {l[p], Blank, Torn, r, Second(r)}
        /\ Whole(m, p) => m[p] = r \/ (Whole(l, p) /\ m[p] = l[p])

LEMMA EraseGrows ==
    ASSUME NEW l \in LogType, NEW m \in LogType, NEW r,
           \A s \in Addr : m[s] \in {l[s], Blank}
    PROVE  Grows(l, m, r)
<1> SUFFICES ASSUME NEW p \in Addr, Whole(m, p) PROVE Whole(l, p) /\ m[p] = l[p]
    BY DEF Grows
<1>1. m[p] \in Part /\ Blank \notin Part BY WholeFits, LogAssumption
<1>2. m[p] = l[p] BY <1>1
<1>3. ASSUME NEW j \in 2 .. m[p].len
      PROVE  p + j - 1 \in Addr /\ l[p + j - 1] = [m[p] EXCEPT !.part = j]
    <2>1. p + j - 1 \in Addr /\ m[p + j - 1] = [m[p] EXCEPT !.part = j]
        BY DEF Whole
    <2>2. j \in 1 .. 2 BY <1>1 DEF Part
    <2>3. m[p + j - 1] \in Part BY <1>1, <2>1, <2>2 DEF Part
    <2> QED BY <1>1, <2>1, <2>3
<1> QED BY <1>2, <1>3 DEF Whole, Header

LEMMA WriteGrows ==
    ASSUME NEW l \in LogType, NEW r \in Part, r.part = 1, NEW a \in Addr, l[a] = Blank,
           NEW m \in CutShort(l, r, a)
    PROVE  Grows(l, m, r)
<1>0. a \in Nat /\ m \in LogType BY CutShortIs, BoundsAre DEF Addr
<1>1. /\ m[a] \in {Blank, Torn, r}
      /\ \A s \in Addr : s < a \/ s > a + 1 => m[s] = l[s]
      /\ a + 1 \in Addr => m[a + 1] \in {l[a + 1], Torn, Second(r)}
    BY CutShortWrites
<1>2. ASSUME NEW p \in Addr PROVE m[p] \in {l[p], Blank, Torn, r, Second(r)}
    <2>1. p \in Nat BY BoundsAre DEF Addr
    <2>2. p < a \/ p > a + 1 \/ p = a \/ p = a + 1 BY <1>0, <2>1
    <2> QED BY <1>1, <2>2
<1>3. ASSUME NEW p \in Addr, Whole(m, p), m[p] # r
      PROVE  Whole(l, p) /\ m[p] = l[p]
    <2>0. /\ m[p] \in Part /\ m[p].part = 1 /\ m[p].len \in 1 .. 2 /\ p \in Nat
          /\ Blank \notin Part /\ Torn \notin Part
        BY <1>0, <1>3, WholeFits, LogAssumption, BoundsAre DEF Addr
    <2>1. p # a BY <1>1, <1>3, <2>0
    <2>2. m[p] # Second(r) BY <2>0 DEF Second, Part
    <2>3. m[p] = l[p]
        <3>1. p < a \/ p > a + 1 \/ p = a + 1 BY <1>0, <2>0, <2>1
        <3> QED BY <1>1, <2>0, <2>2, <3>1
    <2>4. ASSUME NEW j \in 2 .. m[p].len
          PROVE  p + j - 1 \in Addr /\ l[p + j - 1] = [m[p] EXCEPT !.part = j]
        <3>1. j = 2 /\ p + j - 1 = p + 1 BY <2>0
        <3>2. p + 1 \in Addr /\ m[p + 1] = [m[p] EXCEPT !.part = 2]
            BY <1>3, <3>1 DEF Whole
        <3>3. m[p + 1] \in Part /\ m[p + 1].part = 2 BY <2>0, <3>2 DEF Part
        <3>4. p + 1 # a BY <1>1, <2>0, <3>3
        <3>5. p + 1 < a \/ p + 1 > a + 1 BY <1>0, <2>0, <2>1, <3>4
        <3> QED BY <1>1, <3>1, <3>2, <3>5
    <2> QED BY <1>3, <2>3, <2>4 DEF Whole, Header
<1> QED BY <1>2, <1>3 DEF Grows

LEMMA GrowsOn ==
    ASSUME NEW l, NEW m, NEW n, NEW r, Grows(l, m, r), Grows(m, n, r)
    PROVE  Grows(l, n, r)
BY DEF Grows

(* What holds of the first turn, and of a turn if of the one before.       *)
LEMMA AllTurns ==
    ASSUME NEW l \in LogType, NEW G \in SUBSET Found, First(0) \in G,
           \A s \in G : s.at \in Addr => Scan(l, s) \in G
    PROVE  /\ \A n \in 0 .. LogEnd : Turns(l, 0)[n] \in G
           /\ \A x : Reached(l, x) => At(l, x) \in G
<1> DEFINE S == Turns(l, 0)
           H == {n \in 0 .. LogEnd : S[n] \in G}
<1>0. LogEnd \in Nat /\ 0 \in 0 .. LogEnd /\ Limit(0) = LogEnd
    BY BoundsAre DEF Limit
<1>1. S[0] = First(0) BY TurnsAre, <1>0
<1>2. \A n \in 1 .. LogEnd : S[n] = Turn(l, 0, S[n - 1]) BY TurnsAre, <1>0
<1> HIDE DEF S
<1>3. 0 \in H BY <1>0, <1>1
<1>4. ASSUME NEW n \in 0 .. LogEnd - 1, n \in H PROVE n + 1 \in H
    <2>1. n + 1 \in 1 .. LogEnd /\ n + 1 \in 0 .. LogEnd BY <1>0
    <2>2. S[n + 1] = Turn(l, 0, S[n])
        <3>1. (n + 1) - 1 = n BY <1>0
        <3> QED BY <1>2, <2>1, <3>1
    <2>3. S[n] \in G /\ S[n] \in Found BY <1>4
    <2>4. CASE S[n].at >= LogEnd BY <1>0, <2>1, <2>2, <2>3, <2>4 DEF Turn
    <2>5. CASE ~(S[n].at >= LogEnd)
        <3>1. S[n].at \in Addr BY <1>0, <2>3, <2>5 DEF Found, Addr
        <3> QED BY <1>0, <2>1, <2>2, <2>3, <2>5, <3>1 DEF Turn
    <2> QED BY <2>4, <2>5
<1>5. \A n \in 0 .. LogEnd : n \in H
    <2> HIDE DEF H
    <2> QED BY <1>0, <1>3, <1>4, Count
<1>6. \A n \in 0 .. LogEnd : S[n] \in G BY <1>5
<1> QED BY <1>6, AtIs DEF S

(* The head of a replay is behind the last part of a record.               *)
LEMMA LastPart ==
    ASSUME NEW l \in LogType, NEW x, Reached(l, x), x # 0
    PROVE  x - 1 \in Addr /\ l[x - 1] \in Part /\ l[x - 1].part = l[x - 1].len
<1> DEFINE P(h) == h - 1 \in Addr /\ l[h - 1] \in Part /\ l[h - 1].part = l[h - 1].len
           G == {s \in Found : s.head # 0 => P(s.head)}
<1>1. First(0) \in G
    <2>1. First(0) \in Found BY FirstIs, BoundsAre
    <2>2. First(0).head = 0 BY DEF First
    <2> QED BY <2>1, <2>2
<1>2. ASSUME NEW s \in G, s.at \in Addr PROVE Scan(l, s) \in G
    <2>1. s \in Found /\ Scan(l, s) \in Found BY <1>2, ScanIs
    <2>2. CASE ~Whole(l, s.at)
        <3>1. Scan(l, s).head = s.head BY <1>2, <2>1, <2>2, ScanIs
        <3> QED BY <2>1, <3>1
    <2>3. CASE Whole(l, s.at)
        <3> DEFINE a == s.at
                   n == l[a].len
        <3>1. Scan(l, s).head = a + n BY <1>2, <2>1, <2>3, ScanIs
        <3>2. l[a] \in Part /\ n \in 1 .. 2 /\ l[a].part = 1 /\ a \in Nat
            BY <1>2, <2>3, WholeFits, BoundsAre DEF Addr
        <3>3. P(a + n)
            <4>1. CASE n = 1
                <5>1. a + n - 1 = a BY <3>2, <4>1
                <5> QED BY <1>2, <3>2, <4>1, <5>1
            <4>2. CASE n = 2
                <5>1. (a + n) - 1 = a + 1 /\ 2 \in 2 .. n /\ a + 2 - 1 = a + 1
                    BY <3>2, <4>2
                <5>2. a + 1 \in Addr /\ l[a + 1] = [l[a] EXCEPT !.part = 2]
                    BY <2>3, <5>1 DEF Whole
                <5>3. l[a + 1] \in Part /\ l[a + 1].part = 2 /\ l[a + 1].len = 2
                    BY <3>2, <4>2, <5>2 DEF Part
                <5> QED BY <5>1, <5>2, <5>3
            <4> QED BY <3>2, <4>1, <4>2
        <3> HIDE DEF P
        <3> QED BY <2>1, <3>1, <3>3
    <2> QED BY <2>2, <2>3
<1>3. At(l, x) \in G
    <2> HIDE DEF G
    <2>1. G \in SUBSET Found BY DEF G
    <2> QED BY <1>1, <1>2, <2>1, AllTurns
<1> QED BY <1>3, AtIs

(* A record is written onto blank slots, and the block behind it is blank: *)
(* q is l prepared for n slots at a.                                       *)
Ready(l, a, n, q) ==
    LET b == q.addr IN
    /\ q.log \in LogType /\ Shape(q.log)
    /\ b \in Nat
    /\ b = a \/ (b = BlockEnd(a) /\ a % PerBlock # 0 /\ l[a] # Blank)
    /\ \A s \in Addr : q.log[s] \in {l[s], Blank}
    /\ \A s \in Addr : s < b => q.log[s] = l[s]
    /\ \A s \in Addr : b <= s /\ s < BlockEnd(b) => q.log[s] = Blank
    /\ (\A s \in b .. b + n - 1 : q.log[s] = Blank) =>
         \A s \in Addr : b + n <= s /\ s < AlignUp(b + n) => q.log[s] = Blank
    /\ q.until <= AlignUp(b + n)

LEMMA PreparedShape ==
    ASSUME NEW l \in LogType, Shape(l), NEW a \in Nat, NEW n \in 1 .. 2,
           NEW p \in Nat, p <= AlignUp(a)
    PROVE  Ready(l, a, n, Prepared(l, a, n, p))
<1> DEFINE q == Prepared(l, a, n, p)
           m == q.log
           b == q.addr
           e == AlignUp(b + n)
           c == BlockEnd(b)
<1>1. /\ m \in LogType /\ b \in Nat
      /\ b = a \/ (b = BlockEnd(a) /\ a % PerBlock # 0 /\ l[a] # Blank)
      /\ \/ q.until = e
         \/ q.until = p /\ m = l /\ b = a /\ a % PerBlock # 0
      /\ \A s \in Addr : s < b => m[s] = l[s]
      /\ \A s \in Addr : m[s] \in {l[s], Blank}
      /\ b # a => \A s \in Addr : b <= s /\ s < e => m[s] = Blank
      /\ b = a /\ a % PerBlock # 0 => m = l /\ l[a] = Blank
      /\ a % PerBlock = 0 /\ p <= a => \A s \in Addr : a <= s /\ s < AlignUp(a + n)
                                => m[s] = Blank
    BY PreparedIs
<1>2. Shape(m)
    <2>1. CASE a % PerBlock = 0
        <3> DEFINE x == AlignUp(Max2(p, a))
                   y == AlignUp(a + n)
        <3>1. m = Erase(l, x, y) BY <2>1 DEF Prepared
        <3>2. Max2(p, a) \in Nat BY DEF Max2
        <3>3. /\ x \in Nat /\ x % PerBlock = 0 /\ y \in Nat /\ y % PerBlock = 0
            BY <3>2, Aligned
        <3> HIDE DEF x, y, m
        <3> QED BY <3>1, <3>3, EraseShape
    <2>2. CASE a % PerBlock # 0 /\ l[a] = Blank
        <3>1. m = l BY <2>2 DEF Prepared
        <3> HIDE DEF m
        <3> QED BY <3>1
    <2>3. CASE a % PerBlock # 0 /\ l[a] # Blank
        <3> DEFINE x == BlockEnd(a)
                   y == AlignUp(x + n)
        <3>1. m = Erase(l, x, y) BY <2>3 DEF Prepared
        <3>2. x \in Nat /\ x % PerBlock = 0 BY EndOfBlock
        <3>3. x + n \in Nat BY <3>2
        <3>4. y \in Nat /\ y % PerBlock = 0
            <4> HIDE DEF x
            <4> QED BY <3>3, Aligned
        <3> HIDE DEF x, y, m
        <3> QED BY <3>1, <3>2, <3>4, EraseShape
    <2> QED BY <2>1, <2>2, <2>3
<1>3. a % PerBlock = 0 => p <= a BY DEF AlignUp
<1> HIDE DEF q
<1> HIDE DEF m, b
<1>4. /\ b + n \in Nat /\ e \in Nat /\ b + n <= e /\ e % PerBlock = 0
      /\ \A d \in Nat : d % PerBlock = 0 /\ b + n <= d => e <= d
      /\ c \in Nat /\ b < c /\ c % PerBlock = 0
      /\ \A d \in Nat : d % PerBlock = 0 /\ b < d => c <= d
      /\ c <= e
    <2>1. b + n \in Nat /\ b < b + n BY <1>1
    <2>2. /\ e \in Nat /\ b + n <= e /\ e % PerBlock = 0
          /\ \A d \in Nat : d % PerBlock = 0 /\ b + n <= d => e <= d
        BY <2>1, Aligned
    <2>3. /\ c \in Nat /\ b < c /\ c % PerBlock = 0
          /\ \A d \in Nat : d % PerBlock = 0 /\ b < d => c <= d
        BY <1>1, EndOfBlock
    <2> HIDE DEF e, c
    <2> QED BY <1>1, <2>1, <2>2, <2>3
<1>5. \/ \A s \in Addr : b <= s /\ s < e => m[s] = Blank
      \/ b = a /\ a % PerBlock # 0 /\ m = l /\ l[a] = Blank
    <2>1. CASE b # a BY <1>1, <2>1
    <2>2. CASE b = a /\ a % PerBlock = 0 BY <1>1, <1>3, <2>2
    <2>3. CASE b = a /\ a % PerBlock # 0 BY <1>1, <2>3
    <2> QED BY <2>1, <2>2, <2>3
<1>6. \A s \in Addr : s \in Nat BY BoundsAre DEF Addr
<1>7. ASSUME NEW s \in Addr, b <= s, s < c PROVE m[s] = Blank
    <2>1. CASE \A t \in Addr : b <= t /\ t < e => m[t] = Blank
        <3>1. s < e BY <1>4, <1>6, <1>7
        <3> QED BY <1>7, <2>1, <3>1
    <2>2. CASE b = a /\ m = l /\ l[a] = Blank
        <3>1. a \in Addr BY <1>7, <2>2, BoundsAre DEF Addr
        <3> QED BY <1>7, <2>2, <3>1, BlankRest
    <2> QED BY <1>5, <2>1, <2>2
<1>8. ASSUME \A s \in b .. b + n - 1 : m[s] = Blank,
             NEW s \in Addr, b + n <= s, s < e
      PROVE  m[s] = Blank
    <2>1. b <= s BY <1>1, <1>6, <1>8
    <2>2. CASE \A t \in Addr : b <= t /\ t < e => m[t] = Blank
        BY <1>8, <2>1, <2>2
    <2>3. CASE s < c BY <1>7, <2>1, <2>3
    <2>4. CASE c <= s
        <3>1. c < b + n
            <4> SUFFICES ASSUME b + n <= c PROVE FALSE BY <1>4
            <4>1. e <= c BY <1>4
            <4> QED BY <1>4, <1>6, <1>8, <2>4, <4>1
        <3>2. c \in b .. b + n - 1 BY <1>1, <1>4, <3>1
        <3>3. m[c] = Blank BY <1>8, <3>2
        <3>4. c \in Addr BY <1>4, <1>6, <2>4, BoundsAre DEF Addr
        <3>5. /\ BlockEnd(c) \in Nat /\ c < BlockEnd(c) /\ BlockEnd(c) % PerBlock = 0
            BY <1>4, EndOfBlock
        <3>6. BlockEnd(c) = c + PerBlock BY <1>4, StartsApart
        <3>7. e <= BlockEnd(c)
            <4>1. b + n <= BlockEnd(c)
                <5>1. b + n <= c + 1 BY <1>1, <1>4
                <5> HIDE DEF c
                <5> QED BY <5>1, <3>6, <1>1, <1>4, BoundsAre
            <4> QED BY <1>4, <3>5, <4>1
        <3>8. s < BlockEnd(c) BY <1>4, <1>6, <1>8, <3>5, <3>7
        <3> QED BY <1>1, <1>2, <2>4, <3>3, <3>4, <3>8, BlankRest
    <2> QED BY <1>4, <1>6, <2>3, <2>4
<1>9. q.until <= e
    <2>1. CASE q.until = e BY <1>4, <2>1
    <2>2. CASE q.until = p /\ b = a
        <3>1. AlignUp(a) \in Nat /\ AlignUp(a) <= e
            <4>1. a <= e BY <1>4, <1>1, <2>2
            <4> HIDE DEF e
            <4> QED BY <1>4, <4>1, Aligned
        <3> HIDE DEF e
        <3> QED BY <1>4, <2>2, <3>1
    <2> QED BY <1>1, <2>1, <2>2
<1> QED BY <1>1, <1>2, <1>7, <1>8, <1>9 DEF Ready, q, m, b

ShapeInv == ~spoilt => Shape(log) /\ (up => prepared <= AlignUp(writeAddr))

LEMMA PlaceShape ==
    ASSUME TypeInv, ReachInv, ShapeInv, ~spoilt, pc = "append"
    PROVE  LET b == Place.addr
               m == Place.log
               n == NextRecord.len IN
           /\ m \in LogType /\ Shape(m) /\ Grows(log, m, NextRecord)
           /\ b \in Addr
           /\ b = writeAddr \/ (/\ b = BlockEnd(writeAddr)
                                /\ writeAddr % PerBlock # 0 /\ log[writeAddr] # Blank)
           /\ \A s \in Addr : s < b => m[s] = log[s]
           /\ \A s \in Addr : b <= s /\ s < BlockEnd(b) => m[s] = Blank
           /\ b % PerBlock # 0 => m[b - 1] \in Part /\ m[b - 1].part = m[b - 1].len
           /\ (\A s \in b .. b + n - 1 : m[s] = Blank) =>
                \A s \in Addr : b + n <= s /\ s < AlignUp(b + n) => m[s] = Blank
           /\ Place.until <= AlignUp(b + n)
<1> DEFINE n == NextRecord.len
           q == Prepared(log, writeAddr, n, prepared)
<1>1. Place = q BY DEF Place
<1>2. n \in 1 .. 2 BY NextRecordIs
<1>3. log \in LogType /\ writeAddr \in Nat /\ prepared \in Nat
    BY TypeOKIs, BoundsAre DEF TypeInv
<1>4. /\ Shape(log) /\ prepared <= AlignUp(writeAddr) /\ Reached(log, writeAddr)
    BY DEF ShapeInv, ReachInv, TypeInv, Underway
<1> HIDE DEF n
<1> DEFINE b == q.addr
           m == q.log
<1>5. Ready(log, writeAddr, n, q) BY <1>2, <1>3, <1>4, PreparedShape
<1> HIDE DEF q
<1>6. b \in Addr BY <1>1, PlaceIs
<1>7. Grows(log, m, NextRecord) BY <1>3, <1>5, EraseGrows DEF Ready
<1>8. b % PerBlock # 0 => m[b - 1] \in Part /\ m[b - 1].part = m[b - 1].len
    <2> SUFFICES ASSUME b % PerBlock # 0
                 PROVE  m[b - 1] \in Part /\ m[b - 1].part = m[b - 1].len
        OBVIOUS
    <2>1. b = writeAddr BY <1>3, <1>5, EndOfBlock DEF Ready
    <2>2. b - 1 \in Addr /\ b - 1 < b BY <1>6, InBlock
    <2>3. b # 0 BY LogAssumption
    <2>4. log[b - 1] \in Part /\ log[b - 1].part = log[b - 1].len
        BY <1>3, <1>4, <2>1, <2>3, LastPart
    <2> QED BY <1>5, <2>2, <2>4 DEF Ready
<1> QED BY <1>1, <1>5, <1>6, <1>7, <1>8 DEF Ready, n

(* What can be read behind w in its block, r being written behind w: what  *)
(* was there before, or r at w.                                            *)
Behind(l, m, w, r) ==
    \A c \in Addr : w <= c /\ c < AlignUp(w) /\ Whole(m, c) =>
        \/ Whole(l, c) /\ \A s \in Addr : s <= c => m[s] = l[s]
        \/ c = w /\ m[c] = r

(* The block was blank, and r is written at w.                             *)
LEMMA BehindNew ==
    ASSUME NEW l, NEW m \in LogType, NEW w \in Nat, NEW r,
           NEW k, \A s \in Addr : w <= s /\ s < BlockEnd(w) => k[s] = Blank,
           NEW u, u \in CutShort(k, r, w), k \in LogType, r \in Part, r.part = 1,
           \A s \in Addr : s < BlockEnd(w) => m[s] = u[s]
    PROVE  Behind(l, m, w, r)
<1> SUFFICES ASSUME NEW c \in Addr, w <= c, c < AlignUp(w), Whole(m, c)
             PROVE  c = w /\ m[c] = r
    BY DEF Behind
<1>1. c \in Nat /\ BlockEnd(w) \in Nat /\ c < BlockEnd(w) /\ w \in Addr
    <2>1. w < BlockEnd(w) /\ BlockEnd(w) \in Nat BY EndOfBlock
    <2>2. c \in Nat /\ w \in Addr BY BoundsAre DEF Addr
    <2> QED BY <2>1, <2>2 DEF AlignUp
<1>2. k[w] = Blank /\ k[c] = Blank BY <1>1
<1>3. /\ u[w] \in {Blank, Torn, r}
      /\ \A s \in Addr : s < w \/ s > w + 1 => u[s] = k[s]
      /\ w + 1 \in Addr => u[w + 1] \in {k[w + 1], Torn, Second(r)}
    BY <1>1, <1>2, CutShortWrites
<1>4. /\ m[c] = u[c] /\ m[c] \in Part /\ m[c].part = 1
      /\ Blank \notin Part /\ Torn \notin Part
    BY <1>1, WholeFits, LogAssumption
<1>5. c # w + 1
    <2> SUFFICES ASSUME c = w + 1 PROVE FALSE OBVIOUS
    <2>1. m[c] = Second(r) BY <1>2, <1>3, <1>4
    <2>2. Second(r).part = 2 BY DEF Second, Part
    <2> QED BY <1>4, <2>1, <2>2
<1>6. ~(c > w + 1) BY <1>2, <1>3, <1>4
<1>7. c = w BY <1>1, <1>5, <1>6
<1> QED BY <1>3, <1>4, <1>7

(* The block was left as it was, and r is written at the next one.         *)
LEMMA BehindOld ==
    ASSUME NEW l \in LogType, NEW m \in LogType, NEW w \in Nat, NEW r,
           \A s \in Addr : s < BlockEnd(w) => m[s] = l[s],
           \A s \in Addr : s = BlockEnd(w) /\ m[s] \in Part => m[s].part = 1
    PROVE  Behind(l, m, w, r)
<1> SUFFICES ASSUME NEW c \in Addr, w <= c, c < AlignUp(w), Whole(m, c)
             PROVE  Whole(l, c) /\ \A s \in Addr : s <= c => m[s] = l[s]
    BY DEF Behind
<1> DEFINE b == BlockEnd(w)
<1>0. \A s \in Addr : s = b /\ m[s] \in Part => m[s].part = 1 OBVIOUS
<1>1. b \in Nat /\ w < b BY EndOfBlock
<1>2. c \in Nat /\ c < b /\ \A s \in Addr : s \in Nat
    BY <1>1, BoundsAre DEF AlignUp, Addr
<1>3. \A s \in Addr : s <= c => m[s] = l[s] BY <1>1, <1>2
<1>4. m[c] \in Part /\ m[c].len \in 1 .. 2 BY WholeFits
<1>5. ASSUME NEW j \in 2 .. m[c].len
      PROVE  c + j - 1 \in Addr /\ l[c + j - 1] = [m[c] EXCEPT !.part = j]
    <2>1. j = 2 /\ c + j - 1 = c + 1 BY <1>2, <1>4
    <2>2. c + 1 \in Addr /\ m[c + 1] = [m[c] EXCEPT !.part = 2] BY <2>1 DEF Whole
    <2>3. m[c + 1] \in Part /\ m[c + 1].part = 2 BY <1>4, <2>2 DEF Part
    <2>4. c + 1 # b
        <3> SUFFICES ASSUME c + 1 = b PROVE FALSE OBVIOUS
        <3>1. m[c + 1].part = 1 BY <1>0, <2>2, <2>3
        <3> QED BY <2>3, <3>1
    <2>5. c + 1 < b BY <1>1, <1>2, <2>4
    <2> QED BY <2>1, <2>2, <2>5
<1>6. m[c] = l[c] BY <1>2, <1>3
<1>7. Whole(l, c) BY <1>5, <1>6 DEF Whole, Header
<1> QED BY <1>3, <1>7

(* A record that is appended, at the first or at the second attempt.       *)
LEMMA Appending ==
    ASSUME TypeInv, ReachInv, ShapeInv, ~spoilt', AppendRecord \/ RetryRecord
    PROVE  LET r == NextRecord
               w == writeAddr
               m == log' IN
           \E a \in Addr :
            /\ writeAddr' = a + r.len /\ a + r.len <= LogEnd
            /\ a = w \/ (w < a /\ a = BlockEnd(w))
            /\ m \in LogType /\ m[a] = r /\ Whole(m, a)
            /\ Shape(m) /\ Grows(log, m, r)
            /\ \A s \in Addr : s < w => m[s] = log[s]
            /\ \A s \in Addr : a + r.len <= s /\ s < AlignUp(a + r.len) => m[s] = Blank
            /\ a # w => \/ w % PerBlock # 0 /\ log[w] # Blank
                        \/ \A p \in w .. a - 1 : Whole(m, p) => m[p] = r
            /\ Behind(log, m, w, r)
            /\ prepared' <= AlignUp(a + r.len)
            /\ job' = [job EXCEPT !.todo = Tail(@)]
            /\ pc' = IF job.op # "batch" THEN "eraseHead"
                     ELSE IF Tail(job.todo) = << >> THEN "finish" ELSE "append"
            /\ UNCHANGED <<cpTail, ftl, up, nextId, table, ops, begun, acked, covered>>
<1> DEFINE r == NextRecord
           w == writeAddr
           n == r.len
<1>0. pc = "append" /\ ~spoilt /\ w \in Nat /\ log \in LogType /\ up
    <2>1. pc = "append" /\ up BY Writes DEF TypeInv, Underway
    <2>2. PICK l, a, p : Appended(l, a, p) BY Writes
    <2>3. ~spoilt BY <2>2 DEF Appended
    <2> QED BY <2>1, <2>3, TypeOKIs, BoundsAre DEF TypeInv
<1>1. r \in Part /\ r.part = 1 /\ n \in 1 .. 2 BY <1>0, NextRecordIs
<1>2. PICK base \in LogType, a \in Addr, until \in 0 .. LogEnd :
        /\ Appended(base, a, until)
        /\ a = w \/ (w < a /\ a = BlockEnd(w))
        /\ a + n <= LogEnd
        /\ Shape(base) /\ Grows(log, base, r)
        /\ \A s \in Addr : s < w => base[s] = log[s]
        /\ \A s \in Addr : a <= s /\ s < BlockEnd(a) => base[s] = Blank
        /\ a % PerBlock # 0 => base[a - 1] \in Part /\ base[a - 1].part = base[a - 1].len
        /\ (\A s \in a .. a + n - 1 : base[s] = Blank) =>
                \A s \in Addr : a + n <= s /\ s < AlignUp(a + n) => base[s] = Blank
        /\ a # w => \/ w % PerBlock # 0 /\ log[w] # Blank
                    \/ \A p \in w .. a - 1 : Whole(base, p) => base[p] = r
        /\ a = w \/ (a # w /\ \A s \in Addr : s < a => base[s] = log[s])
                 \/ (a # w /\ \E k \in LogType : \E u \in CutShort(k, r, w) :
                        /\ \A s \in Addr : w <= s /\ s < a => k[s] = Blank
                        /\ \A s \in Addr : s < a => base[s] = u[s])
        /\ until <= AlignUp(a + n)
    <2> DEFINE c == Place.addr
    <2>1. /\ Place.log \in LogType /\ Shape(Place.log) /\ Grows(log, Place.log, r)
          /\ c \in Addr
          /\ c = w \/ (c = BlockEnd(w) /\ w % PerBlock # 0 /\ log[w] # Blank)
          /\ \A s \in Addr : s < c => Place.log[s] = log[s]
          /\ \A s \in Addr : c <= s /\ s < BlockEnd(c) => Place.log[s] = Blank
          /\ c % PerBlock # 0 => /\ Place.log[c - 1] \in Part
                                 /\ Place.log[c - 1].part = Place.log[c - 1].len
          /\ (\A s \in c .. c + n - 1 : Place.log[s] = Blank) =>
                \A s \in Addr : c + n <= s /\ s < AlignUp(c + n) => Place.log[s] = Blank
          /\ Place.until <= AlignUp(c + n)
        BY <1>0, PlaceShape
    <2>2. /\ c + n <= LogEnd /\ Place.until \in 0 .. LogEnd
        BY <1>0, PlaceIs
    <2>3. w < BlockEnd(w) /\ BlockEnd(w) \in Nat /\ BlockEnd(w) % PerBlock = 0
        BY <1>0, EndOfBlock
    <2>4. \A s \in Addr : s \in Nat BY BoundsAre DEF Addr
    <2>5. \A s \in Addr : s < w => Place.log[s] = log[s]
        BY <1>0, <2>1, <2>3, <2>4
    <2>6. CASE AppendRecord
        <3>1. Appended(Place.log, c, Place.until) BY <2>6 DEF AppendRecord
        <3>2. c = w \/ (w < c /\ c = BlockEnd(w)) BY <2>1, <2>3
        <3>3. c # w => /\ w % PerBlock # 0 /\ log[w] # Blank
                       /\ \A s \in Addr : s < c => Place.log[s] = log[s]
            BY <2>1
        <3> QED BY <2>1, <2>2, <2>5, <3>1, <3>2, <3>3
    <2>7. CASE RetryRecord
        <3> DEFINE b == BlockEnd(w)
        <3>1. PICK l \in CutShort(Place.log, NextRecord, w) :
                LET again == Prepared(l, b, n, b) IN
                /\ l \in LogType
                /\ b \in Addr /\ b % PerBlock = 0 /\ w < b
                /\ again.addr = b /\ again.log \in LogType
                /\ again.until \in 0 .. LogEnd
                /\ b + n <= LogEnd
                /\ Appended(again.log, b, again.until)
            BY <2>7, AgainIs
        <3>2. c = w BY <2>7 DEF RetryRecord
        <3>3. Place.log[w] = Blank BY <2>1, <2>3, <2>4, <3>2
        <3>4. Shape(l) BY <1>1, <2>1, <3>1, <3>2, WriteShape
        <3>5. Grows(Place.log, l, r) BY <1>1, <2>1, <3>1, <3>2, <3>3, WriteGrows
        <3>6. \A s \in Addr : s < w => l[s] = log[s]
            BY <1>0, <1>1, <2>1, <2>5, <3>1, CutShortSame
        <3> DEFINE again == Prepared(l, b, n, b)
                   m == again.log
        <3> HIDE DEF b
        <3>7. b \in Nat /\ b <= AlignUp(b) BY <2>3, Aligned DEF b
        <3>8. /\ Shape(m)
              /\ \A s \in Addr : m[s] \in {l[s], Blank}
              /\ \A s \in Addr : s < again.addr => m[s] = l[s]
              /\ \A s \in Addr : again.addr <= s /\ s < BlockEnd(again.addr) => m[s] = Blank
              /\ (\A s \in again.addr .. again.addr + n - 1 : m[s] = Blank) =>
                    \A s \in Addr : again.addr + n <= s /\ s < AlignUp(again.addr + n) => m[s] = Blank
              /\ again.until <= AlignUp(again.addr + n)
            <4>1. l \in LogType /\ n \in 1 .. 2 BY <1>1, <3>1
            <4> HIDE DEF n, r
            <4>2. Ready(l, b, n, again) BY <4>1, <3>4, <3>7, PreparedShape
            <4> QED BY <4>2 DEF Ready
        <3> HIDE DEF again
        <3>9. /\ m \in LogType /\ again.addr = b /\ b \in Addr
              /\ b % PerBlock = 0 /\ w < b /\ b + n <= LogEnd
              /\ again.until \in 0 .. LogEnd /\ Appended(m, b, again.until)
            BY <3>1 DEF again
        <3>10. Grows(l, m, r) BY <3>1, <3>8, <3>9, EraseGrows
        <3>11. Grows(Place.log, m, r) BY <3>5, <3>10, GrowsOn
        <3>12. Grows(log, m, r) BY <2>1, <3>11, GrowsOn
        <3>13. \A s \in Addr : s < w => m[s] = log[s]
            BY <1>0, <2>4, <3>6, <3>7, <3>8, <3>9
        <3>14. \A p \in w .. b - 1 : Whole(m, p) => m[p] = r
            <4> TAKE p \in w .. b - 1
            <4> HAVE Whole(m, p)
            <4>1. p \in Addr /\ w <= p /\ p < b
                BY <1>0, <3>7, <3>9, BoundsAre DEF Addr
            <4>2. Place.log[p] = Blank BY <2>1, <3>2, <4>1 DEF b
            <4>3. ~Whole(Place.log, p) BY <4>2 DEF Whole, Header
            <4> QED BY <3>11, <4>1, <4>3 DEF Grows
        <3>15. b = BlockEnd(w) BY DEF b
        <3>16. /\ \A s \in Addr : w <= s /\ s < b => Place.log[s] = Blank
               /\ \A s \in Addr : s < b => m[s] = l[s]
            BY <2>1, <3>2, <3>8, <3>9, <3>15
        <3>17. /\ w # b /\ Place.log \in LogType /\ l \in CutShort(Place.log, r, w)
            BY <1>0, <2>1, <3>1, <3>9 DEF r
        <3> HIDE DEF m
        <3>18. \E k \in LogType : \E u \in CutShort(k, r, w) :
                /\ \A s \in Addr : w <= s /\ s < b => k[s] = Blank
                /\ \A s \in Addr : s < b => m[s] = u[s]
            BY <3>16, <3>17
        <3> QED BY <3>8, <3>9, <3>12, <3>13, <3>14, <3>15, <3>17, <3>18
    <2> QED BY <2>6, <2>7
<1>3. \A s \in a .. a + n - 1 : base[s] = Blank BY <1>2 DEF Appended
<1> DEFINE m == Put(base, r, a, n)
<1>4. log' = m /\ writeAddr' = a + n /\ prepared' = until
      /\ job' = [job EXCEPT !.todo = Tail(@)]
      /\ pc' = (IF job.op # "batch" THEN "eraseHead"
                ELSE IF Tail(job.todo) = << >> THEN "finish" ELSE "append")
      /\ UNCHANGED <<cpTail, ftl, up, nextId, table, ops, begun, acked, covered>>
    BY <1>2 DEF Appended
<1>5. m \in LogType /\ m[a] = r /\ Whole(m, a) BY <1>1, <1>2, <1>3, PutWhole
<1>6. m \in CutShort(base, r, a) BY <1>1 DEF CutShort
<1>7. a \in Nat /\ \A s \in Addr : s \in Nat BY BoundsAre DEF Addr
<1>8. base[a] = Blank BY <1>1, <1>3, <1>7
<1>9. Shape(m) BY <1>1, <1>2, <1>6, WriteShape
<1>10. Grows(base, m, r) BY <1>1, <1>2, <1>6, <1>8, WriteGrows
<1>11. Grows(log, m, r) BY <1>2, <1>10, GrowsOn
<1>12. \A s \in Addr : s < a \/ s >= a + n => m[s] = base[s]
    BY <1>1, <1>2, <1>6, <1>7, CutShortSame
<1> HIDE DEF m, r, w, n
<1>13. \A s \in Addr : s < w => m[s] = log[s]
    <2>1. \A s \in Addr : s < w => s < a BY <1>0, <1>2, <1>7
    <2> QED BY <1>2, <1>12, <2>1
<1>14. \A s \in Addr : a + n <= s /\ s < AlignUp(a + n) => m[s] = Blank
    <2> TAKE s \in Addr
    <2> HAVE a + n <= s /\ s < AlignUp(a + n)
    <2>1. base[s] = Blank BY <1>2, <1>3
    <2>2. s >= a + n BY <1>1, <1>7
    <2> QED BY <1>12, <2>1, <2>2
<1>15. a # w => \/ w % PerBlock # 0 /\ log[w] # Blank
                \/ \A p \in w .. a - 1 : Whole(m, p) => m[p] = r
    <2> SUFFICES ASSUME \A p \in w .. a - 1 : Whole(base, p) => base[p] = r
                 PROVE  \A p \in w .. a - 1 : Whole(m, p) => m[p] = r
        BY <1>2
    <2> TAKE p \in w .. a - 1
    <2> HAVE Whole(m, p)
    <2>1. p \in Addr BY <1>0, <1>7, BoundsAre DEF Addr
    <2> QED BY <1>10, <2>1 DEF Grows
<1>17. Behind(log, m, w, r)
    <2>1. \A s \in Addr : s < a => m[s] = base[s] BY <1>12
    <2>2. CASE a = w
        <3>1. /\ \A s \in Addr : w <= s /\ s < BlockEnd(w) => base[s] = Blank
              /\ m \in CutShort(base, r, w) /\ base \in LogType
            BY <1>2, <1>6, <2>2
        <3>2. r \in Part /\ r.part = 1 BY <1>1
        <3> QED BY <1>0, <1>5, <3>1, <3>2, BehindNew
    <2>3. CASE a # w /\ \A s \in Addr : s < a => base[s] = log[s]
        <3>1. a = BlockEnd(w) BY <1>2, <2>3
        <3>2. \A s \in Addr : s < BlockEnd(w) => m[s] = log[s] BY <2>1, <2>3, <3>1
        <3>3. \A s \in Addr : s = BlockEnd(w) /\ m[s] \in Part => m[s].part = 1
            BY <1>1, <1>5, <3>1
        <3> QED BY <1>0, <1>5, <3>2, <3>3, BehindOld
    <2>4. ASSUME a # w,
                 NEW k \in LogType, NEW u \in CutShort(k, r, w),
                 \A s \in Addr : w <= s /\ s < a => k[s] = Blank,
                 \A s \in Addr : s < a => base[s] = u[s]
          PROVE  Behind(log, m, w, r)
        <3>1. a = BlockEnd(w) BY <1>2, <2>4
        <3>2. /\ \A s \in Addr : w <= s /\ s < BlockEnd(w) => k[s] = Blank
              /\ \A s \in Addr : s < BlockEnd(w) => m[s] = u[s]
            BY <2>1, <2>4, <3>1
        <3>3. r \in Part /\ r.part = 1 BY <1>1
        <3> QED BY <1>0, <1>5, <2>4, <3>2, <3>3, BehindNew
    <2> QED BY <1>2, <2>2, <2>3, <2>4
<1>16. /\ a \in Addr
       /\ writeAddr' = a + n /\ a + n <= LogEnd
       /\ a = w \/ (w < a /\ a = BlockEnd(w))
       /\ prepared' <= AlignUp(a + n)
    BY <1>2, <1>4
<1> QED BY <1>4, <1>5, <1>9, <1>11, <1>13, <1>14, <1>15, <1>16, <1>17 DEF r, w, n

LEMMA PowerCutWrites ==
    ASSUME TypeInv, ReachInv, ShapeInv, ~spoilt, PowerCut
    PROVE  /\ Shape(log')
           /\ \/ log' = log
              \/ /\ pc = "append" /\ Grows(log, log', NextRecord)
                 /\ Behind(log, log', writeAddr, NextRecord)
<1>1. CASE pc # "append"
    <2>1. log' = log BY <1>1 DEF PowerCut
    <2>2. Shape(log) BY DEF ShapeInv
    <2> QED BY <2>1, <2>2
<1>2. CASE pc = "append"
    <2> DEFINE m == Place.log
               a == Place.addr
               r == NextRecord
    <2>1. log' \in CutShort(m, r, a) BY <1>2 DEF PowerCut
    <2>2. /\ m \in LogType /\ Shape(m) /\ Grows(log, m, r) /\ a \in Addr
          /\ \A s \in Addr : a <= s /\ s < BlockEnd(a) => m[s] = Blank
          /\ a % PerBlock # 0 => m[a - 1] \in Part /\ m[a - 1].part = m[a - 1].len
        BY <1>2, PlaceShape
    <2>3. r \in Part /\ r.part = 1 BY <1>2, NextRecordIs
    <2>4. m[a] = Blank
        <3>1. a <= a /\ a < BlockEnd(a) BY <2>2, EndOfBlock, BoundsAre DEF Addr
        <3> QED BY <2>2, <3>1
    <2>5. PICK l \in CutShort(m, r, a) : l = log' BY <2>1
    <2>6. /\ a = writeAddr \/ a = BlockEnd(writeAddr)
          /\ \A s \in Addr : s < a => m[s] = log[s]
        BY <1>2, <2>2, PlaceShape
    <2>7. a \in Nat /\ \A s \in Addr : s \in Nat BY <2>2, BoundsAre DEF Addr
    <2> HIDE DEF m, a, r
    <2>8. Shape(l) BY <2>2, <2>3, <2>5, WriteShape
    <2>9. Grows(m, l, r) BY <2>2, <2>3, <2>4, <2>5, WriteGrows
    <2>10. Grows(log, l, r) BY <2>2, <2>9, GrowsOn
    <2>11. /\ l \in LogType /\ log \in LogType /\ writeAddr \in Nat
        BY <2>2, <2>3, <2>5, <2>7, CutShortIs, TypeOKIs, BoundsAre DEF TypeInv
    <2>12. Behind(log, l, writeAddr, r)
        <3>1. CASE a = writeAddr
            BY <2>2, <2>3, <2>5, <2>11, <3>1, BehindNew
        <3>2. CASE a = BlockEnd(writeAddr)
            <4>1. \A s \in Addr : s < a => l[s] = log[s]
                BY <2>2, <2>3, <2>5, <2>6, <2>7, CutShortSame
            <4>2. l[a] \in Part => l[a].part = 1
                <5>1. l[a] \in {Blank, Torn, r}
                    BY <2>2, <2>3, <2>4, <2>5, CutShortWrites
                <5> QED BY <2>3, <5>1, LogAssumption
            <4> QED BY <2>11, <3>2, <4>1, <4>2, BehindOld
        <3> QED BY <2>6, <3>1, <3>2
    <2> QED BY <1>2, <2>5, <2>8, <2>10, <2>12 DEF r
<1> QED BY <1>1, <1>2

LEMMA NextShape ==
    ASSUME TypeInv, ReachInv, ShapeInv, [Next]_vars
    PROVE  ShapeInv'
<1> SUFFICES ASSUME ~spoilt' PROVE ShapeInv' BY DEF ShapeInv
<1>1. CASE Mount
    <2>1. UNCHANGED <<log, cpTail, ftl, spoilt>> BY <1>1 DEF Mount, flash
    <2> DEFINE b == Bound(cpTail, ftl)
    <2>2. Reached(log, b) /\ log \in LogType
        BY <2>1, BoundReached, TypeOKIs DEF TypeInv
    <2>3. PICK h : h = Replay(log, b).head /\ h \in Nat /\ b <= h /\ b \in Nat
        BY <2>2, MountedAt, TypeOKIs, BoundsAre DEF TypeInv
    <2>4. writeAddr' = Replay(log, b).head /\ prepared' = Max2(b, Replay(log, b).head)
        BY <1>1 DEF Mount
    <2> HIDE DEF b
    <2>5. prepared' = h /\ writeAddr' = h BY <2>3, <2>4 DEF Max2
    <2>6. h <= AlignUp(h) BY <2>3, Aligned
    <2> QED BY <2>1, <2>5, <2>6 DEF ShapeInv
<1>2. CASE AppendRecord \/ RetryRecord
    <2>1. PICK a \in Addr : /\ writeAddr' = a + NextRecord.len
                            /\ Shape(log') /\ prepared' <= AlignUp(a + NextRecord.len)
        BY <1>2, Appending
    <2> QED BY <2>1 DEF ShapeInv
<1>3. CASE PowerCut
    <2>1. spoilt' = spoilt /\ ~up' BY <1>3 DEF PowerCut, Off, history
    <2> QED BY <1>3, <2>1, PowerCutWrites DEF ShapeInv
<1>4. ASSUME UNCHANGED <<log, spoilt>>,
             up' => up /\ writeAddr' = writeAddr /\ prepared' = prepared
      PROVE  ShapeInv'
    BY <1>4 DEF ShapeInv
<1>5. CASE Start
    BY <1>4, <1>5 DEF Start, Write, CommitBatch, Umount, Begin, flash, ram, history
<1>6. CASE EraseHead \/ WriteHead \/ HeadFails
    BY <1>4, <1>6 DEF EraseHead, WriteHead, HeadFails, HeadOnly, ram, history
<1>7. CASE StoreCheckpoint \/ StoreFails
    BY <1>4, <1>7 DEF StoreCheckpoint, StoreFails, history
<1>8. CASE Finish BY <1>4, <1>8 DEF Finish, Off, flash
<1>9. CASE UNCHANGED vars BY <1>4, <1>9 DEF vars, flash, ram, history
<1> QED BY <1>1, <1>2, <1>3, <1>5, <1>6, <1>7, <1>8, <1>9 DEF Next, Step

LEMMA InitShape == Init => ShapeInv
<1> SUFFICES ASSUME Init PROVE ShapeInv OBVIOUS
<1>1. \A s \in Addr : log[s] = Blank BY DEF Init
<1>2. Shape(log) BY <1>1, BlankOrdered DEF Shape
<1> QED BY <1>2 DEF Init, ShapeInv

-----------------------------------------------------------------------------
(* What is found.  The operation under way first.                          *)

JobInv ==
    /\ begun = 0 => nextId = 1
    /\ pc # "idle" /\ job.saved => cpTail = writeAddr
    /\ pc \in {"append", "eraseHead", "writeHead"} /\ job.headStored => job.saved
    /\ pc = "finish" /\ job.headStored /\ ~job.saved => ftl = writeAddr
    /\ pc # "idle" /\ job.op = "umount" => job.files = {}
    /\ pc = "append" =>
        /\ ~job.headStored /\ ~job.saved
        /\ \A i \in 1 .. Len(job.todo) : job.todo[i].ver = ops
        /\ \/ /\ job.op \in {"close", "flush"} /\ Len(job.todo) = 1
              /\ job.todo[1].kind = "DATA" /\ job.todo[1].files = job.files
           \/ /\ job.op = "batch" /\ begun # 0 /\ Len(job.todo) <= 3
              /\ \A i \in 1 .. Len(job.todo) :
                    /\ job.todo[i].id = 1
                    /\ job.todo[i].kind = IF i = Len(job.todo) THEN "BATCH_COMMIT"
                                          ELSE "BATCH_DATA"

(* The table t is found, or a newer one.                                   *)
Covers(t, l, x) == \A f \in File : t[f] <= At(l, x).table[f]

(* A record behind x in its block is not older than what is found at x.    *)
Newer(l, x) ==
    \A p \in Addr : x <= p /\ p < AlignUp(x) /\ Whole(l, p) =>
        \A f \in File : At(l, x).table[f] <= l[p].ver

Versions == \A a \in Addr : log[a] \in Part => log[a].ver <= ops

OneBatch(l) == \A a, b \in Addr :
    l[a] \in Part /\ l[a].kind # "DATA" /\ l[b] \in Part /\ l[b].kind # "DATA"
        => l[a].ver = l[b].ver /\ l[a].id = 1

Batches ==
    /\ OneBatch(log)
    /\ \A a \in Addr : log[a] \in Part /\ log[a].kind # "DATA" =>
        /\ begun # 0
        /\ pc = "append" /\ job.op = "batch" => log[a].ver = ops

Kept ==
    /\ Newer(log, cpTail) /\ Newer(log, ftl)
    /\ Covers(covered, log, cpTail) /\ Covers(covered, log, Bound(cpTail, ftl))
    /\ ftl # 0 => Covers(acked, log, Bound(cpTail, ftl))

Known == up =>
    /\ Newer(log, writeAddr)
    /\ Covers(covered, log, writeAddr) /\ Covers(acked, log, writeAddr)
    /\ Covers(table, log, writeAddr)

(* What operation v wrote of f is found, or waits for the commit.           *)
Done(s, f, v) == s.table[f] >= v \/ \E t \in s.staged : t.ver = v /\ f \in t.files

Written ==
    /\ pc \in {"eraseHead", "writeHead", "finish"} =>
        \A f \in job.files : At(log, writeAddr).table[f] >= ops
    /\ pc = "append" /\ job.op = "batch" =>
        /\ \A f \in job.files :
            \/ \E i \in 1 .. Len(job.todo) - 1 : job.todo[i].files = {f}
            \/ Len(job.todo) < 3 /\ Done(At(log, writeAddr), f, ops)
        /\ Len(job.todo) < 3 => \A s \in Addr :
            writeAddr <= s /\ s < AlignUp(writeAddr) => log[s] = Blank

FoundInv == ~spoilt => Versions /\ Batches /\ Kept /\ Known /\ Written

LEMMA JobStarts ==
    ASSUME MaxBatches <= 1, TypeInv, JobInv, Start
    PROVE  JobInv'
<1>0. begun \in Nat /\ MaxBatches \in Nat /\ ops \in Nat
    BY BoundsAre DEF TypeInv, Counters
<1>1. ASSUME NEW op \in {"close", "flush"}, NEW f \in File, NEW len \in 1 .. 2,
             Write(op, f, len)
      PROVE  JobInv'
    <2> DEFINE r == Record("DATA", {f}, 0, len)
    <2>1. /\ job' = Job(op, {f}, <<r>>) /\ pc' = "append" /\ ops' = ops + 1
          /\ UNCHANGED <<nextId, begun>>
        BY <1>1 DEF Write, Begin
    <2>2. r.ver = ops + 1 /\ r.kind = "DATA" /\ r.files = {f} BY DEF Record
    <2> HIDE DEF r
    <2>3. /\ job'.todo = <<r>> /\ job'.op = op /\ job'.files = {f}
          /\ job'.headStored = FALSE /\ job'.saved = FALSE
        BY <2>1 DEF Job
    <2>4. Len(job'.todo) = 1 /\ job'.todo[1] = r BY <2>3
    <2>5. \A i \in 1 .. Len(job'.todo) : job'.todo[i].ver = ops'
        <3> TAKE i \in 1 .. Len(job'.todo)
        <3>1. i = 1 BY <2>4
        <3> QED BY <2>1, <2>2, <2>4, <3>1
    <2>6. /\ job'.op \in {"close", "flush"}
          /\ job'.todo[1].kind = "DATA" /\ job'.todo[1].files = job'.files
        BY <2>2, <2>3, <2>4
    <2>7. begun' = 0 => nextId' = 1 BY <2>1 DEF JobInv
    <2> QED BY <2>1, <2>3, <2>4, <2>5, <2>6, <2>7 DEF JobInv
<1>2. ASSUME NEW f \in File, NEW g \in File, NEW len \in 1 .. 2,
             CommitBatch(f, g, len)
      PROVE  JobInv'
    <2>1. begun = 0 /\ nextId = 1
        BY <1>0, <1>2 DEF CommitBatch, JobInv
    <2> DEFINE r == Record("BATCH_DATA", {f}, nextId, len)
               s == Record("BATCH_DATA", {g}, nextId, 1)
               t == Record("BATCH_COMMIT", {}, nextId, 1)
    <2>2. /\ job' = Job("batch", {f, g}, <<r, s, t>>) /\ pc' = "append" /\ ops' = ops + 1
          /\ begun' = begun + 1
        BY <1>2 DEF CommitBatch, Begin
    <2>3. /\ r.ver = ops + 1 /\ s.ver = ops + 1 /\ t.ver = ops + 1
          /\ r.id = 1 /\ s.id = 1 /\ t.id = 1
          /\ r.kind = "BATCH_DATA" /\ s.kind = "BATCH_DATA" /\ t.kind = "BATCH_COMMIT"
        BY <2>1 DEF Record
    <2> HIDE DEF r, s, t
    <2>4. /\ job'.todo = <<r, s, t>> /\ job'.op = "batch"
          /\ job'.headStored = FALSE /\ job'.saved = FALSE
        BY <2>2 DEF Job
    <2>5. /\ Len(job'.todo) = 3 /\ job'.todo[1] = r /\ job'.todo[2] = s
          /\ job'.todo[3] = t
        BY <2>4
    <2>6. \A i \in 1 .. Len(job'.todo) :
            /\ job'.todo[i].ver = ops'
            /\ job'.todo[i].id = 1
            /\ job'.todo[i].kind = IF i = Len(job'.todo) THEN "BATCH_COMMIT"
                                   ELSE "BATCH_DATA"
        <3> TAKE i \in 1 .. Len(job'.todo)
        <3>1. i = 1 \/ i = 2 \/ i = 3 BY <2>5
        <3>2. CASE i = 1 BY <2>2, <2>3, <2>5, <3>2
        <3>3. CASE i = 2 BY <2>2, <2>3, <2>5, <3>3
        <3>4. CASE i = 3 BY <2>2, <2>3, <2>5, <3>4
        <3> QED BY <3>1, <3>2, <3>3, <3>4
    <2>7. begun' # 0 BY <1>0, <2>2
    <2>8. Len(job'.todo) <= 3 BY <2>5
    <2> QED BY <2>2, <2>4, <2>6, <2>7, <2>8 DEF JobInv
<1>3. CASE Umount
    <2>1. /\ job'.op = "umount" /\ job'.files = {}
          /\ job'.headStored = FALSE /\ job'.saved = FALSE
          /\ pc' = "eraseHead" /\ UNCHANGED <<nextId, begun>>
        BY <1>3 DEF Umount, Job, ram, bounds
    <2> QED BY <2>1 DEF JobInv
<1> QED BY <1>1, <1>2, <1>3 DEF Start

LEMMA JobAppends ==
    ASSUME TypeInv, JobInv, pc = "append",
           job' = [job EXCEPT !.todo = Tail(@)],
           pc' = (IF job.op # "batch" THEN "eraseHead"
                  ELSE IF Tail(job.todo) = << >> THEN "finish" ELSE "append"),
           UNCHANGED <<nextId, ops, begun>>
    PROVE  JobInv'
<1>0. /\ job'.todo = Tail(job.todo) /\ job'.op = job.op /\ job'.files = job.files
      /\ job'.headStored = FALSE /\ job'.saved = FALSE /\ job.op # "umount"
    BY DEF TypeInv, Counters, JobType, JobInv
<1>1. ASSUME pc' = "append"
      PROVE  /\ job.op = "batch" /\ begun # 0 /\ Len(job'.todo) <= 3
             /\ \A i \in 1 .. Len(job'.todo) :
                /\ job'.todo[i].ver = ops
                /\ job'.todo[i].id = 1
                /\ job'.todo[i].kind = IF i = Len(job'.todo) THEN "BATCH_COMMIT"
                                       ELSE "BATCH_DATA"
    <2>1. job.op = "batch" BY <1>1
    <2> DEFINE todo == job.todo
               rest == Tail(todo)
    <2>2. /\ todo \in Seq(Part) /\ Len(todo) > 0 /\ Len(todo) \in Nat
        BY NextRecordIs DEF TypeInv, Counters, JobType
    <2>3. \A i \in 1 .. Len(todo) :
                /\ todo[i].ver = ops
                /\ todo[i].id = 1
                /\ todo[i].kind = IF i = Len(todo) THEN "BATCH_COMMIT" ELSE "BATCH_DATA"
        BY <2>1 DEF JobInv
    <2> HIDE DEF todo
    <2>4. todo # << >> BY <2>2
    <2>5. Len(rest) = Len(todo) - 1 /\ \A i \in 1 .. Len(rest) : rest[i] = todo[i + 1]
        BY <2>2, <2>4
    <2>6. ASSUME NEW i \in 1 .. Len(rest)
          PROVE  /\ rest[i].ver = ops
                 /\ rest[i].id = 1
                 /\ rest[i].kind = IF i = Len(rest) THEN "BATCH_COMMIT" ELSE "BATCH_DATA"
        <3>1. i + 1 \in 1 .. Len(todo) /\ (i + 1 = Len(todo) <=> i = Len(rest))
            BY <2>2, <2>5
        <3> QED BY <2>3, <2>5, <3>1
    <2>7. begun # 0 /\ Len(todo) <= 3 BY <2>1 DEF JobInv, todo
    <2>8. Len(rest) <= 3 BY <2>2, <2>5, <2>7
    <2> QED BY <1>0, <2>1, <2>6, <2>7, <2>8 DEF todo
<1> QED BY <1>0, <1>1 DEF JobInv

LEMMA NextJob ==
    ASSUME MaxBatches <= 1, OffsetRange = PerBlock, TypeInv, JobInv, [Next]_vars
    PROVE  JobInv'
<1>1. CASE Mount
    <2>1. pc' = "idle" /\ nextId' = 1
        BY <1>1 DEF Mount, TypeInv, Underway
    <2> QED BY <2>1 DEF JobInv
<1>2. CASE Start BY <1>2, JobStarts
<1>3. CASE AppendRecord \/ RetryRecord
    <2>1. pc = "append" BY <1>3, Writes
    <2>2. PICK l, a, p : Appended(l, a, p) BY <1>3, Writes
    <2> QED BY <2>1, <2>2, JobAppends DEF Appended
<1>4. CASE EraseHead
    BY <1>4 DEF EraseHead, HeadOnly, ram, JobInv
<1>5. CASE WriteHead
    <2>1. ftl' = writeAddr BY <1>5, StoredAll DEF WriteHead
    <2>2. /\ job'.headStored = TRUE /\ job'.saved = job.saved /\ job'.op = job.op
          /\ job'.files = job.files
        BY <1>5 DEF WriteHead, TypeInv, Counters, JobType
    <2>3. /\ pc = "writeHead" /\ pc' = "finish"
          /\ UNCHANGED <<cpTail, writeAddr, nextId, begun>>
        BY <1>5 DEF WriteHead, HeadOnly, ram
    <2> QED BY <2>1, <2>2, <2>3 DEF JobInv
<1>6. CASE HeadFails
    <2>1. /\ pc = "eraseHead" /\ pc' = "finish"
          /\ UNCHANGED <<job, cpTail, writeAddr, nextId, begun>>
        BY <1>6 DEF HeadFails, HeadOnly, ram
    <2> QED BY <2>1 DEF JobInv
<1>7. CASE StoreCheckpoint
    <2>1. cpTail' = writeAddr BY <1>7, StoredAll DEF StoreCheckpoint
    <2>2. /\ job'.saved = TRUE /\ job'.op = job.op /\ job'.files = job.files
        BY <1>7 DEF StoreCheckpoint, TypeInv, Counters, JobType
    <2>3. pc = "finish" /\ pc' = "eraseHead" /\ UNCHANGED <<writeAddr, nextId, begun>>
        BY <1>7 DEF StoreCheckpoint, Due, bounds
    <2> QED BY <2>1, <2>2, <2>3 DEF JobInv
<1>8. CASE StoreFails
    BY <1>8 DEF StoreFails, JobInv
<1>9. CASE Finish
    <2>1. pc' = "idle" /\ UNCHANGED begun /\ nextId' \in {1, nextId}
        BY <1>9 DEF Finish, Off, bounds
    <2> QED BY <2>1 DEF JobInv
<1>10. CASE PowerCut
    <2>1. pc' = "idle" /\ nextId' = 1 BY <1>10 DEF PowerCut, Off
    <2> QED BY <2>1 DEF JobInv
<1>11. CASE UNCHANGED vars
    BY <1>11 DEF vars, flash, ram, bounds, JobInv
<1> QED BY <1>1, <1>2, <1>3, <1>4, <1>5, <1>6, <1>7, <1>8, <1>9, <1>10, <1>11
        DEF Next, Step

LEMMA TakeCases ==
    ASSUME NEW s \in Found, NEW r \in Part
    PROVE  LET t == Take(s, r) IN
           /\ t \in Found
           /\ r.kind = "DATA" =>
                /\ t.staged = s.staged
                /\ \A f \in File : t.table[f] = IF f \in r.files THEN r.ver ELSE s.table[f]
           /\ r.kind = "BATCH_DATA" =>
                /\ t.table = s.table /\ r \in t.staged
                /\ t.staged \subseteq s.staged \union {r}
                /\ \A u \in s.staged : u \in t.staged \/ u.files = r.files
           /\ r.kind = "BATCH_COMMIT" =>
                /\ t.staged \subseteq s.staged
                /\ \A f \in File :
                    \/ /\ t.table[f] = s.table[f]
                       /\ ~\E u \in s.staged : u.id = r.id /\ f \in u.files
                    \/ \E u \in s.staged :
                        u.id = r.id /\ f \in u.files /\ t.table[f] = u.ver
           /\ r.kind \in {"DATA", "BATCH_DATA", "BATCH_COMMIT"}
<1>1. Take(s, r) \in Found BY TakeIs
<1>2. CASE r.kind = "DATA"
    <2> DEFINE T == [f \in File |-> IF f \in r.files THEN r.ver ELSE s.table[f]]
    <2>1. Take(s, r) = [s EXCEPT !.table = T] BY <1>2 DEF Take
    <2>2. Take(s, r).table = T /\ Take(s, r).staged = s.staged
        <3> HIDE DEF T
        <3> QED BY <2>1 DEF Found
    <2> QED BY <1>1, <1>2, <2>2
<1>3. CASE r.kind = "BATCH_DATA"
    <2> DEFINE S == {t \in s.staged : t.files # r.files \/ t.id # r.id} \union {r}
    <2>1. Take(s, r) = [s EXCEPT !.staged = S] BY <1>3 DEF Take
    <2>2. Take(s, r).table = s.table /\ Take(s, r).staged = S
        <3> HIDE DEF S
        <3> QED BY <2>1 DEF Found
    <2> QED BY <1>1, <1>3, <2>2
<1>4. CASE r.kind = "BATCH_COMMIT"
    <2> DEFINE Mine == {t \in s.staged : t.id = r.id}
               Wrote(f) == {t.ver : t \in {t \in Mine : f \in t.files}}
               T == [f \in File |-> IF Wrote(f) # {} THEN CHOOSE v \in Wrote(f) : TRUE
                                    ELSE s.table[f]]
    <2>1. Take(s, r) = [s EXCEPT !.staged = @ \ Mine, !.table = T] BY <1>4 DEF Take
    <2>2. Take(s, r).table = T /\ Take(s, r).staged = s.staged \ Mine
        <3> HIDE DEF T, Mine
        <3> QED BY <2>1 DEF Found
    <2>3. ASSUME NEW f \in File
          PROVE  \/ /\ T[f] = s.table[f]
                    /\ ~\E u \in s.staged : u.id = r.id /\ f \in u.files
                 \/ \E u \in s.staged :
                        u.id = r.id /\ f \in u.files /\ T[f] = u.ver
        <3>1. CASE Wrote(f) = {}
            <4>1. T[f] = s.table[f] BY <3>1
            <4>2. ~\E u \in s.staged : u.id = r.id /\ f \in u.files BY <3>1
            <4> QED BY <4>1, <4>2
        <3>2. CASE Wrote(f) # {}
            <4>1. T[f] \in Wrote(f) BY <3>2
            <4> QED BY <4>1
        <3> QED BY <3>1, <3>2
    <2> HIDE DEF T
    <2> QED BY <1>1, <1>4, <2>2, <2>3
<1>5. r.kind \in {"DATA", "BATCH_DATA", "BATCH_COMMIT"} BY DEF Part, Kind
<1> QED BY <1>1, <1>2, <1>3, <1>4, <1>5

(* What a replay has staged are records of the log.                        *)
Waiting(s, l) == \A t \in s.staged : t.kind = "BATCH_DATA" /\ \E a \in Addr : l[a] = t

LEMMA WaitingOn ==
    ASSUME NEW l \in LogType, NEW s \in Found, NEW a \in Addr, Whole(l, a), Waiting(s, l)
    PROVE  Waiting(Take(s, l[a]), l)
<1>1. l[a] \in Part BY WholeFits
<1>2. CASE l[a].kind = "BATCH_DATA"
    <2>1. Take(s, l[a]).staged \subseteq s.staged \union {l[a]} BY <1>1, <1>2, TakeCases
    <2> QED BY <1>2, <2>1 DEF Waiting
<1>3. CASE l[a].kind # "BATCH_DATA"
    <2>1. Take(s, l[a]).staged \subseteq s.staged BY <1>1, <1>3, TakeCases
    <2> QED BY <2>1 DEF Waiting
<1> QED BY <1>2, <1>3

(* Nothing that is found is newer than the log.                            *)
LEMMA FoundByTurn ==
    ASSUME NEW l \in LogType, NEW v \in Nat,
           \A a \in Addr : l[a] \in Part => l[a].ver <= v
    PROVE  /\ \A n \in 0 .. LogEnd : /\ Waiting(Turns(l, 0)[n], l)
                                     /\ \A f \in File : Turns(l, 0)[n].table[f] <= v
           /\ \A x : Reached(l, x) => /\ Waiting(At(l, x), l)
                                      /\ \A f \in File : At(l, x).table[f] <= v
<1> DEFINE G == {s \in Found : Waiting(s, l) /\ \A f \in File : s.table[f] <= v}
<1>1. First(0) \in G
    <2>1. First(0) \in Found BY FirstIs, BoundsAre
    <2>2. First(0).staged = {} /\ First(0).table = NoFiles BY DEF First
    <2>3. \A f \in File : First(0).table[f] = 0 BY <2>2 DEF NoFiles
    <2> QED BY <2>1, <2>2, <2>3 DEF Waiting
<1>2. ASSUME NEW s \in G, s.at \in Addr
      PROVE  Scan(l, s) \in G
    <2>1. s \in Found /\ Scan(l, s) \in Found BY <1>2, ScanIs
    <2>2. CASE ~Whole(l, s.at)
        <3>1. Scan(l, s).table = s.table /\ Scan(l, s).staged = s.staged
            BY <1>2, <2>1, <2>2, ScanIs
        <3> QED BY <2>1, <3>1 DEF Waiting
    <2>3. CASE Whole(l, s.at)
        <3> DEFINE r == l[s.at]
                   t == Take(s, r)
        <3>1. Scan(l, s).table = t.table /\ Scan(l, s).staged = t.staged
            BY <1>2, <2>1, <2>3, ScanIs
        <3>2. Waiting(t, l) BY <1>2, <2>1, <2>3, WaitingOn
        <3>3. r \in Part /\ r.ver <= v BY <1>2, <2>3, WholeFits
        <3>4. ASSUME NEW f \in File
              PROVE  t.table[f] <= v
            <4>1. \A u \in s.staged : u.ver <= v
                <5> TAKE u \in s.staged
                <5>1. PICK a \in Addr : l[a] = u BY DEF Waiting
                <5>2. u \in Part BY <2>1 DEF Found
                <5> QED BY <5>1, <5>2
            <4>2. s.table[f] <= v OBVIOUS
            <4> HIDE DEF r, G
            <4> QED BY <2>1, <3>3, <4>1, <4>2, TakeCases
        <3>5. Waiting(Scan(l, s), l) BY <3>1, <3>2 DEF Waiting
        <3> HIDE DEF t
        <3> QED BY <2>1, <3>1, <3>4, <3>5
    <2> QED BY <2>2, <2>3
<1>3. /\ \A n \in 0 .. LogEnd : Turns(l, 0)[n] \in G
      /\ \A x : Reached(l, x) => At(l, x) \in G
    <2> HIDE DEF G
    <2>1. \A s \in G : s.at \in Addr => Scan(l, s) \in G BY <1>2
    <2>2. G \in SUBSET Found BY DEF G
    <2> QED BY <1>1, <2>1, <2>2, AllTurns
<1> QED BY <1>3

LEMMA FoundIn ==
    ASSUME NEW l \in LogType, NEW v \in Nat,
           \A a \in Addr : l[a] \in Part => l[a].ver <= v,
           NEW x, Reached(l, x)
    PROVE  /\ \A f \in File : At(l, x).table[f] <= v
           /\ Waiting(At(l, x), l)
BY FoundByTurn

(* A record that is not older than the table T leaves a replay with a      *)
(* table not older than T; one of operation v keeps what v has done, and   *)
(* the commit puts it into the table.                                      *)
LEMMA TakeKeeps ==
    ASSUME NEW l \in LogType, OneBatch(l), NEW s \in Found, Waiting(s, l),
           NEW a \in Addr, Whole(l, a), NEW T \in [File -> 0 .. MaxOps],
           \A f \in File : T[f] <= s.table[f], \A f \in File : T[f] <= l[a].ver
    PROVE  \A f \in File : T[f] <= Take(s, l[a]).table[f]
<1> DEFINE r == l[a]
           t == Take(s, r)
<1>1. r \in Part BY WholeFits
<1>2. CASE r.kind = "DATA"
    <2> HIDE DEF r
    <2>1. \A f \in File : t.table[f] = IF f \in r.files THEN r.ver ELSE s.table[f]
        BY <1>1, <1>2, TakeCases
    <2> HIDE DEF t
    <2> QED BY <2>1 DEF r, t
<1>3. CASE r.kind = "BATCH_DATA"
    <2>1. t.table = s.table BY <1>1, <1>3, TakeCases
    <2> QED BY <2>1
<1>4. CASE r.kind = "BATCH_COMMIT"
    <2>1. ASSUME NEW u \in s.staged PROVE u.ver = r.ver
        <3>1. PICK b \in Addr : l[b] = u /\ u.kind = "BATCH_DATA" BY DEF Waiting
        <3>2. u \in Part BY DEF Found
        <3> QED BY <1>1, <1>4, <3>1, <3>2 DEF OneBatch
    <2> HIDE DEF r
    <2>2. \A f \in File :
            \/ /\ t.table[f] = s.table[f]
               /\ ~\E u \in s.staged : u.id = r.id /\ f \in u.files
            \/ \E u \in s.staged :
                u.id = r.id /\ f \in u.files /\ t.table[f] = u.ver
        BY <1>1, <1>4, TakeCases, ZenonT(30)
    <2> HIDE DEF t
    <2>3. \A f \in File : t.table[f] = r.ver \/ t.table[f] = s.table[f]
        BY <2>1, <2>2
    <2> QED BY <2>3 DEF r, t
<1>5. r.kind \in {"DATA", "BATCH_DATA", "BATCH_COMMIT"} BY <1>1 DEF Part, Kind
<1> QED BY <1>2, <1>3, <1>4, <1>5

LEMMA TakeDone ==
    ASSUME NEW l \in LogType, OneBatch(l), NEW s \in Found, Waiting(s, l),
           NEW a \in Addr, Whole(l, a), NEW f \in File
    PROVE  LET r == l[a]
               t == Take(s, r) IN
           /\ r.kind = "DATA" /\ f \in r.files => t.table[f] = r.ver
           /\ r.kind = "BATCH_DATA" /\ (f \in r.files \/ Done(s, f, r.ver))
                => Done(t, f, r.ver)
           /\ r.kind = "BATCH_COMMIT" /\ Done(s, f, r.ver) => t.table[f] >= r.ver
<1> DEFINE r == l[a]
           t == Take(s, r)
<1>1. r \in Part /\ r.ver \in Nat
    <2>1. r \in Part BY WholeFits
    <2> QED BY <2>1, BoundsAre DEF Part
<1>2. r.kind = "DATA" /\ f \in r.files => t.table[f] = r.ver
    <2> HIDE DEF r
    <2> QED BY <1>1, TakeCases
<1>3. ASSUME r.kind = "BATCH_DATA", f \in r.files \/ Done(s, f, r.ver)
      PROVE  Done(t, f, r.ver)
    <2>1. /\ t.table = s.table /\ r \in t.staged
          /\ \A u \in s.staged : u \in t.staged \/ u.files = r.files
        BY <1>1, <1>3, TakeCases
    <2>2. CASE f \in r.files BY <2>1, <2>2 DEF Done
    <2>3. CASE s.table[f] >= r.ver BY <2>1, <2>3 DEF Done
    <2>4. CASE \E u \in s.staged : u.ver = r.ver /\ f \in u.files
        <3>1. PICK u \in s.staged : u.ver = r.ver /\ f \in u.files BY <2>4
        <3>2. CASE u \in t.staged BY <3>1, <3>2 DEF Done
        <3>3. CASE u.files = r.files BY <2>2, <3>1, <3>3
        <3> QED BY <2>1, <3>2, <3>3
    <2> QED BY <1>3, <2>2, <2>3, <2>4 DEF Done
<1>4. ASSUME r.kind = "BATCH_COMMIT", Done(s, f, r.ver)
      PROVE  t.table[f] >= r.ver
    <2>1. ASSUME NEW u \in s.staged PROVE u.ver = r.ver /\ u.id = r.id
        <3>1. PICK b \in Addr : l[b] = u /\ u.kind = "BATCH_DATA" BY DEF Waiting
        <3>2. u \in Part BY DEF Found
        <3> QED BY <1>1, <1>4, <3>1, <3>2 DEF OneBatch
    <2>2. \/ /\ t.table[f] = s.table[f]
             /\ ~\E u \in s.staged : u.id = r.id /\ f \in u.files
          \/ \E u \in s.staged : t.table[f] = u.ver
        BY <1>1, <1>4, TakeCases
    <2>3. CASE \E u \in s.staged : t.table[f] = u.ver BY <1>1, <2>1, <2>3
    <2>4. CASE /\ t.table[f] = s.table[f]
               /\ ~\E u \in s.staged : u.id = r.id /\ f \in u.files
        <3>1. s.table[f] >= r.ver BY <1>4, <2>1, <2>4 DEF Done
        <3> QED BY <2>4, <3>1
    <2> QED BY <2>2, <2>3, <2>4
<1> QED BY <1>2, <1>3, <1>4

(* At the turn s, the records of the files D are there still.              *)
LEMMA StillDone ==
    ASSUME NEW m \in LogType, OneBatch(m), NEW s \in Found, Waiting(s, m),
           s.at \in Addr, NEW r \in Part, NEW D \in SUBSET File,
           Whole(m, s.at) /\ D # {} => m[s.at] = r,
           D # {} => r.kind # "DATA", \A f \in D : Done(s, f, r.ver)
    PROVE  \A f \in D : Done(Scan(m, s), f, r.ver)
<1> SUFFICES ASSUME NEW f \in D PROVE Done(Scan(m, s), f, r.ver) OBVIOUS
<1> DEFINE t == Take(s, r)
<1>1. D # {} /\ f \in File OBVIOUS
<1>2. CASE ~Whole(m, s.at)
    <2>1. Scan(m, s).table = s.table /\ Scan(m, s).staged = s.staged
        BY <1>2, ScanIs
    <2> QED BY <2>1 DEF Done
<1>3. CASE Whole(m, s.at)
    <2>1. m[s.at] = r BY <1>1, <1>3
    <2>2. Scan(m, s).table = t.table /\ Scan(m, s).staged = t.staged
        BY <1>3, <2>1, ScanIs
    <2>3. r.kind \in {"BATCH_DATA", "BATCH_COMMIT"} BY <1>1 DEF Part, Kind
    <2>4. /\ r.kind = "BATCH_DATA" => Done(t, f, r.ver)
          /\ r.kind = "BATCH_COMMIT" => t.table[f] >= r.ver
        BY <1>1, <1>3, <2>1, TakeDone
    <2> HIDE DEF t
    <2> QED BY <2>2, <2>3, <2>4 DEF Done
<1> QED BY <1>2, <1>3

(* What a replay finds behind a record r that is appended at a, the head   *)
(* being w: nothing older than before, and what r brings.  What it reads   *)
(* between w and a are leftovers that are not older, or copies of r.       *)
(* The log l has become m: the head was w, r was appended at a.            *)
AppendedAt(l, m, w, a, r) ==
    /\ Reached(l, w) /\ \A s \in Addr : s < w => m[s] = l[s]
    /\ a = w \/ (w < a /\ a = BlockEnd(w))
    /\ Whole(m, a) /\ m[a] = r /\ Grows(l, m, r) /\ OneBatch(m) /\ Newer(l, w)
    /\ \A p \in Addr : m[p] \in Part => m[p].ver <= r.ver
    /\ a # w => \/ w % PerBlock # 0 /\ l[w] # Blank
                \/ \A p \in w .. a - 1 : Whole(m, p) => m[p] = r
(* Of the files D, all of them of the batch of r, the records are there.   *)
WaitFor(D, l, w, r) ==
    /\ \A f \in D : Done(At(l, w), f, r.ver)
    /\ D # {} => r.kind # "DATA" /\ (w % PerBlock # 0 => l[w] = Blank)

LEMMA AppendFinds ==
    ASSUME NEW l \in LogType, NEW m \in LogType, NEW w, NEW a \in Addr, NEW r,
           AppendedAt(l, m, w, a, r), NEW D \in SUBSET File, WaitFor(D, l, w, r)
    PROVE  LET t == At(m, a + r.len) IN
           /\ Reached(m, a + r.len) /\ t \in Found
           /\ \A f \in File : At(l, w).table[f] <= t.table[f]
           /\ r.kind = "DATA" => \A f \in File \intersect r.files : t.table[f] = r.ver
           /\ r.kind = "BATCH_DATA" => \A f \in D \union (File \intersect r.files) : Done(t, f, r.ver)
           /\ r.kind = "BATCH_COMMIT" => \A f \in D : t.table[f] >= r.ver
<1> USE DEF AppendedAt, WaitFor
<1> DEFINE T == At(l, w).table
           G == {s \in Found : /\ Waiting(s, m) /\ \A f \in File : T[f] <= s.table[f]
                               /\ \A f \in D : Done(s, f, r.ver)}
<1>1. r \in Part /\ r.ver \in Nat /\ r.ver \in 0 .. MaxOps
    <2>1. r \in Part BY WholeFits
    <2> QED BY <2>1, BoundsAre DEF Part
<1>2. At(l, w) \in Found /\ w \in 0 .. LogEnd BY AtIs
<1>3. T \in [File -> 0 .. MaxOps] BY <1>2 DEF Found
<1>4. /\ At(m, w) = At(l, w) /\ Reached(m, w)
    BY PathSame
<1>5. /\ \A f \in File : At(m, w).table[f] <= r.ver
      /\ Waiting(At(m, w), m)
    BY <1>1, <1>4, FoundIn
<1>6. At(l, w) \in G
    <2>1. \A f \in File : T[f] <= T[f] BY <1>3
    <2> QED BY <1>2, <1>4, <1>5, <2>1
<1>7. ASSUME a # w, NEW s \in G, s.at \in w .. a - 1
      PROVE  Scan(m, s) \in G
    <2>1. a \in Nat /\ a < LogEnd /\ w \in Nat BY <1>2, BoundsAre DEF Addr
    <2>2. s.at \in Addr /\ w \in Addr /\ w <= s.at /\ s.at < a
        BY <1>7, <2>1, BoundsAre DEF Addr
    <2>3. s \in Found /\ Scan(m, s) \in Found BY <2>2, ScanIs
    <2>4. \A f \in D : Done(Scan(m, s), f, r.ver)
        <3>1. s \in Found /\ Waiting(s, m) /\ \A f \in D : Done(s, f, r.ver) OBVIOUS
        <3>2. Whole(m, s.at) /\ D # {} => m[s.at] = r BY <1>7, <2>2
        <3>3. D # {} => r.kind # "DATA" OBVIOUS
        <3> QED BY <1>1, <2>2, <3>1, <3>2, <3>3, StillDone
    <2>5. CASE ~Whole(m, s.at)
        <3>1. Scan(m, s).table = s.table /\ Scan(m, s).staged = s.staged
            BY <2>2, <2>3, <2>5, ScanIs
        <3> QED BY <2>3, <2>4, <3>1 DEF Waiting
    <2>6. CASE Whole(m, s.at)
        <3> DEFINE q == m[s.at]
                   t == Take(s, q)
        <3>1. Scan(m, s).table = t.table /\ Scan(m, s).staged = t.staged
            BY <2>2, <2>3, <2>6, ScanIs
        <3>2. Waiting(t, m) BY <2>2, <2>3, <2>6, WaitingOn
        <3>3. \A f \in File : T[f] <= q.ver
            <4>1. CASE q = r BY <1>4, <1>5, <4>1
            <4>2. CASE q # r
                <5>1. Whole(l, s.at) /\ q = l[s.at] BY <2>2, <2>6, <4>2 DEF Grows
                <5>2. w % PerBlock # 0 BY <1>7, <2>6, <4>2
                <5>3. AlignUp(w) = a BY <1>7, <5>2 DEF AlignUp
                <5> QED BY <2>2, <5>1, <5>3 DEF Newer
            <4> QED BY <4>1, <4>2
        <3>4. \A f \in File : T[f] <= t.table[f]
            BY <1>3, <2>2, <2>3, <2>6, <3>3, TakeKeeps
        <3> HIDE DEF q, t
        <3>5. Waiting(Scan(m, s), m) BY <3>1, <3>2 DEF Waiting
        <3> QED BY <2>3, <2>4, <3>1, <3>4, <3>5
    <2> QED BY <2>5, <2>6
<1>8. /\ Reached(m, a + m[a].len)
      /\ \E s \in G : s.at = a /\ At(m, a + m[a].len) = Scan(m, s)
    <2>1. G \in SUBSET Found OBVIOUS
    <2> HIDE DEF G
    <2> QED BY <1>6, <1>7, <2>1, AppendReached
<1>9. PICK s \in G : s.at = a /\ At(m, a + r.len) = Scan(m, s) BY <1>8
<1> DEFINE t == Take(s, r)
<1>10. /\ s \in Found /\ Scan(m, s) \in Found
       /\ Scan(m, s).table = t.table /\ Scan(m, s).staged = t.staged
    BY <1>9, ScanIs
<1>11. \A f \in File : T[f] <= t.table[f]
    <2>1. \A f \in File : T[f] <= r.ver BY <1>4, <1>5
    <2>2. \A f \in File : T[f] <= Take(s, m[a]).table[f]
        BY <1>3, <1>10, <2>1, TakeKeeps
    <2> QED BY <2>2
<1>12. ASSUME NEW f \in File
       PROVE  /\ r.kind = "DATA" /\ f \in r.files => t.table[f] = r.ver
              /\ r.kind = "BATCH_DATA" /\ (f \in r.files \/ Done(s, f, r.ver))
                    => Done(t, f, r.ver)
              /\ r.kind = "BATCH_COMMIT" /\ Done(s, f, r.ver) => t.table[f] >= r.ver
    BY <1>10, TakeDone
<1>13. \A f \in D : Done(s, f, r.ver) BY <1>9
<1> HIDE DEF t, T, G
<1>14. \A f \in File : Done(t, f, r.ver) => Done(Scan(m, s), f, r.ver)
    BY <1>10 DEF Done
<1>15. Reached(m, a + r.len) BY <1>8
<1>16. \A f \in File : T[f] <= At(m, a + r.len).table[f] BY <1>9, <1>10, <1>11
<1>17. r.kind = "DATA" => \A f \in File \intersect r.files : At(m, a + r.len).table[f] = r.ver
    BY <1>9, <1>10, <1>12, ZenonT(30)
<1>18. r.kind = "BATCH_DATA" =>
        \A f \in D \union (File \intersect r.files) : Done(At(m, a + r.len), f, r.ver)
    BY <1>9, <1>12, <1>13, <1>14
<1>19. r.kind = "BATCH_COMMIT" => \A f \in D : At(m, a + r.len).table[f] >= r.ver
    BY <1>9, <1>10, <1>12, <1>13
<1> QED BY <1>9, <1>10, <1>15, <1>16, <1>17, <1>18, <1>19 DEF T

(* What is in the flash behind x, and what is found at x, when r is        *)
(* written behind x.                                                       *)
LEMMA NewerOn ==
    ASSUME NEW l \in LogType, NEW m \in LogType, NEW x, Reached(l, x),
           \A s \in Addr : s < x => m[s] = l[s],
           NEW r \in Part, Grows(l, m, r), Newer(l, x),
           \A p \in Addr : l[p] \in Part => l[p].ver <= r.ver
    PROVE  Newer(m, x) /\ At(m, x) = At(l, x)
<1>1. At(m, x) = At(l, x) BY PathSame
<1>2. r.ver \in Nat BY BoundsAre DEF Part
<1>3. \A f \in File : At(l, x).table[f] <= r.ver BY <1>2, FoundIn
<1>4. ASSUME NEW p \in Addr, x <= p, p < AlignUp(x), Whole(m, p), NEW f \in File
      PROVE  At(m, x).table[f] <= m[p].ver
    <2>1. CASE m[p] = r BY <1>1, <1>3, <2>1
    <2>2. CASE Whole(l, p) /\ m[p] = l[p] BY <1>1, <1>4, <2>2 DEF Newer
    <2> QED BY <1>4, <2>1, <2>2 DEF Grows
<1> QED BY <1>1, <1>4 DEF Newer

LEMMA VersionsOn ==
    ASSUME NEW l \in LogType, NEW m \in LogType, NEW r \in Part, Grows(l, m, r),
           NEW a \in Addr, m[a] \in Part
    PROVE  (l[a] \in Part /\ m[a] = l[a]) \/ m[a] \in {r, Second(r)}
<1>1. m[a] \in {l[a], Blank, Torn, r, Second(r)} BY DEF Grows
<1>2. m[a] # Blank /\ m[a] # Torn BY LogAssumption
<1> QED BY <1>1, <1>2

LEMMA SecondIs ==
    ASSUME NEW r \in Part
    PROVE  /\ Second(r).ver = r.ver /\ Second(r).kind = r.kind /\ Second(r).id = r.id
           /\ Second(r).part = 2 /\ Second(r).len = r.len /\ Second(r).files = r.files
           /\ Second(r) \in Part
BY DEF Second, Part

(* What an append, cut short or not, leaves in the log.                    *)
LEMMA RecordsOn ==
    ASSUME TypeInv, JobInv, pc = "append", Versions, Batches,
           NEW m \in LogType, Grows(log, m, NextRecord)
    PROVE  /\ \A a \in Addr : m[a] \in Part => m[a].ver <= ops
           /\ OneBatch(m)
           /\ \A a \in Addr : m[a] \in Part /\ m[a].kind # "DATA" =>
                begun # 0 /\ (job.op = "batch" => m[a].ver = ops)
<1> DEFINE r == NextRecord
<1>1. r \in Part BY NextRecordIs
<1>2. r = job.todo[1] /\ 1 \in 1 .. Len(job.todo)
    <2>1. job.todo \in Seq(Part) /\ Len(job.todo) \in Nat /\ Len(job.todo) > 0
        BY NextRecordIs DEF TypeInv, Counters, JobType
    <2> QED BY <2>1 DEF NextRecord
<1>3. r.ver = ops BY <1>2 DEF JobInv
<1>4. r.kind # "DATA" => job.op = "batch" /\ r.id = 1 /\ begun # 0
    BY <1>2 DEF JobInv
<1>5. log \in LogType /\ ops \in Nat BY TypeOKIs, BoundsAre DEF TypeInv, Counters
<1> HIDE DEF r
<1>6. ASSUME NEW a \in Addr, m[a] \in Part
      PROVE  \/ log[a] \in Part /\ m[a] = log[a]
             \/ m[a].ver = ops /\ m[a].kind = r.kind /\ m[a].id = r.id
    <2>1. (log[a] \in Part /\ m[a] = log[a]) \/ m[a] \in {r, Second(r)}
        BY <1>1, <1>5, <1>6, VersionsOn DEF r
    <2>2. CASE m[a] = r BY <1>3, <2>2
    <2>3. CASE m[a] = Second(r) BY <1>1, <1>3, <2>3, SecondIs
    <2> QED BY <2>1, <2>2, <2>3
<1>7. \A a \in Addr : m[a] \in Part => m[a].ver <= ops
    BY <1>5, <1>6 DEF Versions
<1>8. ASSUME NEW a \in Addr, m[a] \in Part, m[a].kind # "DATA"
      PROVE  begun # 0 /\ (job.op = "batch" => m[a].ver = ops) /\ m[a].id = 1
    <2>1. CASE log[a] \in Part /\ m[a] = log[a]
        BY <1>8, <2>1 DEF Batches, OneBatch
    <2>2. CASE m[a].ver = ops /\ m[a].kind = r.kind /\ m[a].id = r.id
        BY <1>4, <1>8, <2>2
    <2> QED BY <1>6, <1>8, <2>1, <2>2
<1>9. ASSUME NEW a \in Addr, m[a] \in Part, m[a].kind # "DATA",
             NEW b \in Addr, m[b] \in Part, m[b].kind # "DATA"
      PROVE  m[a].ver = m[b].ver
    <2>1. CASE job.op = "batch" BY <1>8, <1>9, <2>1
    <2>2. CASE job.op # "batch"
        <3>1. r.kind = "DATA" BY <1>4, <2>2
        <3>2. log[a] \in Part /\ m[a] = log[a] BY <1>6, <1>9, <3>1
        <3>3. log[b] \in Part /\ m[b] = log[b] BY <1>6, <1>9, <3>1
        <3> QED BY <1>9, <3>2, <3>3 DEF Batches, OneBatch
    <2> QED BY <2>1, <2>2
<1>10. OneBatch(m) BY <1>8, <1>9 DEF OneBatch
<1> QED BY <1>7, <1>8, <1>10

LEMMA KeptOn ==
    ASSUME TypeInv, ReachInv, ~spoilt, Versions, Kept, up,
           NEW m \in LogType, NEW r \in Part, Grows(log, m, r), r.ver = ops,
           \A s \in Addr : s < writeAddr => m[s] = log[s]
    PROVE  /\ Newer(m, cpTail) /\ Newer(m, ftl)
           /\ Covers(covered, m, cpTail) /\ Covers(covered, m, Bound(cpTail, ftl))
           /\ ftl # 0 => Covers(acked, m, Bound(cpTail, ftl))
<1>1. /\ log \in LogType /\ cpTail \in Nat /\ ftl \in Nat /\ writeAddr \in Nat
      /\ ops \in Nat
    BY TypeOKIs, BoundsAre DEF TypeInv, Counters
<1>2. /\ Reached(log, cpTail) /\ Reached(log, ftl)
      /\ cpTail <= writeAddr /\ ftl <= writeAddr
    BY DEF ReachInv
<1>3. Bound(cpTail, ftl) \in {cpTail, ftl} BY <1>1, BoundIs
<1>4. ASSUME NEW x \in {cpTail, ftl}
      PROVE  Newer(m, x) /\ At(m, x) = At(log, x)
    <2>1. \A s \in Addr : s < x => m[s] = log[s]
        <3>1. \A s \in Addr : s \in Nat BY BoundsAre DEF Addr
        <3> QED BY <1>1, <1>2, <3>1
    <2>2. Reached(log, x) /\ Newer(log, x) BY <1>2 DEF Kept
    <2>3. \A p \in Addr : log[p] \in Part => log[p].ver <= r.ver BY DEF Versions
    <2> QED BY <1>1, <2>1, <2>2, <2>3, NewerOn
<1>5. At(m, Bound(cpTail, ftl)) = At(log, Bound(cpTail, ftl)) BY <1>3, <1>4
<1>6. At(m, cpTail) = At(log, cpTail) BY <1>4
<1>7. Newer(m, cpTail) /\ Newer(m, ftl) BY <1>4
<1> QED BY <1>5, <1>6, <1>7 DEF Kept, Covers

LEMMA PowerCutFound ==
    ASSUME TypeInv, ReachInv, ShapeInv, JobInv, FoundInv, PowerCut
    PROVE  FoundInv'
<1> SUFFICES ASSUME ~spoilt' PROVE FoundInv' BY DEF FoundInv
<1>1. /\ ~spoilt /\ pc' = "idle" /\ ~up' /\ up
      /\ UNCHANGED <<cpTail, ftl, ops, begun, covered, acked>>
    BY DEF PowerCut, Off, history
<1>2. Versions /\ Batches /\ Kept BY <1>1 DEF FoundInv
<1>3. PICK m : m = log' OBVIOUS
<1>4. m \in LogType
    <2>1. TypeInv' BY NextType DEF Next
    <2> QED BY <1>3, <2>1 DEF TypeInv, TypeOK, LogType
<1>5. \A s \in Addr : s < writeAddr => m[s] = log[s] BY <1>3, PowerCutSame
<1>6. CASE m = log
    <2>1. log' = log BY <1>3, <1>6
    <2>2. Versions' BY <1>1, <1>2, <2>1 DEF Versions
    <2>3. Batches' BY <1>1, <1>2, <2>1 DEF Batches
    <2>4. Kept' BY <1>1, <1>2, <2>1 DEF Kept
    <2>5. Known' BY <1>1 DEF Known
    <2>6. Written' BY <1>1 DEF Written
    <2> QED BY <2>2, <2>3, <2>4, <2>5, <2>6 DEF FoundInv
<1>7. CASE pc = "append" /\ Grows(log, m, NextRecord)
    <2>1. NextRecord \in Part /\ NextRecord.ver = ops
        <3>1. job.todo \in Seq(Part) /\ Len(job.todo) \in Nat /\ Len(job.todo) > 0
            BY <1>7, NextRecordIs DEF TypeInv, Counters, JobType
        <3>2. NextRecord = job.todo[1] /\ 1 \in 1 .. Len(job.todo)
            BY <3>1 DEF NextRecord
        <3>3. NextRecord.ver = ops BY <1>7, <3>2 DEF JobInv
        <3> QED BY <1>7, <3>3, NextRecordIs
    <2>2. /\ \A a \in Addr : m[a] \in Part => m[a].ver <= ops
          /\ OneBatch(m)
          /\ \A a \in Addr : m[a] \in Part /\ m[a].kind # "DATA" => begun # 0
        BY <1>2, <1>4, <1>7, RecordsOn
    <2>3. /\ Newer(m, cpTail) /\ Newer(m, ftl)
          /\ Covers(covered, m, cpTail) /\ Covers(covered, m, Bound(cpTail, ftl))
          /\ ftl # 0 => Covers(acked, m, Bound(cpTail, ftl))
        BY <1>1, <1>2, <1>4, <1>5, <1>7, <2>1, KeptOn
    <2>4. Versions' BY <1>1, <1>3, <2>2 DEF Versions
    <2>5. Batches' BY <1>1, <1>3, <2>2 DEF Batches
    <2>6. Kept' BY <1>1, <1>3, <2>3 DEF Kept
    <2>7. Known' BY <1>1 DEF Known
    <2>8. Written' BY <1>1 DEF Written
    <2> QED BY <2>4, <2>5, <2>6, <2>7, <2>8 DEF FoundInv
<1> QED BY <1>1, <1>3, <1>6, <1>7, PowerCutWrites

(* The next record of the operation, and what it leaves to be appended.    *)
LEMMA NextOfJob ==
    ASSUME TypeInv, JobInv, pc = "append"
    PROVE  LET r == NextRecord
               n == Len(job.todo)
               rest == Tail(job.todo) IN
           /\ r \in Part /\ r.ver = ops
           /\ n \in Nat \ {0} /\ Len(rest) = n - 1 /\ r = job.todo[1]
           /\ \A i \in 1 .. n - 1 : rest[i] = job.todo[i + 1]
           /\ n = 1 <=> rest = << >>
           /\ job.op # "batch" => r.kind = "DATA" /\ r.files = job.files
           /\ job.op = "batch" =>
                n <= 3 /\ r.kind = IF n = 1 THEN "BATCH_COMMIT" ELSE "BATCH_DATA"
<1> DEFINE n == Len(job.todo)
           rest == Tail(job.todo)
<1>1. job.todo \in Seq(Part) /\ n \in Nat /\ n > 0 /\ NextRecord \in Part
    BY NextRecordIs DEF TypeInv, Counters, JobType
<1>2. NextRecord = job.todo[1] /\ 1 \in 1 .. n BY <1>1 DEF NextRecord
<1>3. /\ Len(rest) = n - 1
      /\ \A i \in 1 .. n - 1 : rest[i] = job.todo[i + 1]
      /\ n = 1 <=> rest = << >>
    <2> DEFINE todo == job.todo
    <2>1. todo \in Seq(Part) /\ todo # << >> BY <1>1
    <2> HIDE DEF todo
    <2>2. /\ Tail(todo) \in Seq(Part) /\ Len(Tail(todo)) = Len(todo) - 1
          /\ \A i \in 1 .. Len(todo) - 1 : Tail(todo)[i] = todo[i + 1]
        BY <2>1
    <2>3. Len(todo) = 1 <=> Tail(todo) = << >> BY <2>1, <2>2
    <2> QED BY <2>2, <2>3 DEF todo
<1>4. NextRecord.ver = ops BY <1>2 DEF JobInv
<1>5. job.op # "batch" => NextRecord.kind = "DATA" /\ NextRecord.files = job.files
    BY <1>2 DEF JobInv
<1>6. job.op = "batch" =>
        n <= 3 /\ NextRecord.kind = IF n = 1 THEN "BATCH_COMMIT" ELSE "BATCH_DATA"
    BY <1>2 DEF JobInv
<1> QED BY <1>1, <1>2, <1>3, <1>4, <1>5, <1>6

LEMMA AppendFound ==
    ASSUME TypeInv, ReachInv, ShapeInv, JobInv, FoundInv, AppendRecord \/ RetryRecord
    PROVE  FoundInv'
<1> SUFFICES ASSUME ~spoilt' PROVE FoundInv' BY DEF FoundInv
<1> DEFINE r == NextRecord
           w == writeAddr
           n == Len(job.todo)
           rest == Tail(job.todo)
           D == IF job.op = "batch" /\ n < 3
                THEN {f \in job.files : Done(At(log, w), f, ops)} ELSE {}
<1>0. pc = "append" /\ ~spoilt /\ w \in Nat /\ log \in LogType /\ up /\ ops \in Nat
    <2>1. pc = "append" /\ up BY Writes DEF TypeInv, Underway
    <2>2. PICK l, a, p : Appended(l, a, p) BY Writes
    <2>3. ~spoilt BY <2>2 DEF Appended
    <2> QED BY <2>1, <2>3, TypeOKIs, BoundsAre DEF TypeInv, Counters
<1>1. Versions /\ Batches /\ Kept /\ Known /\ Written BY <1>0 DEF FoundInv
<1>2. /\ r \in Part /\ r.ver = ops
      /\ n \in Nat \ {0} /\ Len(rest) = n - 1 /\ r = job.todo[1]
      /\ \A i \in 1 .. n - 1 : rest[i] = job.todo[i + 1]
      /\ n = 1 <=> rest = << >>
      /\ job.op # "batch" => r.kind = "DATA" /\ r.files = job.files
      /\ job.op = "batch" =>
            n <= 3 /\ r.kind = IF n = 1 THEN "BATCH_COMMIT" ELSE "BATCH_DATA"
    BY <1>0, NextOfJob
<1>3. job.files \in SUBSET File BY DEF TypeInv, Counters, JobType
<1> HIDE DEF n, rest
<1>4. PICK m : m = log' OBVIOUS
<1>5. PICK a \in Addr :
        /\ writeAddr' = a + r.len /\ a + r.len <= LogEnd
        /\ a = w \/ (w < a /\ a = BlockEnd(w))
        /\ m \in LogType /\ m[a] = r /\ Whole(m, a)
        /\ Shape(m) /\ Grows(log, m, r)
        /\ \A s \in Addr : s < w => m[s] = log[s]
        /\ \A s \in Addr : a + r.len <= s /\ s < AlignUp(a + r.len) => m[s] = Blank
        /\ a # w => \/ w % PerBlock # 0 /\ log[w] # Blank
                    \/ \A p \in w .. a - 1 : Whole(m, p) => m[p] = r
        /\ job' = [job EXCEPT !.todo = Tail(@)]
        /\ pc' = IF job.op # "batch" THEN "eraseHead"
                 ELSE IF Tail(job.todo) = << >> THEN "finish" ELSE "append"
        /\ UNCHANGED <<cpTail, ftl, up, table, ops, begun, acked, covered>>
    BY <1>4, Appending
<1>6. Reached(log, w) BY <1>0 DEF ReachInv
<1>7. /\ \A p \in Addr : m[p] \in Part => m[p].ver <= r.ver
      /\ OneBatch(m)
      /\ \A p \in Addr : m[p] \in Part /\ m[p].kind # "DATA" =>
            begun # 0 /\ (job.op = "batch" => m[p].ver = ops)
    <2>1. Grows(log, m, NextRecord) BY <1>5
    <2>2. /\ \A p \in Addr : m[p] \in Part => m[p].ver <= ops
          /\ OneBatch(m)
          /\ \A p \in Addr : m[p] \in Part /\ m[p].kind # "DATA" =>
                begun # 0 /\ (job.op = "batch" => m[p].ver = ops)
        BY <1>0, <1>1, <1>5, <2>1, RecordsOn
    <2> QED BY <1>2, <2>2
<1> HIDE DEF r, w
<1> DEFINE x == a + r.len
           t == At(m, x)
<1>8. D \in SUBSET File /\ \A f \in D : Done(At(log, w), f, r.ver) BY <1>2, <1>3
<1>9. D # {} => r.kind # "DATA" /\ (w % PerBlock # 0 => log[w] = Blank)
    <2> SUFFICES ASSUME D # {}
                 PROVE  r.kind # "DATA" /\ (w % PerBlock # 0 => log[w] = Blank)
        OBVIOUS
    <2>1. job.op = "batch" /\ n < 3 OBVIOUS
    <2>2. r.kind # "DATA" BY <1>2, <2>1
    <2>3. ASSUME w % PerBlock # 0 PROVE log[w] = Blank
        <3>1. w \in Addr
            <4>1. a \in Nat /\ a < LogEnd /\ LogEnd \in Nat BY BoundsAre DEF Addr
            <4>2. w <= a BY <1>0, <1>5, <4>1
            <4> QED BY <1>0, <4>1, <4>2 DEF Addr
        <3>2. AlignUp(w) = BlockEnd(w) /\ w < BlockEnd(w)
            BY <1>0, <2>3, EndOfBlock DEF AlignUp
        <3>3. \A s \in Addr : w <= s /\ s < AlignUp(w) => log[s] = Blank
            BY <1>0, <1>1, <2>1 DEF Written, n, w
        <3> QED BY <1>0, <3>1, <3>2, <3>3
    <2> QED BY <2>2, <2>3
<1>10. Newer(log, w) BY <1>0, <1>1 DEF Known, w
<1> HIDE DEF D
<1>11. /\ Reached(m, x) /\ t \in Found
       /\ \A f \in File : At(log, w).table[f] <= t.table[f]
       /\ r.kind = "DATA" => \A f \in File \intersect r.files : t.table[f] = r.ver
       /\ r.kind = "BATCH_DATA" => \A f \in D \union (File \intersect r.files) : Done(t, f, r.ver)
       /\ r.kind = "BATCH_COMMIT" => \A f \in D : t.table[f] >= r.ver
    <2>1. AppendedAt(log, m, w, a, r)
        BY <1>0, <1>5, <1>6, <1>7, <1>10 DEF AppendedAt
    <2>2. D \in SUBSET File /\ WaitFor(D, log, w, r) BY <1>8, <1>9 DEF WaitFor
    <2>3. log \in LogType /\ m \in LogType /\ a \in Addr BY <1>0, <1>5
    <2> QED BY <2>1, <2>2, <2>3, AppendFinds
<1>12. Versions' BY <1>2, <1>4, <1>5, <1>7 DEF Versions
<1>13. Batches'
    <2>1. job'.op = job.op BY <1>5 DEF TypeInv, Counters, JobType
    <2> QED BY <1>4, <1>5, <1>7, <2>1 DEF Batches
<1>14. Kept'
    <2>1. /\ Newer(m, cpTail) /\ Newer(m, ftl)
          /\ Covers(covered, m, cpTail) /\ Covers(covered, m, Bound(cpTail, ftl))
          /\ ftl # 0 => Covers(acked, m, Bound(cpTail, ftl))
        BY <1>0, <1>1, <1>2, <1>5, KeptOn DEF w
    <2> QED BY <1>4, <1>5, <2>1 DEF Kept
<1>15. writeAddr' = x BY <1>5
<1> HIDE DEF x, t
<1>16. Known'
    <2>1. Newer(m, x)
        <3>1. \A p \in Addr : x <= p /\ p < AlignUp(x) => ~Whole(m, p)
            BY <1>5 DEF x, Whole, Header
        <3> QED BY <3>1 DEF Newer
    <2>2. \A f \in File : /\ At(log, w).table[f] \in Nat /\ t.table[f] \in Nat
                          /\ acked[f] \in Nat /\ covered[f] \in Nat /\ table[f] \in Nat
        <3>1. At(log, w) \in Found BY <1>0, <1>6, AtIs
        <3>2. /\ At(log, w).table \in [File -> 0 .. MaxOps]
              /\ t.table \in [File -> 0 .. MaxOps]
            BY <1>11, <3>1 DEF Found
        <3>3. /\ acked \in [File -> 0 .. MaxOps] /\ covered \in [File -> 0 .. MaxOps]
              /\ table \in [File -> 0 .. MaxOps]
            BY DEF TypeInv, TypeOK, Counters
        <3> QED BY <3>2, <3>3, BoundsAre
    <2>3. Covers(covered, log, w) /\ Covers(acked, log, w) /\ Covers(table, log, w)
        BY <1>0, <1>1 DEF Known, w
    <2>4. Covers(covered, m, x) /\ Covers(acked, m, x) /\ Covers(table, m, x)
        BY <1>11, <2>2, <2>3 DEF Covers, t
    <2> QED BY <1>4, <1>5, <1>15, <2>1, <2>4 DEF Known
<1>17. /\ job'.todo = rest /\ job'.op = job.op /\ job'.files = job.files
    BY <1>5 DEF TypeInv, Counters, JobType, rest
<1>18. \A f \in job.files : f \in File BY <1>3
<1>19. CASE job.op # "batch"
    <2>1. pc' = "eraseHead" BY <1>5, <1>19
    <2>2. \A f \in job.files : t.table[f] = ops BY <1>2, <1>11, <1>18, <1>19
    <2>3. \A f \in job.files : t.table[f] >= ops BY <1>0, <2>2
    <2>4. Written' BY <1>4, <1>5, <1>15, <1>17, <2>1, <2>3 DEF Written, t
    <2> QED BY <1>12, <1>13, <1>14, <1>16, <2>4 DEF FoundInv
<1>20. CASE job.op = "batch" /\ n = 1
    <2>1. pc' = "finish" BY <1>2, <1>5, <1>20 DEF rest
    <2>2. job.files \subseteq D
        <3>1. ASSUME NEW f \in job.files PROVE Done(At(log, w), f, ops)
            <4>1. ~\E i \in 1 .. n - 1 : TRUE BY <1>20
            <4> QED BY <1>0, <1>1, <1>20, <4>1 DEF Written, n, w
        <3> QED BY <1>20, <3>1 DEF D
    <2>3. \A f \in job.files : t.table[f] >= ops BY <1>2, <1>11, <1>20, <2>2
    <2>4. Written' BY <1>4, <1>5, <1>15, <1>17, <2>1, <2>3 DEF Written, t
    <2> QED BY <1>12, <1>13, <1>14, <1>16, <2>4 DEF FoundInv
<1>21. CASE job.op = "batch" /\ n # 1
    <2>1. pc' = "append" BY <1>2, <1>5, <1>21 DEF rest
    <2>2. r.kind = "BATCH_DATA" /\ Len(rest) < 3 BY <1>2, <1>21
    <2>3. ASSUME NEW f \in job.files
          PROVE  \/ \E i \in 1 .. Len(rest) - 1 : rest[i].files = {f}
                 \/ Done(t, f, ops)
        <3>1. \/ \E i \in 1 .. n - 1 : job.todo[i].files = {f}
              \/ n < 3 /\ Done(At(log, w), f, ops)
            BY <1>0, <1>1, <1>21 DEF Written, n, w
        <3>2. CASE n < 3 /\ Done(At(log, w), f, ops)
            <4>1. f \in D BY <1>21, <3>2 DEF D
            <4> QED BY <1>2, <1>11, <2>2, <4>1
        <3>3. ASSUME NEW i \in 1 .. n - 1, job.todo[i].files = {f}
              PROVE  \/ \E j \in 1 .. Len(rest) - 1 : rest[j].files = {f}
                     \/ Done(t, f, ops)
            <4>1. CASE i = 1
                <5>1. f \in File \intersect r.files BY <1>2, <1>18, <3>3, <4>1
                <5> QED BY <1>2, <1>11, <2>2, <5>1
            <4>2. CASE i # 1
                <5>1. /\ i - 1 \in 1 .. Len(rest) - 1 /\ i - 1 \in 1 .. n - 1
                      /\ (i - 1) + 1 = i
                    BY <1>2, <4>2
                <5>2. rest[i - 1] = job.todo[i] BY <1>2, <5>1
                <5> QED BY <3>3, <5>1, <5>2
            <4> QED BY <4>1, <4>2
        <3> QED BY <3>1, <3>2, <3>3
    <2>4. \A s \in Addr : x <= s /\ s < AlignUp(x) => m[s] = Blank BY <1>5 DEF x
    <2>5. Written'
        BY <1>4, <1>5, <1>15, <1>17, <2>1, <2>2, <2>3, <2>4 DEF Written, t
    <2> QED BY <1>12, <1>13, <1>14, <1>16, <2>5 DEF FoundInv
<1> QED BY <1>19, <1>20, <1>21

(* Where a replay of the whole log ends nothing is left to be read in the  *)
(* block.                                                                  *)
LEMMA NothingWhole ==
    ASSUME NEW l \in LogType, Shape(l), NEW x \in Addr, x % PerBlock # 0,
           l[x - 1] \in Part, l[x - 1].part = l[x - 1].len, ~Whole(l, x),
           NEW p \in Addr, x <= p, p < BlockEnd(x)
    PROVE  ~Whole(l, p)
<1>0. x \in Nat /\ p \in Nat /\ x - 1 \in Nat BY InBlock, BoundsAre DEF Addr
<1>1. SUFFICES ASSUME x # p PROVE ~Whole(l, p) OBVIOUS
<1>2. /\ x + 1 \in Addr /\ (x + 1) % PerBlock # 0 /\ x + 1 <= p
      /\ BlockEnd(x + 1) = BlockEnd(x)
    <2>1. x + 1 <= p /\ x + 1 < BlockEnd(x) BY <1>0, <1>1, EndOfBlock
    <2>2. x + 1 \in Addr BY <1>0, <2>1, BoundsAre DEF Addr
    <2> QED BY <1>0, <2>1, <2>2, SameBlock
<1>3. Ordered(l, x + 1) /\ Ordered(l, x) BY <1>2 DEF Shape
<1>4. ASSUME l[x + 1] = Blank PROVE ~Whole(l, p)
    <2>1. l[p] = Blank BY <1>2, <1>4, BlankRest
    <2> QED BY <2>1 DEF Whole, Header
<1>5. (x + 1) - 1 = x BY <1>0
<1>6. CASE l[x] = Blank BY <1>3, <1>4, <1>5, <1>6 DEF Ordered
<1>7. CASE l[x] = Torn BY <1>3, <1>4, <1>5, <1>7 DEF Ordered
<1>8. CASE l[x] \notin {Blank, Torn}
    <2>1. l[x] \in Part BY <1>8, PartIs
    <2>2. l[x].part = 1 BY <1>3, <1>8 DEF Ordered
    <2>3. Header(l, x) BY <1>8, <2>2 DEF Header
    <2>4. l[x].len \in 1 .. 2 BY <2>1 DEF Part
    <2>5. l[x].len = 2
        <3>1. CASE l[x].len = 1
            <4>1. 2 .. l[x].len = {} BY <3>1
            <4> QED BY <2>3, <4>1 DEF Whole
        <3> QED BY <2>4, <3>1
    <2>6. l[x + 1] \in {[l[x] EXCEPT !.part = 2], Torn, Blank}
        BY <1>3, <1>5, <2>1, <2>2, <2>5 DEF Ordered
    <2>7. l[x + 1] # [l[x] EXCEPT !.part = 2]
        <3>1. SUFFICES ASSUME l[x + 1] = [l[x] EXCEPT !.part = 2] PROVE Whole(l, x)
            OBVIOUS
        <3>2. ASSUME NEW j \in 2 .. l[x].len
              PROVE  x + j - 1 \in Addr /\ l[x + j - 1] = [l[x] EXCEPT !.part = j]
            <4>1. j = 2 /\ x + j - 1 = x + 1 BY <1>0, <2>5
            <4> QED BY <1>2, <3>1, <4>1
        <3> QED BY <2>3, <3>2 DEF Whole
    <2>8. CASE l[x + 1] = Blank BY <1>4, <2>8
    <2>9. CASE l[x + 1] = Torn
        <3>1. ~Whole(l, x + 1) BY <2>9 DEF Whole, Header
        <3>2. CASE p = x + 1 BY <3>1, <3>2
        <3>3. CASE p # x + 1
            <4>1. x + 2 <= p /\ x + 2 < BlockEnd(x) BY <1>0, <1>2, <3>3, EndOfBlock
            <4>2. x + 2 \in Addr BY <1>0, <4>1, BoundsAre DEF Addr
            <4>3. (x + 2) % PerBlock # 0 /\ BlockEnd(x + 2) = BlockEnd(x)
                BY <1>0, <4>1, SameBlock
            <4>4. Ordered(l, x + 2) BY <4>2, <4>3 DEF Shape
            <4>5. (x + 2) - 1 = x + 1 BY <1>0
            <4>6. l[x + 2] = Blank BY <1>2, <2>9, <4>4, <4>5 DEF Ordered
            <4>7. l[p] = Blank BY <4>1, <4>2, <4>3, <4>6, BlankRest
            <4> QED BY <4>7 DEF Whole, Header
        <3> QED BY <3>2, <3>3
    <2> QED BY <2>6, <2>7, <2>8, <2>9
<1> QED BY <1>6, <1>7, <1>8

LEMMA NothingBehind ==
    ASSUME NEW l \in LogType, Shape(l), NEW x, Reached(l, x),
           x \in Addr => ~Whole(l, x),
           NEW p \in Addr, x <= p, p < AlignUp(x)
    PROVE  ~Whole(l, p)
<1>1. x \in 0 .. LogEnd /\ x \in Nat BY AtIs, BoundsAre
<1>2. x \in Addr /\ p \in Nat BY <1>1, BoundsAre DEF Addr
<1>3. x % PerBlock # 0 /\ AlignUp(x) = BlockEnd(x)
    BY <1>1, <1>2 DEF AlignUp
<1>4. x # 0 BY <1>3, LogAssumption
<1>5. l[x - 1] \in Part /\ l[x - 1].part = l[x - 1].len BY <1>4, LastPart
<1> QED BY <1>2, <1>3, <1>5, NothingWhole

LEMMA NewerAtEnd ==
    ASSUME NEW l \in LogType, Shape(l), NEW x, Reached(l, x),
           x \in Addr => ~Whole(l, x)
    PROVE  Newer(l, x)
BY NothingBehind DEF Newer

LEMMA CoversNothing ==
    ASSUME NEW l \in LogType, NEW x, Reached(l, x)
    PROVE  Covers(NoFiles, l, x)
<1>1. At(l, x) \in Found BY AtIs
<1>2. \A f \in File : At(l, x).table[f] \in Nat BY <1>1, BoundsAre DEF Found
<1>3. \A f \in File : NoFiles[f] = 0 BY DEF NoFiles
<1>4. ASSUME NEW f \in File PROVE NoFiles[f] <= At(l, x).table[f]
    <2>1. At(l, x).table[f] \in Nat BY <1>2
    <2>2. 0 <= At(l, x).table[f] BY <2>1
    <2> QED BY <1>3, <2>2
<1> QED BY <1>4 DEF Covers

LEMMA NewerAtStart ==
    ASSUME NEW l \in LogType PROVE Newer(l, 0)
<1>1. AlignUp(0) = 0 BY LogAssumption DEF AlignUp
<1>2. \A p \in Addr : ~(0 <= p /\ p < 0) BY BoundsAre DEF Addr
<1> QED BY <1>1, <1>2 DEF Newer

LEMMA InitFound == Init => JobInv /\ FoundInv
<1> SUFFICES ASSUME Init PROVE JobInv /\ FoundInv OBVIOUS
<1>1. /\ cpTail = 0 /\ ftl = 0 /\ covered = NoFiles /\ ~up /\ pc = "idle"
      /\ begun = 0 /\ nextId = 1
    BY DEF Init
<1>2. \A a \in Addr : log[a] = Blank BY DEF Init
<1>3. \A a \in Addr : log[a] \notin Part BY <1>2, LogAssumption
<1>4. log \in LogType
    <2>1. TypeInv BY InitType
    <2> QED BY <2>1, TypeOKIs DEF TypeInv
<1>5. Versions BY <1>3 DEF Versions
<1>6. Batches BY <1>3 DEF Batches, OneBatch
<1>7. Bound(cpTail, ftl) = 0 BY <1>1 DEF Bound, Max2
<1>8. Newer(log, 0) /\ Covers(NoFiles, log, 0)
    BY <1>4, NewerAtStart, ReachedStart, CoversNothing
<1>9. Kept BY <1>1, <1>7, <1>8 DEF Kept
<1>10. Known /\ Written BY <1>1 DEF Known, Written
<1>11. JobInv BY <1>1 DEF JobInv
<1> QED BY <1>5, <1>6, <1>9, <1>10, <1>11 DEF FoundInv

LEMMA MountFound ==
    ASSUME TypeInv, ReachInv, ShapeInv, FoundInv, Mount
    PROVE  FoundInv'
<1> SUFFICES ASSUME ~spoilt' PROVE FoundInv' BY DEF FoundInv
<1> DEFINE b == Bound(cpTail, ftl)
           found == Replay(log, b)
           kept == [f \in File |-> Min2(acked[f], found.table[f])]
<1>1. /\ ~spoilt /\ ~up /\ pc = "idle" /\ pc' = "idle"
      /\ UNCHANGED <<log, cpTail, ftl, ops, begun, covered>>
      /\ writeAddr' = found.head /\ table' = found.table /\ acked' = kept
    BY DEF Mount, flash, bounds, TypeInv, Underway
<1>2. Versions /\ Batches /\ Kept BY <1>1 DEF FoundInv
<1>3. log \in LogType /\ b \in 0 .. LogEnd BY TypeOKIs DEF TypeInv
<1>4. Reached(log, b) BY <1>1, BoundReached
<1> HIDE DEF b
<1> DEFINE h == found.head
<1>5. /\ found \in Found /\ Reached(log, h) /\ At(log, h).table = found.table
      /\ b # 0 => h = b
      /\ b = 0 /\ h \in Addr => ~Whole(log, h)
    BY <1>3, <1>4, MountedAt
<1>6. Newer(log, h)
    <2>1. CASE b = 0
        <3>1. Shape(log) BY <1>1 DEF ShapeInv
        <3> QED BY <1>3, <1>5, <2>1, <3>1, NewerAtEnd
    <2>2. CASE b # 0
        <3>1. b = cpTail \/ b = ftl BY BoundIs DEF b, Bound, Max2
        <3> QED BY <1>2, <1>5, <2>2, <3>1 DEF Kept
    <2> QED BY <2>1, <2>2
<1> HIDE DEF h, found
<1>7. found.table \in [File -> 0 .. MaxOps] BY <1>5 DEF Found
<1>8. \A f \in File : /\ found.table[f] \in Nat /\ acked[f] \in Nat
                      /\ covered[f] \in Nat
    BY <1>7, BoundsAre DEF TypeInv, Counters
<1>9. Covers(covered, log, h)
    <2>1. CASE b = 0
        <3>1. At(log, 0).table = NoFiles BY <1>3, ReachedStart
        <3>2. Covers(covered, log, 0) BY <1>2, <2>1 DEF Kept, b
        <3>3. \A f \in File : covered[f] <= 0 BY <3>1, <3>2 DEF Covers, NoFiles
        <3> QED BY <1>5, <1>8, <3>3 DEF Covers
    <2>2. CASE b # 0 BY <1>2, <1>5, <2>2 DEF Kept, b
    <2> QED BY <2>1, <2>2
<1>10. \A f \in File : kept[f] <= found.table[f] /\ kept[f] <= acked[f]
    BY <1>8 DEF Min2
<1>11. Covers(kept, log, h) /\ Covers(found.table, log, h)
    BY <1>5, <1>8, <1>10 DEF Covers
<1>12. ftl # 0 => Covers(kept, log, b)
    <2> SUFFICES ASSUME ftl # 0 PROVE Covers(kept, log, b) OBVIOUS
    <2>1. b # 0 BY TypeOKIs, BoundIs, BoundsAre DEF b, Bound, Max2, TypeInv, TypeOK
    <2> QED BY <1>5, <1>11, <2>1
<1>13. Versions' /\ Batches' BY <1>1, <1>2 DEF Versions, Batches
<1>14. Kept' BY <1>1, <1>2, <1>12 DEF Kept, b
<1>15. Known' BY <1>1, <1>6, <1>9, <1>11 DEF Known, h
<1>16. Written' BY <1>1 DEF Written
<1> QED BY <1>13, <1>14, <1>15, <1>16 DEF FoundInv

LEMMA StartFound ==
    ASSUME MaxBatches <= 1, TypeInv, FoundInv, Start
    PROVE  FoundInv'
<1> SUFFICES ASSUME ~spoilt' PROVE FoundInv' BY DEF FoundInv
<1>0. begun \in Nat /\ MaxBatches \in Nat /\ ops \in Nat /\ log \in LogType
    BY BoundsAre, TypeOKIs DEF TypeInv, Counters
<1>1. /\ ~spoilt
      /\ UNCHANGED <<log, cpTail, ftl, up, writeAddr, table, covered, acked>>
    <2> DEFINE P == /\ ~spoilt
                    /\ UNCHANGED <<log, cpTail, ftl, up, writeAddr, table, covered, acked>>
    <2>1. ASSUME NEW op \in {"close", "flush"}, NEW f \in File, NEW len \in 1 .. 2,
                 Write(op, f, len)
          PROVE  P
        BY <2>1 DEF Write, Begin, flash
    <2>2. ASSUME NEW f \in File, NEW g \in File, NEW len \in 1 .. 2,
                 CommitBatch(f, g, len)
          PROVE  P
        BY <2>2 DEF CommitBatch, Begin, flash
    <2>3. ASSUME Umount PROVE P BY <2>3 DEF Umount, flash, ram, history
    <2> HIDE DEF P
    <2>4. P BY <2>1, <2>2, <2>3 DEF Start
    <2> QED BY <2>4 DEF P
<1>2. Versions /\ Batches /\ Kept /\ Known BY <1>1 DEF FoundInv
<1>3. Kept' BY <1>1, <1>2 DEF Kept
<1>4. Known' BY <1>1, <1>2 DEF Known
<1>5. ASSUME ops' = ops + 1 PROVE Versions'
    <2>1. \A a \in Addr : log[a] \in Part => log[a].ver \in Nat
        BY BoundsAre DEF Part
    <2> QED BY <1>0, <1>1, <1>2, <1>5, <2>1 DEF Versions
<1>6. ASSUME NEW op \in {"close", "flush"}, NEW f \in File, NEW len \in 1 .. 2,
             Write(op, f, len)
      PROVE  FoundInv'
    <2>1. /\ ops' = ops + 1 /\ begun' = begun /\ pc' = "append" /\ job'.op # "batch"
        BY <1>6 DEF Write, Begin, Job
    <2>2. Batches' BY <1>1, <1>2, <2>1 DEF Batches
    <2>3. Written' BY <2>1 DEF Written
    <2> QED BY <1>3, <1>4, <1>5, <2>1, <2>2, <2>3 DEF FoundInv
<1>7. ASSUME NEW f \in File, NEW g \in File, NEW len \in 1 .. 2,
             CommitBatch(f, g, len)
      PROVE  FoundInv'
    <2> DEFINE r == Record("BATCH_DATA", {f}, nextId, len)
               s == Record("BATCH_DATA", {g}, nextId, 1)
               t == Record("BATCH_COMMIT", {}, nextId, 1)
    <2>1. /\ job' = Job("batch", {f, g}, <<r, s, t>>) /\ pc' = "append"
          /\ ops' = ops + 1 /\ begun < MaxBatches
        BY <1>7 DEF CommitBatch, Begin
    <2>2. r.files = {f} /\ s.files = {g} BY DEF Record
    <2> HIDE DEF r, s, t
    <2>3. job'.todo = <<r, s, t>> /\ job'.files = {f, g} BY <2>1 DEF Job
    <2>4. Len(job'.todo) = 3 /\ job'.todo[1] = r /\ job'.todo[2] = s BY <2>3
    <2>5. begun = 0 BY <1>0, <2>1
    <2>6. \A a \in Addr : log[a] \in Part => log[a].kind = "DATA"
        BY <1>2, <2>5 DEF Batches
    <2>7. Batches' BY <1>1, <2>6 DEF Batches, OneBatch
    <2>8. \A e \in job'.files :
            \E i \in 1 .. Len(job'.todo) - 1 : job'.todo[i].files = {e}
        <3>1. 1 \in 1 .. Len(job'.todo) - 1 /\ 2 \in 1 .. Len(job'.todo) - 1 BY <2>4
        <3> QED BY <2>2, <2>3, <2>4, <3>1
    <2>9. ~(Len(job'.todo) < 3) BY <2>4
    <2>10. Written' BY <2>1, <2>8, <2>9 DEF Written
    <2> QED BY <1>3, <1>4, <1>5, <2>1, <2>7, <2>10 DEF FoundInv
<1>8. CASE Umount
    <2>1. /\ pc' = "eraseHead" /\ job'.files = {}
          /\ ops' = ops /\ begun' = begun
        BY <1>8 DEF Umount, Job, bounds
    <2>2. Versions' BY <1>1, <1>2, <2>1 DEF Versions
    <2>3. Batches' BY <1>1, <1>2, <2>1 DEF Batches
    <2>4. Written' BY <2>1 DEF Written
    <2> QED BY <1>3, <1>4, <2>2, <2>3, <2>4 DEF FoundInv
<1> QED BY <1>6, <1>7, <1>8 DEF Start

(* The head is the larger bound wherever it is stored.                     *)
LEMMA StoredBound ==
    ASSUME OffsetRange = PerBlock, TypeInv, ReachInv, ~spoilt, up
    PROVE  /\ Stored(writeAddr) = writeAddr
           /\ Bound(cpTail, writeAddr) = writeAddr
           /\ Bound(writeAddr, ftl) = writeAddr
           /\ Bound(cpTail, 0) = cpTail
<1>1. Stored(writeAddr) = writeAddr BY StoredAll
<1>2. cpTail \in Nat /\ ftl \in Nat /\ writeAddr \in Nat
    BY TypeOKIs, BoundsAre DEF TypeInv
<1>3. cpTail <= writeAddr /\ ftl <= writeAddr BY DEF ReachInv
<1> QED BY <1>1, <1>2, <1>3 DEF Bound, Max2

LEMMA HeadFound ==
    ASSUME OffsetRange = PerBlock, TypeInv, ReachInv, FoundInv,
           EraseHead \/ WriteHead \/ HeadFails
    PROVE  FoundInv'
<1> SUFFICES ASSUME ~spoilt' PROVE FoundInv' BY DEF FoundInv
<1>1. /\ ~spoilt
      /\ UNCHANGED <<log, cpTail, up, writeAddr, table, ops, begun, covered, acked>>
      /\ pc \in {"eraseHead", "writeHead"} /\ pc' \in {"writeHead", "finish"}
      /\ ftl' \in {ftl, 0, Stored(writeAddr)}
      /\ job'.files = job.files
    BY DEF EraseHead, WriteHead, HeadFails, HeadOnly, ram, history,
           TypeInv, Counters, JobType
<1>2. Versions /\ Batches /\ Kept /\ Known /\ Written BY <1>1 DEF FoundInv
<1>3. up BY <1>1 DEF TypeInv, Underway
<1>4. log \in LogType BY TypeOKIs DEF TypeInv
<1>5. /\ Stored(writeAddr) = writeAddr
      /\ Bound(cpTail, writeAddr) = writeAddr /\ Bound(cpTail, 0) = cpTail
    BY <1>1, <1>3, StoredBound
<1>6. ftl' \in {ftl, 0, writeAddr} BY <1>1, <1>5
<1>7. Versions' /\ Known' BY <1>1, <1>2 DEF Versions, Known
<1>8. Batches' BY <1>1, <1>2 DEF Batches
<1>9. Written' BY <1>1, <1>2 DEF Written
<1>10. Kept'
    <2>1. CASE ftl' = ftl BY <1>1, <1>2, <2>1 DEF Kept
    <2>2. CASE ftl' = 0
        <3>1. Newer(log, 0) BY <1>4, NewerAtStart
        <3> QED BY <1>1, <1>2, <1>5, <2>2, <3>1 DEF Kept
    <2>3. CASE ftl' = writeAddr
        <3>1. /\ Newer(log, writeAddr)
              /\ Covers(covered, log, writeAddr) /\ Covers(acked, log, writeAddr)
            BY <1>2, <1>3 DEF Known
        <3> QED BY <1>1, <1>2, <1>5, <2>3, <3>1 DEF Kept
    <2> QED BY <1>6, <2>1, <2>2, <2>3
<1> QED BY <1>7, <1>8, <1>9, <1>10 DEF FoundInv

(* The file table that a checkpoint stores is found at the head.           *)
LEMMA NewTableFound ==
    ASSUME TypeInv, Known, Written, pc = "finish"
    PROVE  Covers(NewTable, log, writeAddr)
<1>1. up BY DEF TypeInv, Underway
<1>2. ASSUME NEW f \in File PROVE NewTable[f] <= At(log, writeAddr).table[f]
    <2>1. NewTable[f] = IF Applies /\ f \in job.files THEN ops ELSE table[f]
        BY DEF NewTable
    <2>2. CASE f \in job.files /\ Applies
        <3>1. At(log, writeAddr).table[f] >= ops BY <2>2 DEF Written
        <3> QED BY <2>1, <2>2, <3>1
    <2>3. CASE ~(f \in job.files /\ Applies)
        BY <1>1, <2>1, <2>3 DEF Known, Covers
    <2> QED BY <2>2, <2>3
<1> QED BY <1>2 DEF Covers

LEMMA CheckpointFound ==
    ASSUME OffsetRange = PerBlock, TypeInv, ReachInv, FoundInv,
           StoreCheckpoint \/ StoreFails
    PROVE  FoundInv'
<1> SUFFICES ASSUME ~spoilt' PROVE FoundInv' BY DEF FoundInv
<1>1. /\ ~spoilt /\ pc = "finish"
      /\ UNCHANGED <<log, ftl, up, writeAddr, ops, begun, acked>>
      /\ table' = NewTable
    BY DEF StoreCheckpoint, StoreFails, Due, bounds, history
<1>2. Versions /\ Batches /\ Kept /\ Known /\ Written BY <1>1 DEF FoundInv
<1>3. up BY <1>1 DEF TypeInv, Underway
<1>4. Stored(writeAddr) = writeAddr /\ Bound(writeAddr, ftl) = writeAddr
    BY <1>1, <1>3, StoredBound
<1>5. Covers(NewTable, log, writeAddr) BY <1>1, <1>2, NewTableFound
<1>6. /\ Newer(log, writeAddr)
      /\ Covers(covered, log, writeAddr) /\ Covers(acked, log, writeAddr)
    BY <1>2, <1>3 DEF Known
<1>7. Versions' BY <1>1, <1>2 DEF Versions
<1>8. CASE StoreCheckpoint
    <2>1. /\ cpTail' = writeAddr /\ covered' = NewTable /\ pc' = "eraseHead"
          /\ job'.files = job.files
        BY <1>4, <1>8 DEF StoreCheckpoint, TypeInv, Counters, JobType
    <2>2. Batches' BY <1>1, <1>2, <2>1 DEF Batches
    <2>3. Kept' BY <1>1, <1>2, <1>4, <1>5, <1>6, <2>1 DEF Kept
    <2>4. Known' BY <1>1, <1>5, <1>6, <2>1 DEF Known
    <2>5. Written' BY <1>1, <1>2, <2>1 DEF Written
    <2> QED BY <1>7, <2>2, <2>3, <2>4, <2>5 DEF FoundInv
<1>9. CASE StoreFails
    <2>1. cpTail' \in {cpTail, writeAddr} /\ covered' = covered /\ pc' = "idle"
        BY <1>4, <1>9 DEF StoreFails, history
    <2>2. Batches' BY <1>1, <1>2, <2>1 DEF Batches
    <2>3. CASE cpTail' = cpTail
        <3>1. Kept' BY <1>1, <1>2, <2>1, <2>3 DEF Kept
        <3>2. Known' BY <1>1, <1>5, <1>6, <2>1 DEF Known
        <3>3. Written' BY <2>1 DEF Written
        <3> QED BY <1>7, <2>2, <3>1, <3>2, <3>3 DEF FoundInv
    <2>4. CASE cpTail' = writeAddr
        <3>1. Kept' BY <1>1, <1>2, <1>4, <1>6, <2>1, <2>4 DEF Kept
        <3>2. Known' BY <1>1, <1>5, <1>6, <2>1 DEF Known
        <3>3. Written' BY <2>1 DEF Written
        <3> QED BY <1>7, <2>2, <3>1, <3>2, <3>3 DEF FoundInv
    <2> QED BY <2>1, <2>3, <2>4
<1> QED BY <1>8, <1>9

LEMMA FinishFound ==
    ASSUME OffsetRange = PerBlock, TypeInv, ReachInv, JobInv, FoundInv, Finish
    PROVE  FoundInv'
<1> SUFFICES ASSUME ~spoilt' PROVE FoundInv' BY DEF FoundInv
<1> DEFINE after == [f \in File |-> IF Acks /\ f \in job.files THEN ops ELSE acked[f]]
<1>1. /\ ~spoilt /\ pc = "finish" /\ pc' = "idle" /\ acked' = after
      /\ UNCHANGED <<log, cpTail, ftl, ops, begun, covered>>
    BY DEF Finish, Off, flash, bounds
<1>2. Versions /\ Batches /\ Kept /\ Known /\ Written BY <1>1 DEF FoundInv
<1>3. up BY <1>1 DEF TypeInv, Underway
<1>4. /\ Stored(writeAddr) = writeAddr
      /\ Bound(cpTail, writeAddr) = writeAddr /\ Bound(writeAddr, ftl) = writeAddr
    BY <1>1, <1>3, StoredBound
<1>5. /\ Newer(log, writeAddr)
      /\ Covers(covered, log, writeAddr) /\ Covers(acked, log, writeAddr)
    BY <1>2, <1>3 DEF Known
<1>6. Covers(after, log, writeAddr)
    <2>1. ASSUME NEW f \in File PROVE after[f] <= At(log, writeAddr).table[f]
        <3>1. CASE Acks /\ f \in job.files
            <4>1. At(log, writeAddr).table[f] >= ops BY <1>1, <1>2, <3>1 DEF Written
            <4> QED BY <3>1, <4>1
        <3>2. CASE ~(Acks /\ f \in job.files) BY <1>5, <3>2 DEF Covers
        <3> QED BY <3>1, <3>2
    <2> HIDE DEF after
    <2> QED BY <2>1 DEF Covers
<1>7. Acks => Bound(cpTail, ftl) = writeAddr
    <2>1. Acks => (job.saved /\ cpTail = writeAddr) \/ ftl = writeAddr
        BY <1>1 DEF Acks, JobInv
    <2> QED BY <1>4, <2>1
<1>8. ~Acks => after = acked
    <2> SUFFICES ASSUME ~Acks PROVE after = acked OBVIOUS
    <2>1. acked \in [File -> 0 .. MaxOps] BY DEF TypeInv, Counters
    <2> QED BY <2>1
<1> HIDE DEF after
<1>9. ftl # 0 => Covers(after, log, Bound(cpTail, ftl))
    <2>1. CASE Acks BY <1>6, <1>7, <2>1
    <2>2. CASE ~Acks BY <1>2, <1>8, <2>2 DEF Kept
    <2> QED BY <2>1, <2>2
<1>10. Versions' BY <1>1, <1>2 DEF Versions
<1>11. Batches' BY <1>1, <1>2 DEF Batches
<1>12. Kept' BY <1>1, <1>2, <1>9 DEF Kept
<1>13. Known'
    <2>1. CASE job.op = "umount"
        <3>1. ~up' BY <2>1 DEF Finish, Off
        <3> QED BY <3>1 DEF Known
    <2>2. CASE job.op # "umount"
        <3>1. table' = NewTable /\ writeAddr' = writeAddr BY <2>2 DEF Finish
        <3>2. Covers(NewTable, log, writeAddr) BY <1>1, <1>2, NewTableFound
        <3> QED BY <1>1, <1>5, <1>6, <3>1, <3>2 DEF Known
    <2> QED BY <2>1, <2>2
<1>14. Written' BY <1>1 DEF Written
<1> QED BY <1>10, <1>11, <1>12, <1>13, <1>14 DEF FoundInv

LEMMA NextFound ==
    ASSUME OffsetRange = PerBlock, MaxBatches <= 1,
           TypeInv, ReachInv, ShapeInv, JobInv, FoundInv, [Next]_vars
    PROVE  FoundInv'
<1>1. CASE Mount BY <1>1, MountFound
<1>2. CASE Start BY <1>2, StartFound
<1>3. CASE AppendRecord \/ RetryRecord BY <1>3, AppendFound
<1>4. CASE EraseHead \/ WriteHead \/ HeadFails BY <1>4, HeadFound
<1>5. CASE StoreCheckpoint \/ StoreFails BY <1>5, CheckpointFound
<1>6. CASE Finish BY <1>6, FinishFound
<1>7. CASE PowerCut BY <1>7, PowerCutFound
<1>8. CASE UNCHANGED vars
    <2>1. /\ UNCHANGED <<log, cpTail, ftl, up, writeAddr, table, pc, job, ops, begun>>
          /\ UNCHANGED <<spoilt, covered, acked>>
        BY <1>8 DEF vars, flash, ram, bounds, history
    <2>2. Versions /\ Batches => Versions' /\ Batches' BY <2>1 DEF Versions, Batches
    <2>3. Kept => Kept' BY <2>1 DEF Kept
    <2>4. Known => Known' BY <2>1 DEF Known
    <2>5. Written => Written' BY <2>1 DEF Written
    <2> QED BY <2>1, <2>2, <2>3, <2>4, <2>5 DEF FoundInv
<1> QED BY <1>1, <1>2, <1>3, <1>4, <1>5, <1>6, <1>7, <1>8 DEF Next, Step

(* A mount finds what is found at the larger bound, and without a bound    *)
(* the whole log.                                                          *)
LEMMA RecoveredIs ==
    ASSUME TypeInv, ReachInv, ~spoilt, NEW T \in [File -> 0 .. MaxOps],
           Covers(T, log, Bound(cpTail, ftl))
    PROVE  \A f \in File : Recovered[f] >= T[f]
<1> DEFINE b == Bound(cpTail, ftl)
<1>1. log \in LogType /\ b \in 0 .. LogEnd BY TypeOKIs DEF TypeInv
<1>2. Reached(log, b) BY BoundReached
<1> HIDE DEF b
<1>3. Replay(log, b) \in Found BY <1>1, ReplayIs
<1>4. Recovered = Replay(log, b).table BY DEF Recovered, b
<1>5. \A f \in File : Recovered[f] \in Nat /\ T[f] \in Nat
    BY <1>3, <1>4, BoundsAre DEF Found
<1>6. \A f \in File : T[f] <= At(log, b).table[f] BY DEF Covers, b
<1>7. CASE b # 0
    <2>1. Recovered = At(log, b).table BY <1>1, <1>2, <1>4, <1>7, ReplayTo
    <2> QED BY <1>5, <1>6, <2>1
<1>8. CASE b = 0
    <2>1. At(log, b).table = NoFiles BY <1>1, <1>8, ReachedStart
    <2>2. \A f \in File : T[f] <= 0 BY <1>6, <2>1 DEF NoFiles
    <2>3. ASSUME NEW f \in File PROVE Recovered[f] >= T[f]
        <3>1. T[f] <= 0 /\ T[f] \in Nat /\ Recovered[f] \in Nat BY <1>5, <2>2
        <3> QED BY <3>1
    <2> QED BY <2>3
<1> QED BY <1>7, <1>8

LogInv == TypeInv /\ ReachInv /\ ShapeInv /\ JobInv /\ FoundInv

LEMMA InitAll == Init => LogInv
BY InitType, InitReach, InitShape, InitFound DEF LogInv

LEMMA NextAll ==
    ASSUME OffsetRange = PerBlock, MaxBatches <= 1, LogInv, [Next]_vars
    PROVE  LogInv'
<1>1. TypeInv' BY NextType DEF LogInv
<1>2. ReachInv' BY NextReach DEF LogInv
<1>3. ShapeInv' BY NextShape DEF LogInv
<1>4. JobInv' BY NextJob DEF LogInv
<1>5. FoundInv' BY NextFound DEF LogInv
<1> QED BY <1>1, <1>2, <1>3, <1>4, <1>5 DEF LogInv

(* Nothing that a checkpoint has covered is lost: whatever fails or is cut *)
(* short, and wherever, a mount finds it or something newer.  The offset   *)
(* in a block must fit the 16 bits that store it, and there is one batch   *)
(* at most: the ids of batches start again at each mount, which run        *)
(* pgfs_batch_ids shows to lose files.                                     *)
(* (pgfs_core.c:1866-1961, pgfs_vfs_adapter.c:281-325)                     *)
THEOREM WhatIsCoveredSurvives ==
    ASSUME OffsetRange = PerBlock, MaxBatches <= 1
    PROVE  Spec => []CheckpointedSurvives
<1>1. LogInv /\ [Next]_vars => LogInv' BY NextAll
<1>2. LogInv => CheckpointedSurvives
    <2> SUFFICES ASSUME LogInv, ~spoilt
                 PROVE  \A f \in File : Recovered[f] >= covered[f]
        BY DEF CheckpointedSurvives
    <2>1. Covers(covered, log, Bound(cpTail, ftl)) BY DEF LogInv, FoundInv, Kept
    <2>2. covered \in [File -> 0 .. MaxOps] BY DEF LogInv, TypeInv, Counters
    <2> QED BY <2>1, <2>2, RecoveredIs DEF LogInv
<1> QED BY <1>1, <1>2, InitAll, PTL DEF Spec

(* Nothing that an fclose or an fflush has acknowledged is lost while the  *)
(* stored head is there, under the same two hypotheses.                    *)
(* (DESIGN.md:18-19 of pgfs; pgfs_core.c:2402-2441, 2648-2706)             *)
THEOREM WhatIsAckedSurvives ==
    ASSUME OffsetRange = PerBlock, MaxBatches <= 1
    PROVE  Spec => []AckedSurvives
<1>1. LogInv /\ [Next]_vars => LogInv' BY NextAll
<1>2. LogInv => AckedSurvives
    <2> SUFFICES ASSUME LogInv, ~spoilt, ftl # 0
                 PROVE  \A f \in File : Recovered[f] >= acked[f]
        BY DEF AckedSurvives
    <2>1. Covers(acked, log, Bound(cpTail, ftl)) BY DEF LogInv, FoundInv, Kept
    <2>2. acked \in [File -> 0 .. MaxOps] BY DEF LogInv, TypeInv, Counters
    <2> QED BY <2>1, <2>2, RecoveredIs DEF LogInv
<1> QED BY <1>1, <1>2, InitAll, PTL DEF Spec

-----------------------------------------------------------------------------
(* Batches.  B is a set of them; a table holds all or nothing of each.     *)

BatchType(B) == \A b \in B : b.ver \in 1 .. MaxOps /\ b.files \subseteq File
AllAtomic(B, t) == \A b \in B : AllOrNothing(b, t)

(* The version of a record tells whether it is of a batch.                 *)
OfBatch(B, l) ==
    \A b \in B, a \in Addr : l[a] \in Part => (l[a].kind = "DATA" <=> l[a].ver # b.ver)

(* A replay that meets r at the turn s meets it in order: r is not older   *)
(* than what has been found, and a commit comes after all of its batch.    *)
InOrder(B, s, r) ==
    /\ \A f \in File : s.table[f] <= r.ver
    /\ r.kind = "BATCH_COMMIT" => \A b \in B : \A f \in b.files : Done(s, f, b.ver)

(* So does every replay that goes on behind x, to the end of the block.    *)
Orderly(B, l, x) ==
    \A n \in 0 .. LogEnd :
        LET s == Turns(l, 0)[n] IN
        s.at \in Addr /\ x <= s.at /\ s.at < AlignUp(x) /\ Whole(l, s.at)
            => InOrder(B, s, l[s.at])

Settled(B, l, x) == AllAtomic(B, At(l, x).table) /\ Orderly(B, l, x)

(* A record that is met in order leaves the batches atomic.                *)
LEMMA TakeAtomic ==
    ASSUME NEW l \in LogType, OneBatch(l), NEW s \in Found, Waiting(s, l),
           NEW a \in Addr, Whole(l, a), NEW B, BatchType(B), OfBatch(B, l),
           AllAtomic(B, s.table), InOrder(B, s, l[a])
    PROVE  AllAtomic(B, Take(s, l[a]).table)
<1> DEFINE r == l[a]
           t == Take(s, r)
<1>1. SUFFICES ASSUME NEW b \in B, NEW f \in b.files, NEW g \in b.files,
                      t.table[f] = b.ver
               PROVE  t.table[g] >= b.ver
    BY DEF AllAtomic, AllOrNothing
<1>2. r \in Part /\ f \in File /\ g \in File /\ b.ver \in Nat
    BY WholeFits, BoundsAre DEF BatchType
<1>3. s.table[f] \in Nat /\ s.table[g] \in Nat /\ r.ver \in Nat
    BY <1>2, BoundsAre DEF Found, Part
<1>4. /\ s.table[f] <= r.ver
      /\ r.kind = "BATCH_COMMIT" => Done(s, g, b.ver)
      /\ r.kind = "DATA" <=> r.ver # b.ver
      /\ s.table[f] = b.ver => s.table[g] >= b.ver
    BY <1>2 DEF InOrder, OfBatch, AllAtomic, AllOrNothing
<1>5. /\ r.kind = "DATA" =>
            /\ t.table[f] = IF f \in r.files THEN r.ver ELSE s.table[f]
            /\ t.table[g] = IF g \in r.files THEN r.ver ELSE s.table[g]
      /\ r.kind = "BATCH_DATA" => t.table = s.table
      /\ r.kind \in {"DATA", "BATCH_DATA", "BATCH_COMMIT"}
    BY <1>2, TakeCases
<1>6. r.kind = "BATCH_COMMIT" /\ Done(s, g, r.ver) => t.table[g] >= r.ver
    BY <1>2, TakeDone
<1> HIDE DEF r, t
<1>7. CASE r.kind = "DATA" BY <1>1, <1>2, <1>3, <1>4, <1>5, <1>7
<1>8. CASE r.kind = "BATCH_DATA" BY <1>1, <1>4, <1>5, <1>8
<1>9. CASE r.kind = "BATCH_COMMIT" BY <1>4, <1>6, <1>9
<1> QED BY <1>5, <1>7, <1>8, <1>9

LEMMA NoneOrderly ==
    ASSUME NEW B, NEW l \in LogType, NEW x,
           \A p \in Addr : x <= p /\ p < AlignUp(x) => ~Whole(l, p)
    PROVE  Orderly(B, l, x)
BY DEF Orderly

LEMMA SettledAtStart ==
    ASSUME NEW B, BatchType(B), NEW l \in LogType
    PROVE  Settled(B, l, 0)
<1>1. At(l, 0).table = NoFiles BY ReachedStart
<1>2. ASSUME NEW b \in B, NEW f \in b.files PROVE NoFiles[f] # b.ver
    BY BoundsAre DEF BatchType, NoFiles
<1>3. AllAtomic(B, At(l, 0).table) BY <1>1, <1>2 DEF AllAtomic, AllOrNothing
<1>4. AlignUp(0) = 0 BY LogAssumption DEF AlignUp
<1>5. \A p \in Addr : ~(0 <= p /\ p < 0) BY BoundsAre DEF Addr
<1> QED BY <1>3, <1>4, <1>5, NoneOrderly DEF Settled

LEMMA SettledFor ==
    ASSUME NEW B, NEW C \in SUBSET B, NEW l, NEW x, Settled(B, l, x)
    PROVE  Settled(C, l, x)
BY DEF Settled, AllAtomic, Orderly, InOrder

(* What is found before w, and behind it to the end of its block, when r   *)
(* is written there.                                                       *)
LEMMA OrderlyOn ==
    ASSUME NEW l \in LogType, NEW m \in LogType, NEW w, Reached(l, w),
           \A s \in Addr : s < w => m[s] = l[s],
           NEW r \in Part, Behind(l, m, w, r),
           NEW B, InOrder(B, At(l, w), r),
           NEW x \in Nat, x <= w, Orderly(B, l, x)
    PROVE  Orderly(B, m, x)
<1> SUFFICES ASSUME NEW n \in 0 .. LogEnd, NEW s, s = Turns(m, 0)[n],
                    s.at \in Addr, x <= s.at, s.at < AlignUp(x), Whole(m, s.at)
             PROVE  InOrder(B, s, m[s.at])
    BY DEF Orderly
<1> DEFINE c == s.at
<1>1. c \in Nat /\ w \in Nat /\ w \in 0 .. LogEnd BY AtIs, BoundsAre DEF Addr
<1>2. m[c] \in Part /\ m[c].len \in 1 .. 2 /\ m[c].part = 1 BY WholeFits
<1>3. \/ Whole(l, c) /\ \A a \in Addr : a <= c => m[a] = l[a]
      \/ c = w /\ m[c] = r
    <2>1. CASE c < w
        <3>1. \A a \in Addr : a <= c => m[a] = l[a] BY <1>1, <2>1, BoundsAre DEF Addr
        <3>2. ASSUME NEW j \in 2 .. m[c].len
              PROVE  c + j - 1 \in Addr /\ l[c + j - 1] = [m[c] EXCEPT !.part = j]
            <4>1. m[c].len = 2 /\ c + j - 1 = c + 1 BY <1>1, <1>2
            <4>2. c + 1 \in Addr /\ m[c + 1] = [m[c] EXCEPT !.part = j]
                BY <4>1 DEF Whole
            <4>3. c + 1 # w
                <5> SUFFICES ASSUME c + 1 = w PROVE FALSE OBVIOUS
                <5>1. w # 0 /\ w - 1 = c BY <1>1
                <5>2. l[c].part = l[c].len BY <5>1, LastPart
                <5>3. m[c] = l[c] BY <2>1
                <5> QED BY <1>2, <4>1, <5>2, <5>3
            <4>4. c + 1 < w BY <1>1, <2>1, <4>3
            <4> QED BY <4>1, <4>2, <4>4
        <3>3. m[c] = l[c] BY <2>1
        <3>4. Whole(l, c) BY <3>2, <3>3 DEF Whole, Header
        <3> QED BY <3>1, <3>4
    <2>2. CASE ~(c < w)
        <3>1. AlignUp(x) <= AlignUp(w) /\ AlignUp(x) \in Nat /\ AlignUp(w) \in Nat
            <4>1. AlignUp(w) \in Nat /\ w <= AlignUp(w) /\ AlignUp(w) % PerBlock = 0
                BY <1>1, Aligned
            <4>2. x <= AlignUp(w) BY <1>1, <4>1
            <4> QED BY <4>1, <4>2, Aligned
        <3>2. w <= c /\ c < AlignUp(w) BY <1>1, <2>2, <3>1
        <3> QED BY <3>2 DEF Behind
    <2> QED BY <2>1, <2>2
<1>4. CASE Whole(l, c) /\ \A a \in Addr : a <= c => m[a] = l[a]
    <2>1. \A a \in Addr : a <= c => l[a] = m[a] BY <1>4
    <2>2. Turns(m, 0)[n].at <= c BY <1>1
    <2>3. Turns(l, 0)[n] = s BY <2>1, <2>2, VisitSame
    <2>4. InOrder(B, s, l[c]) BY <1>4, <2>3 DEF Orderly
    <2>5. m[c] = l[c] BY <1>1, <1>4
    <2> QED BY <2>4, <2>5
<1>5. CASE c = w /\ m[c] = r
    <2>1. Reached(m, w) /\ At(m, w) = At(l, w) BY PathSame
    <2>2. s = At(l, w) BY <1>5, <2>1, AtIs
    <2> QED BY <1>5, <2>2
<1> QED BY <1>3, <1>4, <1>5

(* What is found behind an appended record is atomic too.                  *)
LEMMA AppendAtomic ==
    ASSUME NEW l \in LogType, NEW m \in LogType, NEW w, NEW a \in Addr, NEW r,
           AppendedAt(l, m, w, a, r), Behind(l, m, w, r),
           NEW D \in SUBSET File, WaitFor(D, l, w, r),
           NEW B, BatchType(B), OfBatch(B, m), Settled(B, l, w),
           r.kind = "BATCH_COMMIT" => \A b \in B : b.files \subseteq D
    PROVE  AllAtomic(B, At(m, a + r.len).table)
<1> USE DEF AppendedAt, WaitFor
<1> DEFINE G == {s \in Found : /\ \E n \in 0 .. LogEnd : s = Turns(m, 0)[n]
                               /\ AllAtomic(B, s.table)
                               /\ \A f \in D : Done(s, f, r.ver)}
<1>1. r \in Part /\ r.ver \in Nat
    <2>1. r \in Part BY WholeFits
    <2> QED BY <2>1, BoundsAre DEF Part
<1>2. At(l, w) \in Found /\ w \in 0 .. LogEnd BY AtIs
<1>3. At(m, w) = At(l, w) /\ Reached(m, w) BY PathSame
<1>4. At(l, w) \in G
    <2>1. \E n \in 0 .. LogEnd : Turns(m, 0)[n] = At(m, w) BY <1>3, AtIs
    <2> QED BY <1>2, <1>3, <2>1 DEF Settled
<1>5. ASSUME NEW s \in G
      PROVE  /\ s \in Found /\ Waiting(s, m) /\ AllAtomic(B, s.table)
             /\ InOrder(B, s, r)
    <2>1. Waiting(s, m) /\ \A f \in File : s.table[f] <= r.ver
        BY <1>1, FoundByTurn
    <2>2. r.kind = "BATCH_COMMIT" => \A b \in B : b.ver = r.ver
        BY <1>1 DEF OfBatch
    <2> QED BY <2>1, <2>2 DEF InOrder
<1>6. ASSUME a # w, NEW s \in G, s.at \in w .. a - 1
      PROVE  Scan(m, s) \in G
    <2>1. a \in Nat /\ a < LogEnd /\ w \in Nat BY <1>2, BoundsAre DEF Addr
    <2>2. s.at \in Addr /\ w \in Addr /\ w <= s.at /\ s.at < a
        BY <1>6, <2>1, BoundsAre DEF Addr
    <2>3. s \in Found /\ Scan(m, s) \in Found BY <2>2, ScanIs
    <2>4. PICK n \in 0 .. LogEnd : s = Turns(m, 0)[n] OBVIOUS
    <2>5. n + 1 \in 0 .. LogEnd /\ Scan(m, s) = Turns(m, 0)[n + 1]
        BY <2>2, <2>4, NextTurn
    <2>6. \A f \in D : Done(Scan(m, s), f, r.ver)
        <3>1. Whole(m, s.at) /\ D # {} => m[s.at] = r BY <1>6, <2>2
        <3>2. D # {} => r.kind # "DATA" OBVIOUS
        <3>3. \A f \in D : Done(s, f, r.ver) OBVIOUS
        <3> QED BY <1>1, <1>5, <2>2, <3>1, <3>2, <3>3, StillDone
    <2>7. AllAtomic(B, Scan(m, s).table)
        <3>1. CASE ~Whole(m, s.at)
            BY <1>5, <2>2, <2>3, <3>1, ScanIs
        <3>2. CASE Whole(m, s.at)
            <4> DEFINE c == s.at
            <4>1. m[c] = r => InOrder(B, s, m[c]) BY <1>5
            <4>2. ASSUME m[c] # r PROVE InOrder(B, s, m[c])
                <5>1. w % PerBlock # 0 BY <1>6, <2>2, <3>2, <4>2
                <5>2. AlignUp(w) = a BY <1>6, <5>1 DEF AlignUp
                <5>3. Whole(l, c) /\ \A p \in Addr : p <= c => m[p] = l[p]
                    BY <2>2, <3>2, <4>2, <5>2 DEF Behind
                <5>4. Turns(l, 0)[n] = s
                    <6>1. \A p \in Addr : p <= c => l[p] = m[p] BY <5>3
                    <6>2. Turns(m, 0)[n].at <= c BY <2>1, <2>2, <2>4, BoundsAre DEF Addr
                    <6> QED BY <2>2, <2>4, <6>1, <6>2, VisitSame
                <5>5. InOrder(B, s, l[c]) BY <2>2, <5>2, <5>3, <5>4 DEF Settled, Orderly
                <5>6. c <= c BY <2>1, <2>2, BoundsAre DEF Addr
                <5>7. m[c] = l[c] BY <2>2, <5>3, <5>6
                <5> QED BY <5>5, <5>7
            <4>3. InOrder(B, s, m[c]) BY <4>1, <4>2
            <4>4. AllAtomic(B, Take(s, m[c]).table)
                BY <1>5, <2>2, <2>3, <3>2, <4>3, TakeAtomic
            <4> QED BY <2>2, <2>3, <3>2, <4>4, ScanIs
        <3> QED BY <3>1, <3>2
    <2> QED BY <2>3, <2>5, <2>6, <2>7
<1>7. \E s \in G : s.at = a /\ At(m, a + m[a].len) = Scan(m, s)
    <2>1. G \in SUBSET Found OBVIOUS
    <2> HIDE DEF G
    <2> QED BY <1>4, <1>6, <2>1, AppendReached
<1>8. PICK s \in G : s.at = a /\ At(m, a + r.len) = Scan(m, s) BY <1>7
<1>9. s \in Found /\ Waiting(s, m) /\ AllAtomic(B, s.table) /\ InOrder(B, s, m[a])
    BY <1>5
<1> HIDE DEF G
<1>10. AllAtomic(B, Take(s, m[a]).table) BY <1>9, TakeAtomic
<1>11. Scan(m, s).table = Take(s, m[a]).table BY <1>8, <1>9, ScanIs
<1> QED BY <1>8, <1>10, <1>11

(* What is known of the batches: their versions, that the operation under  *)
(* way writes the records of the last one, and that a replay finds them    *)
(* whole or not at all up to the tail, to the head and to the write        *)
(* address.                                                                *)
Committed == \A b \in batches : b.ver \in 1 .. ops /\ b.files \subseteq File /\ begun # 0

BatchJob ==
    pc = "append" => \A b \in batches :
        IF job.op = "batch" THEN b.ver = ops /\ b.files = job.files ELSE b.ver # ops

AllSettled ==
    /\ Settled(batches, log, cpTail) /\ Settled(batches, log, ftl)
    /\ up => Settled(batches, log, writeAddr)

AtomInv == ~spoilt => Committed /\ OfBatch(batches, log) /\ BatchJob /\ AllSettled

LEMMA CommittedIs ==
    ASSUME TypeInv, Committed
    PROVE  BatchType(batches)
BY BoundsAre DEF Committed, BatchType, TypeInv, Counters

(* When a commit is appended, the records of its batch are there.          *)
LEMMA CommitFinds ==
    ASSUME TypeInv, JobInv, Written, pc = "append", NextRecord.kind = "BATCH_COMMIT"
    PROVE  /\ job.op = "batch"
           /\ \A f \in job.files : Done(At(log, writeAddr), f, ops)
           /\ writeAddr % PerBlock # 0 => log[writeAddr] = Blank
<1>1. job.op = "batch" /\ Len(job.todo) = 1 BY NextOfJob
<1>2. \A f \in job.files : Done(At(log, writeAddr), f, ops)
    <2>1. ~\E i \in 1 .. Len(job.todo) - 1 : TRUE BY <1>1
    <2> QED BY <1>1, <2>1 DEF Written
<1>3. ASSUME writeAddr % PerBlock # 0 PROVE log[writeAddr] = Blank
    <2>1. writeAddr \in Addr
        <3>1. Place.addr \in Addr /\ writeAddr <= Place.addr BY PlaceIs, PlaceSame
        <3> QED BY <3>1, TypeOKIs, BoundsAre DEF Addr, TypeInv
    <2>2. AlignUp(writeAddr) = BlockEnd(writeAddr) /\ writeAddr < BlockEnd(writeAddr)
          /\ writeAddr <= writeAddr
        BY <1>3, <2>1, EndOfBlock, BlockOfLog DEF AlignUp
    <2>3. \A s \in Addr : writeAddr <= s /\ s < AlignUp(writeAddr) => log[s] = Blank
        BY <1>1 DEF Written
    <2> QED BY <2>1, <2>2, <2>3
<1> QED BY <1>1, <1>2, <1>3

LEMMA NextInOrder ==
    ASSUME TypeInv, JobInv, Versions, Written, Committed, BatchJob, pc = "append",
           Reached(log, writeAddr)
    PROVE  InOrder(batches, At(log, writeAddr), NextRecord)
<1> DEFINE s == At(log, writeAddr)
<1>1. NextRecord.ver = ops BY NextOfJob
<1>2. log \in LogType /\ ops \in Nat BY TypeOKIs, BoundsAre DEF TypeInv, Counters
<1>3. \A f \in File : s.table[f] <= ops
    <2>1. \A p \in Addr : log[p] \in Part => log[p].ver <= ops BY DEF Versions
    <2> QED BY <1>2, <2>1, FoundIn
<1>4. ASSUME NextRecord.kind = "BATCH_COMMIT", NEW b \in batches, NEW f \in b.files
      PROVE  Done(s, f, b.ver)
    <2>1. job.op = "batch" /\ \A g \in job.files : Done(s, g, ops) BY <1>4, CommitFinds
    <2>2. b.ver = ops /\ b.files = job.files BY <2>1 DEF BatchJob
    <2> QED BY <2>1, <2>2
<1> HIDE DEF s
<1>5. InOrder(batches, s, NextRecord) BY <1>1, <1>3, <1>4 DEF InOrder
<1> QED BY <1>5 DEF s

LEMMA OfBatchOn ==
    ASSUME TypeInv, JobInv, BatchJob, OfBatch(batches, log), pc = "append",
           NEW m \in LogType, Grows(log, m, NextRecord)
    PROVE  OfBatch(batches, m)
<1> SUFFICES ASSUME NEW b \in batches, NEW a \in Addr, m[a] \in Part
             PROVE  m[a].kind = "DATA" <=> m[a].ver # b.ver
    BY DEF OfBatch
<1> DEFINE r == NextRecord
<1>1. r \in Part /\ r.ver = ops BY NextOfJob
<1>2. r.kind = "DATA" <=> job.op # "batch" BY NextOfJob
<1>3. log \in LogType BY TypeOKIs DEF TypeInv
<1> HIDE DEF r
<1>4. (log[a] \in Part /\ m[a] = log[a]) \/ m[a] \in {r, Second(r)}
    BY <1>1, <1>3, VersionsOn DEF r
<1>5. CASE log[a] \in Part /\ m[a] = log[a] BY <1>5 DEF OfBatch
<1>6. CASE m[a] \in {r, Second(r)}
    <2>1. m[a].ver = ops /\ m[a].kind = r.kind BY <1>1, <1>6, SecondIs
    <2>2. b.ver = ops <=> job.op = "batch" BY DEF BatchJob
    <2> QED BY <1>2, <2>1, <2>2
<1> QED BY <1>4, <1>5, <1>6

(* What is settled stays so when the next record is written, or torn.      *)
LEMMA SettledOn ==
    ASSUME TypeInv, JobInv, Versions, Written, Committed, BatchJob, pc = "append",
           Reached(log, writeAddr), NEW m \in LogType,
           \A s \in Addr : s < writeAddr => m[s] = log[s],
           Behind(log, m, writeAddr, NextRecord),
           NEW x, Reached(log, x), x <= writeAddr, Settled(batches, log, x)
    PROVE  Settled(batches, m, x)
<1> DEFINE w == writeAddr
           r == NextRecord
<1>1. log \in LogType /\ w \in Nat /\ r \in Part
    BY TypeOKIs, BoundsAre, NextOfJob DEF TypeInv
<1>2. x \in Nat BY <1>1, AtIs, BoundsAre
<1>3. InOrder(batches, At(log, w), r) BY NextInOrder
<1>4. \A s \in Addr : s < x => m[s] = log[s] BY <1>1, <1>2, BoundsAre DEF Addr
<1>5. At(m, x) = At(log, x) BY <1>1, <1>4, PathSame
<1>6. Orderly(batches, m, x)
    <2>1. Reached(log, w) /\ Behind(log, m, w, r) /\ x <= w
          /\ \A s \in Addr : s < w => m[s] = log[s]
        OBVIOUS
    <2>2. Orderly(batches, log, x) BY DEF Settled
    <2> HIDE DEF w, r
    <2> QED BY <1>1, <1>2, <1>3, <2>1, <2>2, OrderlyOn
<1> QED BY <1>5, <1>6 DEF Settled

LEMMA InitAtom == Init => AtomInv
<1> SUFFICES ASSUME Init PROVE AtomInv OBVIOUS
<1>1. cpTail = 0 /\ ftl = 0 /\ ~up /\ pc = "idle" /\ batches = {} BY DEF Init
<1>2. log \in LogType
    <2>1. TypeInv BY InitType
    <2> QED BY <2>1, TypeOKIs DEF TypeInv
<1>3. Committed /\ OfBatch(batches, log) /\ BatchJob
    BY <1>1 DEF Committed, OfBatch, BatchJob
<1>4. BatchType(batches) BY <1>1 DEF BatchType
<1>5. AllSettled BY <1>1, <1>2, <1>4, SettledAtStart DEF AllSettled
<1> QED BY <1>3, <1>5 DEF AtomInv

LEMMA MountAtom ==
    ASSUME TypeInv, ReachInv, ShapeInv, AtomInv, Mount
    PROVE  AtomInv'
<1> SUFFICES ASSUME ~spoilt' PROVE AtomInv' BY DEF AtomInv
<1> DEFINE b == Bound(cpTail, ftl)
           found == Replay(log, b)
           h == found.head
           C == {x \in batches : AllOrNothing(x, found.table)}
<1>1. /\ ~spoilt /\ pc' = "idle"
      /\ UNCHANGED <<log, cpTail, ftl, ops, begun>>
      /\ writeAddr' = h /\ batches' = C
    BY DEF Mount, flash, bounds, TypeInv, Underway
<1>2. /\ Committed /\ OfBatch(batches, log)
      /\ Settled(batches, log, cpTail) /\ Settled(batches, log, ftl)
    BY <1>1 DEF AtomInv, AllSettled
<1>3. log \in LogType /\ b \in 0 .. LogEnd BY TypeOKIs DEF TypeInv
<1>4. Reached(log, b) BY <1>1, BoundReached
<1> HIDE DEF b
<1>5. /\ Reached(log, h) /\ At(log, h).table = found.table
      /\ b # 0 => h = b
      /\ b = 0 /\ h \in Addr => ~Whole(log, h)
    BY <1>3, <1>4, MountedAt
<1>6. C \subseteq batches /\ AllAtomic(C, found.table) BY DEF AllAtomic
<1> HIDE DEF C, h, found
<1>7. Settled(C, log, cpTail) /\ Settled(C, log, ftl) BY <1>2, <1>6, SettledFor
<1>8. Orderly(C, log, h)
    <2>1. CASE b = 0
        <3>1. Shape(log) BY <1>1 DEF ShapeInv
        <3>2. \A p \in Addr : h <= p /\ p < AlignUp(h) => ~Whole(log, p)
            BY <1>3, <1>5, <2>1, <3>1, NothingBehind
        <3> QED BY <1>3, <3>2, NoneOrderly
    <2>2. CASE b # 0
        <3>1. b = cpTail \/ b = ftl BY BoundIs DEF b, Bound, Max2
        <3> QED BY <1>5, <1>7, <2>2, <3>1 DEF Settled
    <2> QED BY <2>1, <2>2
<1>9. Settled(C, log, h) BY <1>5, <1>6, <1>8 DEF Settled
<1>10. AllSettled' BY <1>1, <1>7, <1>9 DEF AllSettled
<1>11. Committed' /\ BatchJob' BY <1>1, <1>2, <1>6 DEF Committed, BatchJob
<1>12. OfBatch(C, log) BY <1>2, <1>6 DEF OfBatch
<1>13. OfBatch(batches, log)' BY <1>1, <1>12
<1> QED BY <1>10, <1>11, <1>13 DEF AtomInv

(* A batch of which nothing is in the log.                                 *)
LEMMA FreshSettled ==
    ASSUME NEW l \in LogType, NEW v \in Nat,
           \A a \in Addr : l[a] \in Part => l[a].ver <= v /\ l[a].kind = "DATA",
           NEW B, \A b \in B : b.ver \in Nat /\ v < b.ver /\ b.files \subseteq File,
           NEW x, Reached(l, x), Settled({}, l, x)
    PROVE  Settled(B, l, x)
<1>1. \A f \in File : At(l, x).table[f] <= v BY FoundIn
<1>2. \A f \in File : At(l, x).table[f] \in Nat BY AtIs, BoundsAre DEF Found
<1>3. AllAtomic(B, At(l, x).table)
    <2>1. ASSUME NEW b \in B, NEW f \in b.files PROVE At(l, x).table[f] # b.ver
        <3>1. f \in File BY <2>1
        <3>2. At(l, x).table[f] <= v /\ At(l, x).table[f] \in Nat BY <1>1, <1>2, <3>1
        <3> QED BY <3>2
    <2> QED BY <2>1 DEF AllAtomic, AllOrNothing
<1>4. \A a \in Addr : Whole(l, a) => l[a].kind # "BATCH_COMMIT" BY WholeFits
<1>5. Orderly(B, l, x) BY <1>4 DEF Settled, Orderly, InOrder
<1> QED BY <1>3, <1>5 DEF Settled

LEMMA StartAtom ==
    ASSUME MaxBatches <= 1, TypeInv, ReachInv, FoundInv, AtomInv, Start
    PROVE  AtomInv'
<1> SUFFICES ASSUME ~spoilt' PROVE AtomInv' BY DEF AtomInv
<1>0. begun \in Nat /\ MaxBatches \in Nat /\ ops \in Nat /\ log \in LogType
    BY BoundsAre, TypeOKIs DEF TypeInv, Counters
<1>1. ~spoilt /\ UNCHANGED <<log, cpTail, ftl, up, writeAddr>>
    <2>1. UNCHANGED <<log, cpTail, ftl, up, writeAddr, spoilt>>
        BY DEF Start, Write, CommitBatch, Umount, Begin, flash, ram, history
    <2> QED BY <2>1
<1>2. Committed /\ OfBatch(batches, log) /\ AllSettled BY <1>1 DEF AtomInv
<1>3. ASSUME batches' = batches PROVE OfBatch(batches, log)' /\ AllSettled'
    BY <1>1, <1>2, <1>3 DEF AllSettled
<1>4. ASSUME NEW op \in {"close", "flush"}, NEW f \in File, NEW len \in 1 .. 2,
             Write(op, f, len)
      PROVE  AtomInv'
    <2>1. /\ ops' = ops + 1 /\ begun' = begun /\ pc' = "append" /\ job'.op # "batch"
          /\ batches' = batches
        BY <1>4 DEF Write, Begin, Job
    <2>2. Committed' BY <1>0, <1>2, <2>1 DEF Committed
    <2>3. BatchJob' BY <1>0, <1>2, <2>1 DEF Committed, BatchJob
    <2> QED BY <1>3, <2>1, <2>2, <2>3 DEF AtomInv
<1>5. ASSUME NEW f \in File, NEW g \in File, NEW len \in 1 .. 2,
             CommitBatch(f, g, len)
      PROVE  AtomInv'
    <2> DEFINE b == [ver |-> ops + 1, files |-> {f, g}]
    <2>1. /\ ops' = ops + 1 /\ begun' = begun + 1 /\ begun < MaxBatches
          /\ batches' = batches \union {b} /\ pc' = "append"
          /\ job'.op = "batch" /\ job'.files = {f, g}
        BY <1>5 DEF CommitBatch, Begin, Job
    <2>2. b.ver = ops + 1 /\ b.files = {f, g} OBVIOUS
    <2> HIDE DEF b
    <2>3. begun = 0 BY <1>0, <2>1
    <2>4. batches = {} /\ batches' = {b} BY <1>2, <2>1, <2>3 DEF Committed
    <2>5. \A a \in Addr : log[a] \in Part => log[a].ver <= ops /\ log[a].kind = "DATA"
        BY <1>1, <2>3 DEF FoundInv, Versions, Batches
    <2>6. /\ Reached(log, cpTail) /\ Reached(log, ftl)
          /\ up => Reached(log, writeAddr)
        BY <1>1 DEF ReachInv
    <2>7. \A x : Reached(log, x) /\ Settled({}, log, x) => Settled({b}, log, x)
        <3>1. \A c \in {b} : c.ver \in Nat /\ ops < c.ver /\ c.files \subseteq File
            BY <1>0, <2>2
        <3> QED BY <1>0, <2>5, <3>1, FreshSettled
    <2>8. /\ Settled({b}, log, cpTail) /\ Settled({b}, log, ftl)
          /\ up => Settled({b}, log, writeAddr)
        BY <1>2, <2>4, <2>6, <2>7 DEF AllSettled
    <2>9. AllSettled' BY <1>1, <2>4, <2>8 DEF AllSettled
    <2>10. OfBatch({b}, log)
        <3>1. \A a \in Addr : log[a] \in Part => log[a].ver \in Nat BY BoundsAre DEF Part
        <3> QED BY <1>0, <2>2, <2>5, <3>1 DEF OfBatch
    <2>11. OfBatch(batches, log)' BY <1>1, <2>4, <2>10
    <2>12. Committed' BY <1>0, <2>1, <2>2, <2>4 DEF Committed
    <2>13. BatchJob' BY <2>1, <2>2, <2>4 DEF BatchJob
    <2> QED BY <2>9, <2>11, <2>12, <2>13 DEF AtomInv
<1>6. CASE Umount
    <2>1. pc' = "eraseHead" /\ UNCHANGED <<ops, begun, batches>>
        BY <1>6 DEF Umount, bounds, history
    <2>2. Committed' /\ BatchJob' BY <1>2, <2>1 DEF Committed, BatchJob
    <2> QED BY <1>3, <2>1, <2>2 DEF AtomInv
<1> QED BY <1>4, <1>5, <1>6 DEF Start

(* A step that stores the tail or the head, or that ends an operation.     *)
LEMMA OtherAtom ==
    ASSUME OffsetRange = PerBlock, TypeInv, AtomInv,
           UNCHANGED <<log, spoilt, ops, begun, batches>>,
           pc' # "append" \/ UNCHANGED <<pc, job>>,
           up' => up /\ writeAddr' = writeAddr,
           cpTail' = cpTail \/ (cpTail' = Stored(writeAddr) /\ up),
           ftl' \in {ftl, 0} \/ (ftl' = Stored(writeAddr) /\ up)
    PROVE  AtomInv'
<1> SUFFICES ASSUME ~spoilt' PROVE AtomInv' BY DEF AtomInv
<1>1. Committed /\ OfBatch(batches, log) /\ BatchJob /\ AllSettled BY DEF AtomInv
<1>2. log \in LogType /\ Stored(writeAddr) = writeAddr
    BY TypeOKIs, StoredAll DEF TypeInv
<1>3. Settled(batches, log, 0) BY <1>1, <1>2, CommittedIs, SettledAtStart
<1>4. Committed' /\ BatchJob' BY <1>1 DEF Committed, BatchJob
<1>5. OfBatch(batches, log)' BY <1>1
<1>6. AllSettled' BY <1>1, <1>2, <1>3 DEF AllSettled
<1> QED BY <1>4, <1>5, <1>6 DEF AtomInv

LEMMA PowerCutAtom ==
    ASSUME OffsetRange = PerBlock, LogInv, AtomInv, PowerCut
    PROVE  AtomInv'
<1> SUFFICES ASSUME ~spoilt' PROVE AtomInv' BY DEF AtomInv
<1> USE DEF LogInv
<1>1. /\ ~spoilt /\ pc' = "idle" /\ ~up' /\ up
      /\ UNCHANGED <<cpTail, ftl, ops, begun, batches, spoilt>>
    BY DEF PowerCut, Off, history
<1>2. Versions /\ Written BY <1>1 DEF FoundInv
<1>3. Committed /\ OfBatch(batches, log) /\ BatchJob /\ AllSettled BY <1>1 DEF AtomInv
<1>4. PICK m : m = log' OBVIOUS
<1>5. CASE m = log
    <2>1. UNCHANGED <<log, spoilt, ops, begun, batches, cpTail, ftl>>
        BY <1>1, <1>4, <1>5
    <2> QED BY <1>1, <2>1, OtherAtom
<1>6. CASE pc = "append" /\ Grows(log, m, NextRecord) /\ Behind(log, m, writeAddr, NextRecord)
    <2>1. m \in LogType
        <3>1. TypeInv' BY NextType DEF Next
        <3> QED BY <1>4, <3>1 DEF TypeInv, TypeOK, LogType
    <2>2. \A s \in Addr : s < writeAddr => m[s] = log[s] BY <1>4, PowerCutSame
    <2>3. /\ Reached(log, writeAddr) /\ Reached(log, cpTail) /\ Reached(log, ftl)
          /\ cpTail <= writeAddr /\ ftl <= writeAddr
        BY <1>1 DEF ReachInv
    <2>4. Settled(batches, log, cpTail) /\ Settled(batches, log, ftl)
        BY <1>3 DEF AllSettled
    <2>5. Settled(batches, m, cpTail) /\ Settled(batches, m, ftl)
        BY <1>2, <1>3, <1>6, <2>1, <2>2, <2>3, <2>4, SettledOn
    <2>6. OfBatch(batches, m) BY <1>3, <1>6, <2>1, OfBatchOn
    <2>7. AllSettled' BY <1>1, <1>4, <2>5 DEF AllSettled
    <2>8. Committed' /\ BatchJob' BY <1>1, <1>3 DEF Committed, BatchJob
    <2>9. OfBatch(batches, log)' BY <1>1, <1>4, <2>6
    <2> QED BY <2>7, <2>8, <2>9 DEF AtomInv
<1>7. m = log \/ (pc = "append" /\ Grows(log, m, NextRecord)
                  /\ Behind(log, m, writeAddr, NextRecord))
    BY <1>1, <1>4, PowerCutWrites
<1> QED BY <1>5, <1>6, <1>7

LEMMA AppendAtom ==
    ASSUME LogInv, AtomInv, AppendRecord \/ RetryRecord
    PROVE  AtomInv'
<1> SUFFICES ASSUME ~spoilt' PROVE AtomInv' BY DEF AtomInv
<1> USE DEF LogInv
<1> DEFINE r == NextRecord
           w == writeAddr
           D == IF r.kind = "BATCH_COMMIT" THEN job.files ELSE {}
<1>0. /\ pc = "append" /\ ~spoilt /\ w \in Nat /\ log \in LogType /\ up
      /\ batches' = batches
    <2>1. pc = "append" /\ up BY Writes DEF TypeInv, Underway
    <2>2. PICK l, a, p : Appended(l, a, p) BY Writes
    <2>3. ~spoilt /\ batches' = batches BY <2>2 DEF Appended
    <2> QED BY <2>1, <2>3, TypeOKIs, BoundsAre DEF TypeInv
<1>1. Versions /\ Batches /\ Written /\ Newer(log, w) BY <1>0 DEF FoundInv, Known
<1>2. Committed /\ OfBatch(batches, log) /\ BatchJob /\ AllSettled BY <1>0 DEF AtomInv
<1>3. r \in Part /\ r.ver = ops BY <1>0, NextOfJob
<1>4. PICK m : m = log' OBVIOUS
<1>5. PICK a \in Addr :
        /\ writeAddr' = a + r.len
        /\ a = w \/ (w < a /\ a = BlockEnd(w))
        /\ m \in LogType /\ m[a] = r /\ Whole(m, a) /\ Grows(log, m, r)
        /\ \A s \in Addr : s < w => m[s] = log[s]
        /\ \A s \in Addr : a + r.len <= s /\ s < AlignUp(a + r.len) => m[s] = Blank
        /\ a # w => \/ w % PerBlock # 0 /\ log[w] # Blank
                    \/ \A p \in w .. a - 1 : Whole(m, p) => m[p] = r
        /\ Behind(log, m, w, r)
        /\ job' = [job EXCEPT !.todo = Tail(@)]
        /\ pc' = IF job.op # "batch" THEN "eraseHead"
                 ELSE IF Tail(job.todo) = << >> THEN "finish" ELSE "append"
        /\ UNCHANGED <<cpTail, ftl, up, ops, begun>>
    BY <1>4, Appending
<1>6. /\ Reached(log, w) /\ Reached(log, cpTail) /\ Reached(log, ftl)
      /\ cpTail <= w /\ ftl <= w
    BY <1>0 DEF ReachInv
<1>7. OfBatch(batches, m) BY <1>0, <1>2, <1>5, OfBatchOn
<1>8. Settled(batches, m, cpTail) /\ Settled(batches, m, ftl)
    <2>1. Settled(batches, log, cpTail) /\ Settled(batches, log, ftl)
        BY <1>2 DEF AllSettled
    <2> QED BY <1>0, <1>1, <1>2, <1>5, <1>6, <2>1, SettledOn
<1>9. AppendedAt(log, m, w, a, r)
    <2>1. OneBatch(m) /\ \A p \in Addr : m[p] \in Part => m[p].ver <= ops
        BY <1>0, <1>1, <1>5, RecordsOn
    <2> HIDE DEF w, r
    <2> QED BY <1>1, <1>3, <1>5, <1>6, <2>1 DEF AppendedAt
<1>10. WaitFor(D, log, w, r) /\ D \in SUBSET File
    <2>1. r.kind = "BATCH_COMMIT" =>
            /\ \A f \in job.files : Done(At(log, w), f, ops)
            /\ w % PerBlock # 0 => log[w] = Blank
        BY <1>0, <1>1, CommitFinds
    <2>2. job.files \in SUBSET File BY DEF TypeInv, Counters, JobType
    <2> HIDE DEF w, r
    <2> QED BY <1>3, <2>1, <2>2 DEF WaitFor
<1>11. r.kind = "BATCH_COMMIT" => \A b \in batches : b.files \subseteq D
    <2>1. r.kind = "BATCH_COMMIT" => job.op = "batch" BY <1>0, <1>1, CommitFinds
    <2> QED BY <1>0, <1>2, <2>1 DEF BatchJob
<1> DEFINE x == a + r.len
<1>12. AllAtomic(batches, At(m, x).table)
    <2>1. Settled(batches, log, w) BY <1>0, <1>2 DEF AllSettled
    <2>2. BatchType(batches) BY <1>2, CommittedIs
    <2>3. Behind(log, m, w, r) /\ log \in LogType /\ m \in LogType BY <1>0, <1>5
    <2> HIDE DEF w, r, D
    <2> QED BY <1>7, <1>9, <1>10, <1>11, <2>1, <2>2, <2>3, AppendAtomic
<1>13. Settled(batches, m, x)
    <2>1. \A p \in Addr : x <= p /\ p < AlignUp(x) => ~Whole(m, p)
        BY <1>5 DEF Whole, Header
    <2>2. m \in LogType BY <1>5
    <2> HIDE DEF x
    <2>3. Orderly(batches, m, x) BY <2>1, <2>2, NoneOrderly
    <2> QED BY <1>12, <2>3 DEF Settled
<1>14. writeAddr' = x BY <1>5
<1> HIDE DEF x, D, r, w
<1>15. AllSettled' BY <1>0, <1>4, <1>5, <1>8, <1>13, <1>14 DEF AllSettled
<1>16. OfBatch(batches, log)' BY <1>0, <1>4, <1>7
<1>17. Committed' BY <1>0, <1>2, <1>5 DEF Committed
<1>18. BatchJob'
    <2>1. job'.op = job.op /\ job'.files = job.files
        BY <1>5 DEF TypeInv, Counters, JobType
    <2> QED BY <1>0, <1>2, <1>5, <2>1 DEF BatchJob
<1> QED BY <1>15, <1>16, <1>17, <1>18 DEF AtomInv

LEMMA NextAtom ==
    ASSUME OffsetRange = PerBlock, MaxBatches <= 1, LogInv, AtomInv, [Next]_vars
    PROVE  AtomInv'
<1> USE DEF LogInv
<1>1. CASE Mount BY <1>1, MountAtom
<1>2. CASE Start BY <1>2, StartAtom
<1>3. CASE AppendRecord \/ RetryRecord BY <1>3, AppendAtom
<1>4. CASE EraseHead \/ WriteHead \/ HeadFails
    <2>1. /\ UNCHANGED <<log, spoilt, ops, begun, batches, cpTail, up, writeAddr>>
          /\ pc # "idle" /\ pc' # "append"
          /\ ftl' \in {ftl, 0} \/ ftl' = Stored(writeAddr)
        BY <1>4 DEF EraseHead, WriteHead, HeadFails, HeadOnly, ram, history
    <2>2. up BY <2>1 DEF TypeInv, Underway
    <2> QED BY <2>1, <2>2, OtherAtom
<1>5. CASE StoreCheckpoint \/ StoreFails
    <2>1. /\ UNCHANGED <<log, spoilt, ops, begun, batches, ftl, up, writeAddr>>
          /\ pc # "idle" /\ pc' # "append"
          /\ cpTail' \in {cpTail, Stored(writeAddr)}
        BY <1>5 DEF StoreCheckpoint, StoreFails, Due, bounds, history
    <2>2. up BY <2>1 DEF TypeInv, Underway
    <2> QED BY <2>1, <2>2, OtherAtom
<1>6. CASE Finish
    <2>1. /\ UNCHANGED <<log, spoilt, ops, begun, batches, cpTail, ftl>>
          /\ pc' # "append"
          /\ up' => up /\ writeAddr' = writeAddr
        BY <1>6 DEF Finish, Off, flash, bounds
    <2> QED BY <2>1, OtherAtom
<1>7. CASE PowerCut BY <1>7, PowerCutAtom
<1>8. CASE UNCHANGED vars
    <2>1. /\ UNCHANGED <<log, spoilt, ops, begun, batches, cpTail, ftl>>
          /\ UNCHANGED <<pc, job, up, writeAddr>>
        BY <1>8 DEF vars, flash, ram, bounds, history
    <2>2. /\ pc' # "append" \/ UNCHANGED <<pc, job>>
          /\ up' => up /\ writeAddr' = writeAddr
        BY <2>1
    <2> QED BY <2>1, <2>2, OtherAtom
<1> QED BY <1>1, <1>2, <1>3, <1>4, <1>5, <1>6, <1>7, <1>8 DEF Next, Step

(* A batch is all or nothing: whatever fails or is cut short, a mount that *)
(* finds one of its files as the batch left it finds the others so, or     *)
(* newer.  It holds while there is a head in flash, and no record has been *)
(* written where the flash was not blank; for one batch, whose id the next *)
(* mount gives away again, and when the offsets of a block fit the 16 bits *)
(* of the bounds.  (pgfs_core.c:526-545, 876-900, 1671-1740)               *)
THEOREM BatchesAreAtomic ==
    ASSUME OffsetRange = PerBlock, MaxBatches <= 1
    PROVE  Spec => []BatchIsAtomic
<1>1. Init => LogInv /\ AtomInv BY InitAll, InitAtom
<1>2. LogInv /\ AtomInv /\ [Next]_vars => LogInv' /\ AtomInv' BY NextAll, NextAtom
<1>3. LogInv /\ AtomInv => BatchIsAtomic
    <2> SUFFICES ASSUME LogInv, AtomInv, ~spoilt, ftl # 0
                 PROVE  AllAtomic(batches, Recovered)
        BY DEF BatchIsAtomic, AllAtomic
    <2> DEFINE b == Bound(cpTail, ftl)
    <2>1. log \in LogType /\ cpTail \in Nat /\ ftl \in Nat
        BY TypeOKIs, BoundsAre DEF LogInv, TypeInv
    <2>2. b \in {cpTail, ftl} /\ b # 0 BY <2>1 DEF Bound, Max2
    <2>3. Reached(log, b) BY BoundReached DEF LogInv
    <2>4. AllAtomic(batches, At(log, b).table)
        BY <2>2 DEF AtomInv, AllSettled, Settled
    <2>5. Recovered = At(log, b).table BY <2>1, <2>2, <2>3, ReplayTo DEF Recovered
    <2> QED BY <2>4, <2>5
<1> QED BY <1>1, <1>2, <1>3, PTL DEF Spec
=============================================================================
