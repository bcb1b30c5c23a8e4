-------------------------- MODULE NetSocketProofs --------------------------
(***************************************************************************)
(* Proofs about NetSocket, for one connection, and every number of slots,  *)
(* of addresses and of calls.                                              *)
(*                                                                         *)
(* Good(d) says what the mailbox of the tcpip thread may hold.  A message  *)
(* is for the socket that has its slot, or it is a close without a socket: *)
(* nothing then stands in the slot to be closed, and no create comes       *)
(* before it.  After the first close for a socket its slot gets closes     *)
(* only.  That a slot is given away while closes for it are on their way   *)
(* does no harm for that reason: they come before the next create.         *)
(*                                                                         *)
(* Tended and Owned say what becomes of a slot: one that is marked, or     *)
(* that the connection does not hold, leaves - it is lost, or has a close  *)
(* on its way, or socket.close is about to send one.                       *)
(*                                                                         *)
(* Guard says that a connection which counts on being told is told.  The   *)
(* argument is about one connection: what closes sockets, the connection's *)
(* own calls excepted, does not close its socket.                          *)
(***************************************************************************)
EXTENDS NetSocket, FiniteSetTheorems, NaturalsInduction, WellFoundedInduction, TLAPS

Op == {"create", "connect", "tx"} \union CloseOp
Msg == [op : Op, slot : Slot, tag : Nat] \union [op : {"dns"}, ctrl : Ctrl]

Clear(d, k) == d.pcb[k] = "none" /\ k \notin d.remoteClose

(* The message is for the socket that has its slot.                        *)
Meets(d, m) == m.slot \in d.used /\ d.tag[m.slot] = m.tag

IsAbout(m, k) == m.op # "dns" /\ m.slot = k

Pos(d) == 1 .. Len(d.mailbox)

CreateAt(d, i, k) == d.mailbox[i].op = "create" /\ d.mailbox[i].slot = k

(* A close that will find nothing to close.                                *)
Harmless(d, i) ==
    LET m == d.mailbox[i] IN
    /\ m.op \in CloseOp
    /\ Clear(d, m.slot)
    /\ \A j \in 1 .. i - 1 : ~CreateAt(d, j, m.slot)

Field == {"used", "closing", "remoteClose", "pcb", "tag", "param", "socketTag", "next", "mailbox"}

Owner == [Slot -> Ctrl \union {None}]

Driver(d) ==
    /\ DOMAIN d = Field
    /\ d.used \in SUBSET Slot /\ d.closing \in SUBSET Slot
    /\ DOMAIN d.pcb = Slot /\ d.param \in Owner
    /\ d.tag \in [Slot -> Nat] /\ d.socketTag \in Nat
    /\ \A k \in Slot : d.tag[k] <= d.socketTag
    /\ d.mailbox \in Seq(Msg)

Addressed(d) ==
    \A i \in Pos(d) :
        LET m == d.mailbox[i] IN
        m.op # "dns" => m.tag <= d.socketTag /\ (Meets(d, m) \/ Harmless(d, i))

ClosesLast(d) ==
    \A i \in Pos(d) : \A j \in i + 1 .. Len(d.mailbox) :
        LET m == d.mailbox[i] IN
        m.op \in CloseOp /\ Meets(d, m) /\ IsAbout(d.mailbox[j], m.slot) =>
            d.mailbox[j].op \in CloseOp

CreatesOnce(d) ==
    \A i \in Pos(d) :
        LET k == d.mailbox[i].slot IN
        d.mailbox[i].op = "create" =>
            Clear(d, k) /\ \A j \in Pos(d) : CreateAt(d, j, k) => j = i

FreeIsClear(d) == \A k \in Slot \ d.used : Clear(d, k)

Good(d) == Driver(d) /\ Addressed(d) /\ ClosesLast(d) /\ CreatesOnce(d) /\ FreeIsClear(d)

CloseSent(d, k) ==
    \E i \in Pos(d) : d.mailbox[i].op \in CloseOp /\ d.mailbox[i].slot = k /\ Meets(d, d.mailbox[i])
ToCreate(d, k) == \E i \in Pos(d) : CreateAt(d, i, k)

-----------------------------------------------------------------------------
(* The mailbox.                                                            *)

LEMMA MsgField == ASSUME NEW m \in Msg, m.op # "dns" PROVE m.slot \in Slot /\ m.tag \in Nat /\ m.op \in Op
BY DEF Msg

(* e is d with one more message.                                           *)
Sent(d, e, m) ==
    /\ DOMAIN e = Field
    /\ e.used = d.used /\ e.closing = d.closing /\ e.remoteClose = d.remoteClose
    /\ e.pcb = d.pcb /\ e.tag = d.tag /\ e.param = d.param /\ e.socketTag = d.socketTag
    /\ e.mailbox = Append(d.mailbox, m)

LEMMA SentSame ==
    ASSUME NEW d, NEW e, NEW m \in Msg, Good(d), Sent(d, e, m)
    PROVE  /\ e.mailbox \in Seq(Msg) /\ Len(d.mailbox) \in Nat
           /\ Len(e.mailbox) = Len(d.mailbox) + 1
           /\ e.mailbox[Len(e.mailbox)] = m
           /\ Pos(e) = Pos(d) \union {Len(e.mailbox)}
           /\ \A i \in Pos(d) : e.mailbox[i] = d.mailbox[i]
           /\ \A k : Clear(e, k) <=> Clear(d, k)
           /\ \A n : Meets(e, n) <=> Meets(d, n)
           /\ Driver(e)
<1>1. d.mailbox \in Seq(Msg) BY DEF Good, Driver
<1>2. /\ e.mailbox \in Seq(Msg) /\ Len(d.mailbox) \in Nat
      /\ Len(e.mailbox) = Len(d.mailbox) + 1
      /\ e.mailbox[Len(e.mailbox)] = m
      /\ \A i \in 1 .. Len(d.mailbox) : e.mailbox[i] = d.mailbox[i]
    BY <1>1 DEF Sent
<1>3. Pos(e) = Pos(d) \union {Len(e.mailbox)} BY <1>2 DEF Pos
<1>4. (\A k : Clear(e, k) <=> Clear(d, k)) /\ \A n : Meets(e, n) <=> Meets(d, n)
    BY DEF Sent, Clear, Meets
<1>5. Driver(e) BY <1>2 DEF Good, Driver, Sent
<1> QED BY <1>2, <1>3, <1>4, <1>5 DEF Pos

(* A message other than a close goes to a socket that no close was sent    *)
(* for.                                                                    *)
LEMMA SentGood ==
    ASSUME NEW d, NEW e, NEW m \in Msg, Good(d), Sent(d, e, m),
           m.op \in CloseOp =>
               /\ m.slot \in Slot /\ m.tag = d.tag[m.slot],
           m.op \notin CloseOp /\ m.op # "dns" =>
               Meets(d, m) /\ ~CloseSent(d, m.slot),
           m.op = "create" => Clear(d, m.slot) /\ ~ToCreate(d, m.slot)
    PROVE  /\ Good(e)
           /\ \A k : CloseSent(d, k) => CloseSent(e, k)
           /\ \A k : CloseSent(e, k) =>
                  CloseSent(d, k) \/ (m.op \in CloseOp /\ m.slot = k /\ k \in d.used)
           /\ m.op \in CloseOp /\ m.slot \in d.used => CloseSent(e, m.slot)
           /\ \A k : ToCreate(d, k) => ToCreate(e, k)
           /\ m.op = "create" => ToCreate(e, m.slot)
<1> DEFINE n == Len(e.mailbox)
<1>1. /\ e.mailbox \in Seq(Msg) /\ Len(d.mailbox) \in Nat
      /\ n = Len(d.mailbox) + 1
      /\ e.mailbox[n] = m
      /\ Pos(e) = Pos(d) \union {n}
      /\ \A i \in Pos(d) : e.mailbox[i] = d.mailbox[i]
      /\ \A k : Clear(e, k) <=> Clear(d, k)
      /\ \A x : Meets(e, x) <=> Meets(d, x)
      /\ Driver(e)
    BY SentSame
<1>2. e.tag = d.tag /\ e.socketTag = d.socketTag /\ e.used = d.used BY DEF Sent
<1>3. Pos(d) = 1 .. Len(d.mailbox) /\ Pos(e) = 1 .. n BY DEF Pos
<1> HIDE DEF n
<1>4. \A i \in Pos(d) : \A k : CreateAt(e, i, k) <=> CreateAt(d, i, k) BY <1>1 DEF CreateAt
<1>5. \A i \in Pos(d) : Harmless(e, i) <=> Harmless(d, i)
    <2> TAKE i \in Pos(d)
    <2>1. \A j \in 1 .. i - 1 : j \in Pos(d) BY <1>1, <1>3
    <2> QED BY <1>1, <1>4, <2>1 DEF Harmless
<1>6. Addressed(e)
    <2> SUFFICES ASSUME NEW i \in Pos(e), e.mailbox[i].op # "dns"
                 PROVE  /\ e.mailbox[i].tag <= e.socketTag
                        /\ Meets(e, e.mailbox[i]) \/ Harmless(e, i)
        BY DEF Addressed
    <2>1. CASE i \in Pos(d) BY <2>1, <1>1, <1>2, <1>5 DEF Good, Addressed
    <2>2. CASE i = n
        <3>1. m.op # "dns" /\ m.slot \in Slot BY <2>2, <1>1, MsgField
        <3>2. CASE m.op \notin CloseOp
            <4>1. Meets(d, m) BY <3>1, <3>2
            <4>2. m.tag <= d.socketTag BY <3>1, <4>1 DEF Good, Driver, Meets
            <4> QED BY <4>1, <4>2, <2>2, <1>1, <1>2
        <3>3. CASE m.op \in CloseOp /\ m.slot \in d.used
            <4>1. Meets(d, m) BY <3>3 DEF Meets
            <4>2. m.tag <= d.socketTag BY <3>1, <4>1 DEF Good, Driver, Meets
            <4> QED BY <4>1, <4>2, <2>2, <1>1, <1>2
        <3>4. CASE m.op \in CloseOp /\ m.slot \notin d.used
            <4>1. Clear(d, m.slot) BY <3>1, <3>4 DEF Good, FreeIsClear
            <4>2. m.tag <= d.socketTag BY <3>1, <3>4 DEF Good, Driver
            <4>3. ASSUME NEW j \in Pos(d), CreateAt(d, j, m.slot) PROVE FALSE
                <5>1. d.mailbox[j].op = "create" /\ d.mailbox[j].slot = m.slot
                    BY <4>3 DEF CreateAt
                <5>2. Meets(d, d.mailbox[j]) \/ Harmless(d, j)
                    BY <5>1 DEF Good, Addressed
                <5> QED BY <5>1, <5>2, <3>4 DEF Meets, Harmless, CloseOp
            <4>4. \A j \in 1 .. n - 1 : ~CreateAt(e, j, m.slot)
                BY <4>3, <1>1, <1>3, <1>4
            <4>5. Harmless(e, n) BY <3>4, <4>1, <4>4, <1>1 DEF Harmless
            <4> QED BY <4>2, <4>5, <2>2, <1>1, <1>2
        <3> QED BY <3>2, <3>3, <3>4
    <2> QED BY <2>1, <2>2, <1>1
<1>7. ClosesLast(e)
    <2> SUFFICES ASSUME NEW i \in Pos(e), NEW j \in i + 1 .. n,
                        e.mailbox[i].op \in CloseOp, Meets(e, e.mailbox[i]),
                        IsAbout(e.mailbox[j], e.mailbox[i].slot)
                 PROVE  e.mailbox[j].op \in CloseOp
        BY DEF ClosesLast, n
    <2>1. i \in Pos(d) /\ e.mailbox[i] = d.mailbox[i] BY <1>1, <1>3
    <2>2. CASE j = n
        <3>1. CloseSent(d, d.mailbox[i].slot) BY <2>1, <1>1 DEF CloseSent
        <3> QED BY <3>1, <2>1, <2>2, <1>1 DEF IsAbout
    <2>3. CASE j # n
        <3>1. j \in Pos(d) /\ j \in i + 1 .. Len(d.mailbox) BY <2>1, <2>3, <1>1, <1>3
        <3> QED BY <3>1, <2>1, <1>1 DEF Good, ClosesLast
    <2> QED BY <2>2, <2>3
<1>8. CreatesOnce(e)
    <2> SUFFICES ASSUME NEW i \in Pos(e), e.mailbox[i].op = "create"
                 PROVE  /\ Clear(e, e.mailbox[i].slot)
                        /\ \A j \in Pos(e) : CreateAt(e, j, e.mailbox[i].slot) => j = i
        BY DEF CreatesOnce
    <2>1. CASE i \in Pos(d)
        <3>1. e.mailbox[i] = d.mailbox[i] /\ ToCreate(d, d.mailbox[i].slot)
            BY <2>1, <1>1 DEF ToCreate, CreateAt
        <3>2. ~CreateAt(e, n, e.mailbox[i].slot) BY <3>1, <1>1 DEF CreateAt
        <3> QED BY <2>1, <3>1, <3>2, <1>1, <1>4 DEF Good, CreatesOnce
    <2>2. CASE i = n
        <3>1. m.op = "create" /\ Clear(d, m.slot) /\ ~ToCreate(d, m.slot)
            BY <2>2, <1>1
        <3> QED BY <2>2, <3>1, <1>1, <1>4 DEF ToCreate
    <2> QED BY <2>1, <2>2, <1>1
<1>9. FreeIsClear(e) BY <1>1, <1>2 DEF Good, FreeIsClear
<1>10. Good(e) BY <1>1, <1>6, <1>7, <1>8, <1>9 DEF Good
<1>11. \A k : CloseSent(d, k) => CloseSent(e, k) BY <1>1 DEF CloseSent
<1>12. ASSUME NEW k, CloseSent(e, k)
       PROVE  CloseSent(d, k) \/ (m.op \in CloseOp /\ m.slot = k /\ k \in d.used)
    <2>1. PICK i \in Pos(e) : /\ e.mailbox[i].op \in CloseOp /\ e.mailbox[i].slot = k
                              /\ Meets(e, e.mailbox[i])
        BY <1>12 DEF CloseSent
    <2>2. CASE i \in Pos(d) BY <2>1, <2>2, <1>1 DEF CloseSent
    <2>3. CASE i = n BY <2>1, <2>3, <1>1, <1>2 DEF Meets
    <2> QED BY <2>2, <2>3, <1>1
<1>13. m.op \in CloseOp /\ m.slot \in d.used => CloseSent(e, m.slot)
    BY <1>1, <1>2 DEF CloseSent, Meets
<1>14. \A k : ToCreate(d, k) => ToCreate(e, k) BY <1>1, <1>4 DEF ToCreate
<1>15. m.op = "create" => ToCreate(e, m.slot) BY <1>1 DEF ToCreate, CreateAt
<1> QED BY <1>10, <1>11, <1>12, <1>13, <1>14, <1>15

(* The slot that is given to a new socket is free.                         *)
LEMMA NextIsFree ==
    ASSUME NEW d, Free(d) # {}
    PROVE  GenNextSocketId(d) \in Free(d)
<1> USE SocketAssumption
<1>1. Free(d) \subseteq Nat BY DEF Free, Slot
<1>2. PICK k \in Free(d) : \A j \in Free(d) : ~(<<j, k>> \in OpToRel(<, Nat))
    BY <1>1, NatLessThanWellFounded, WFMin
<1>3. \A j \in Free(d) : k <= j
    <2> SUFFICES ASSUME NEW j \in Free(d), j < k PROVE FALSE
        BY <1>1
    <2>1. <<j, k>> \in Nat \X Nat /\ <<j, k>>[1] < <<j, k>>[2]
        BY <1>1
    <2>2. <<j, k>> \in OpToRel(<, Nat)
        BY <2>1, Zenon DEF OpToRel
    <2> QED BY <1>2, <2>2
<1>4. (CHOOSE i \in Free(d) : \A j \in Free(d) : i <= j) \in Free(d)
    BY <1>3
<1> QED BY <1>4 DEF GenNextSocketId

(* A finite set can be arranged in a sequence, each member once.           *)
LEMMA Arrangement ==
    ASSUME NEW S \in SUBSET Slot
    PROVE  LET q == Arranged(S) IN
           /\ q \in Seq(S)
           /\ \A i, j \in DOMAIN q : q[i] = q[j] => i = j
           /\ \A k \in S : \E i \in DOMAIN q : q[i] = k
<1> DEFINE q == Arranged(S)
<1>1. IsFiniteSet(S)
    <2>1. 0 \in Int /\ MaxSock - 1 \in Int BY SocketAssumption
    <2>2. IsFiniteSet(Slot) BY <2>1, FS_Interval DEF Slot
    <2> QED BY <2>2, FS_Subset
<1>2. PICK n \in Nat : ExistsBijection(1 .. n, S)
    BY <1>1, FS_NatBijection
<1>3. Cardinality(S) = n
    BY <1>2, FS_CountingElements
<1>4. \E f \in [1 .. n -> S] : \A i, j \in DOMAIN f : f[i] = f[j] => i = j
    BY <1>2 DEF ExistsBijection, Bijection, Injection, IsInjective
<1>5. q \in [1 .. n -> S] /\ \A i, j \in DOMAIN q : q[i] = q[j] => i = j
    BY <1>3, <1>4 DEF Arranged
<1> HIDE DEF q
<1>6. q \in Injection(1 .. n, S)
    BY <1>5 DEF Injection, IsInjective
<1>7. Cardinality(1 .. n) = n
    BY FS_Interval
<1>8. q \in Surjection(1 .. n, S)
    BY <1>1, <1>3, <1>6, <1>7, FS_Injection
<1>9. \A k \in S : \E i \in DOMAIN q : q[i] = k
    BY <1>5, <1>8 DEF Surjection
<1>10. q \in Seq(S) BY <1>5
<1> QED BY <1>5, <1>9, <1>10 DEF q

(* e is d without the first message; what happened to the pcb and to       *)
(* remote_close of a slot that had neither is that it was created.         *)
Took(d, e) ==
    LET m == Head(d.mailbox) IN
    /\ DOMAIN e = Field
    /\ e.used = d.used /\ e.closing = d.closing
    /\ DOMAIN e.pcb = Slot /\ e.tag = d.tag /\ e.param = d.param /\ e.socketTag = d.socketTag
    /\ e.mailbox = Tail(d.mailbox)
    /\ \A k \in Slot : Clear(d, k) => Clear(e, k) \/ (m.op = "create" /\ m.slot = k)

LEMMA Shifted ==
    ASSUME NEW d, NEW e, Good(d), d.mailbox # << >>, e.mailbox = Tail(d.mailbox)
    PROVE  /\ e.mailbox \in Seq(Msg) /\ 1 \in Pos(d) /\ d.mailbox[1] = Head(d.mailbox)
           /\ Head(d.mailbox) \in Msg
           /\ Len(e.mailbox) \in Nat /\ Len(d.mailbox) = Len(e.mailbox) + 1
           /\ \A i \in Pos(e) : i + 1 \in Pos(d) /\ e.mailbox[i] = d.mailbox[i + 1]
           /\ \A i \in Pos(d) : i = 1 \/ i - 1 \in Pos(e)
<1>1. d.mailbox \in Seq(Msg) BY DEF Good, Driver
<1> QED BY <1>1 DEF Pos

LEMMA TookGood ==
    ASSUME NEW d, NEW e, Good(d), d.mailbox # << >>, Took(d, e)
    PROVE  LET m == Head(d.mailbox) IN
           /\ Good(e)
           /\ \A k : CloseSent(e, k) => CloseSent(d, k)
           /\ \A k : CloseSent(d, k) =>
                  CloseSent(e, k) \/ (m.op \in CloseOp /\ m.slot = k /\ Meets(d, m))
           /\ \A k : ToCreate(e, k) => ToCreate(d, k)
           /\ \A k : ToCreate(d, k) => ToCreate(e, k) \/ (m.op = "create" /\ m.slot = k)
<1> DEFINE m == Head(d.mailbox)
           n == Len(e.mailbox)
<1>1. /\ e.mailbox \in Seq(Msg) /\ 1 \in Pos(d) /\ d.mailbox[1] = m /\ m \in Msg
      /\ n \in Nat /\ Len(d.mailbox) = n + 1
      /\ \A i \in Pos(e) : i + 1 \in Pos(d) /\ e.mailbox[i] = d.mailbox[i + 1]
      /\ \A i \in Pos(d) : i = 1 \/ i - 1 \in Pos(e)
    <2>1. e.mailbox = Tail(d.mailbox) BY DEF Took
    <2> QED BY <2>1, Shifted, ZenonT(30)
<1>2. Pos(e) = 1 .. n /\ Pos(d) = 1 .. n + 1 BY <1>1 DEF Pos
<1>3. e.tag = d.tag /\ e.socketTag = d.socketTag /\ e.used = d.used BY DEF Took
<1>4. \A x : Meets(e, x) <=> Meets(d, x) BY <1>3 DEF Meets
<1>5. \A k \in Slot : Clear(d, k) => Clear(e, k) \/ (m.op = "create" /\ m.slot = k)
    BY DEF Took
<1> HIDE DEF m, n
<1>6. \A i \in Pos(e) : \A k : CreateAt(e, i, k) <=> CreateAt(d, i + 1, k)
    BY <1>1 DEF CreateAt
<1>7. \A i \in Pos(d) : \A k : ~(CreateAt(d, i, k) /\ i # 1 /\ m.op = "create" /\ m.slot = k)
    BY <1>1 DEF Good, CreatesOnce, CreateAt
<1>8. Driver(e) BY <1>1 DEF Good, Driver, Took
<1>9. Addressed(e)
    <2> SUFFICES ASSUME NEW i \in Pos(e), e.mailbox[i].op # "dns"
                 PROVE  /\ e.mailbox[i].tag <= e.socketTag
                        /\ Meets(e, e.mailbox[i]) \/ Harmless(e, i)
        BY DEF Addressed
    <2>1. /\ e.mailbox[i] = d.mailbox[i + 1] /\ i + 1 \in Pos(d)
          /\ e.mailbox[i].tag <= e.socketTag
          /\ Meets(d, e.mailbox[i]) \/ Harmless(d, i + 1)
        BY <1>1, <1>3 DEF Good, Addressed
    <2>2. CASE Harmless(d, i + 1)
        <3> DEFINE k == e.mailbox[i].slot
        <3>1. /\ e.mailbox[i].op \in CloseOp /\ Clear(d, k)
              /\ \A j \in 1 .. i : ~CreateAt(d, j, k)
            BY <2>1, <2>2, <1>1, <1>2, SMTT(30) DEF Harmless
        <3>2. k \in Slot BY <1>1, <2>1, MsgField DEF Pos
        <3>3. ~(m.op = "create" /\ m.slot = k)
            <4>1. ~CreateAt(d, 1, k) BY <3>1, <1>2
            <4> QED BY <4>1, <1>1 DEF CreateAt
        <3>4. Clear(e, k) BY <3>1, <3>2, <3>3, <1>5
        <3>5. \A j \in 1 .. i - 1 : ~CreateAt(e, j, k)
            <4> TAKE j \in 1 .. i - 1
            <4>1. j \in Pos(e) /\ j + 1 \in 1 .. i BY <1>1, <1>2
            <4> QED BY <4>1, <3>1, <1>6
        <3> QED BY <2>1, <3>1, <3>4, <3>5 DEF Harmless
    <2> QED BY <2>1, <2>2, <1>4
<1>10. ClosesLast(e)
    <2> SUFFICES ASSUME NEW i \in Pos(e), NEW j \in i + 1 .. n,
                        e.mailbox[i].op \in CloseOp, Meets(e, e.mailbox[i]),
                        IsAbout(e.mailbox[j], e.mailbox[i].slot)
                 PROVE  e.mailbox[j].op \in CloseOp
        BY DEF ClosesLast, n
    <2>1. j \in Pos(e) /\ j + 1 \in i + 1 + 1 .. n + 1 BY <1>1, <1>2, SMTT(30)
    <2>2. /\ i + 1 \in Pos(d) /\ e.mailbox[i] = d.mailbox[i + 1]
          /\ e.mailbox[j] = d.mailbox[j + 1]
        BY <2>1, <1>1
    <2> QED BY <2>1, <2>2, <1>1, <1>4 DEF Good, ClosesLast
<1>11. CreatesOnce(e)
    <2> SUFFICES ASSUME NEW i \in Pos(e), e.mailbox[i].op = "create"
                 PROVE  /\ Clear(e, e.mailbox[i].slot)
                        /\ \A j \in Pos(e) : CreateAt(e, j, e.mailbox[i].slot) => j = i
        BY DEF CreatesOnce
    <2> DEFINE k == e.mailbox[i].slot
    <2>1. i + 1 \in Pos(d) /\ e.mailbox[i] = d.mailbox[i + 1] /\ i \in Nat BY <1>1, <1>2
    <2>2. Clear(d, k) /\ \A j \in Pos(d) : CreateAt(d, j, k) => j = i + 1
        BY <2>1 DEF Good, CreatesOnce
    <2>3. CreateAt(d, i + 1, k) /\ i + 1 # 1 BY <2>1, <1>2 DEF CreateAt
    <2>4. ~(m.op = "create" /\ m.slot = k) BY <2>1, <2>3, <1>7
    <2>5. k \in Slot
        <3>1. e.mailbox[i] \in Msg BY <1>1 DEF Pos
        <3> QED BY <3>1, MsgField
    <2>6. Clear(e, k) BY <2>2, <2>4, <2>5, <1>5
    <2>7. ASSUME NEW j \in Pos(e), CreateAt(e, j, k) PROVE j = i
        <3>1. j \in Nat /\ j + 1 \in Pos(d) /\ CreateAt(d, j + 1, k) BY <2>7, <1>1, <1>2, <1>6
        <3>2. j + 1 = i + 1 BY <3>1, <2>2
        <3> QED BY <3>1, <3>2, <2>1
    <2> QED BY <2>6, <2>7
<1>12. FreeIsClear(e)
    <2> SUFFICES ASSUME NEW k \in Slot \ d.used PROVE Clear(e, k)
        BY <1>3 DEF FreeIsClear
    <2>1. Clear(d, k) BY DEF Good, FreeIsClear
    <2>2. ~(m.op = "create" /\ m.slot = k)
        <3> SUFFICES ASSUME m.op = "create", m.slot = k PROVE FALSE OBVIOUS
        <3>1. Meets(d, m) \/ Harmless(d, 1) BY <1>1 DEF Good, Addressed
        <3> QED BY <3>1, <1>1 DEF Meets, Harmless, CloseOp
    <2> QED BY <2>1, <2>2, <1>5
<1>13. Good(e) BY <1>8, <1>9, <1>10, <1>11, <1>12 DEF Good
<1>14. \A k : CloseSent(e, k) => CloseSent(d, k) BY <1>1, <1>4 DEF CloseSent
<1>15. ASSUME NEW k, CloseSent(d, k)
       PROVE  CloseSent(e, k) \/ (m.op \in CloseOp /\ m.slot = k /\ Meets(d, m))
    <2>1. PICK i \in Pos(d) : /\ d.mailbox[i].op \in CloseOp /\ d.mailbox[i].slot = k
                              /\ Meets(d, d.mailbox[i])
        BY <1>15 DEF CloseSent
    <2>2. CASE i = 1 BY <2>1, <2>2, <1>1
    <2>3. CASE i # 1
        <3>1. i - 1 \in Pos(e) BY <2>3, <1>1
        <3>2. e.mailbox[i - 1] = d.mailbox[i] BY <3>1, <1>1, <1>2
        <3> QED BY <3>1, <3>2, <2>1, <1>4 DEF CloseSent
    <2> QED BY <2>2, <2>3
<1>16. \A k : ToCreate(e, k) => ToCreate(d, k) BY <1>1, <1>6 DEF ToCreate
<1>17. ASSUME NEW k, ToCreate(d, k) PROVE ToCreate(e, k) \/ (m.op = "create" /\ m.slot = k)
    <2>1. PICK i \in Pos(d) : CreateAt(d, i, k) BY <1>17 DEF ToCreate
    <2>2. CASE i = 1 BY <2>1, <2>2, <1>1 DEF CreateAt
    <2>3. CASE i # 1
        <3>1. i - 1 \in Pos(e) BY <2>3, <1>1
        <3>2. e.mailbox[i - 1] = d.mailbox[i] BY <3>1, <1>1, <1>2
        <3> QED BY <3>1, <3>2, <2>1 DEF ToCreate, CreateAt
    <2> QED BY <2>2, <2>3
<1> QED BY <1>13, <1>14, <1>15, <1>16, <1>17 DEF m

(* e is d without the first message, a close that acted.                   *)
Freed(d, e) ==
    LET k == Head(d.mailbox).slot IN
    /\ DOMAIN e = Field
    /\ e.used = d.used \ {k} /\ e.closing = d.closing \ {k}
    /\ DOMAIN e.pcb = Slot /\ e.param \in Owner
    /\ e.tag = d.tag /\ e.socketTag = d.socketTag
    /\ e.mailbox = Tail(d.mailbox)
    /\ Clear(e, k) /\ \A j \in Slot \ {k} : Clear(e, j) <=> Clear(d, j)

LEMMA FreedGood ==
    ASSUME NEW d, NEW e, Good(d), d.mailbox # << >>,
           Head(d.mailbox).op \in CloseOp, ~Clear(d, Head(d.mailbox).slot), Freed(d, e)
    PROVE  LET k == Head(d.mailbox).slot IN
           /\ Good(e)
           /\ Meets(d, Head(d.mailbox))
           /\ \A j : CloseSent(e, j) => CloseSent(d, j)
           /\ \A j : j # k /\ CloseSent(d, j) => CloseSent(e, j)
           /\ \A j : ToCreate(d, j) => ToCreate(e, j)
<1> DEFINE m == Head(d.mailbox)
           k == m.slot
           n == Len(e.mailbox)
<1>1. /\ e.mailbox \in Seq(Msg) /\ 1 \in Pos(d) /\ d.mailbox[1] = m /\ m \in Msg
      /\ n \in Nat /\ Len(d.mailbox) = n + 1
      /\ \A i \in Pos(e) : i + 1 \in Pos(d) /\ e.mailbox[i] = d.mailbox[i + 1]
      /\ \A i \in Pos(d) : i = 1 \/ i - 1 \in Pos(e)
    <2>1. e.mailbox = Tail(d.mailbox) BY DEF Freed
    <2> QED BY <2>1, Shifted, ZenonT(30)
<1>2. Pos(e) = 1 .. n /\ Pos(d) = 1 .. n + 1 BY <1>1 DEF Pos
<1>3. e.tag = d.tag /\ e.socketTag = d.socketTag /\ e.used = d.used \ {k} BY DEF Freed
<1>4. m.op \in CloseOp /\ m.op # "dns" /\ k \in Slot BY <1>1, MsgField DEF CloseOp
<1>5. Meets(d, m)
    BY <1>1, <1>4 DEF Good, Addressed, Harmless
<1>6. Clear(e, k) /\ ~Clear(d, k) /\ \A j \in Slot \ {k} : Clear(e, j) <=> Clear(d, j)
    BY DEF Freed
<1> HIDE DEF m, n, k
<1>7. \A x : Meets(e, x) = (Meets(d, x) /\ x.slot # k) BY <1>3 DEF Meets
<1>8. \A i \in Pos(e) : \A j : CreateAt(e, i, j) <=> CreateAt(d, i + 1, j)
    BY <1>1 DEF CreateAt
<1>9. ASSUME NEW i \in Pos(e), IsAbout(e.mailbox[i], k) PROVE e.mailbox[i].op \in CloseOp
    <2>1. i + 1 \in 2 .. n + 1 BY <1>1, <1>2
    <2> QED BY <1>9, <2>1, <1>1, <1>4, <1>5 DEF Good, ClosesLast, k
<1>10. \A i \in Pos(e) : ~CreateAt(e, i, k) BY <1>9 DEF CreateAt, IsAbout, CloseOp
<1>11. Driver(e)
    <2>1. d.used \in SUBSET Slot /\ d.closing \in SUBSET Slot BY DEF Good, Driver
    <2>2. e.used \in SUBSET Slot /\ e.closing \in SUBSET Slot BY <2>1 DEF Freed
    <2> QED BY <1>1, <1>3, <2>2 DEF Good, Driver, Freed
<1>12. Addressed(e)
    <2> SUFFICES ASSUME NEW i \in Pos(e), e.mailbox[i].op # "dns"
                 PROVE  /\ e.mailbox[i].tag <= e.socketTag
                        /\ Meets(e, e.mailbox[i]) \/ Harmless(e, i)
        BY DEF Addressed
    <2> DEFINE l == e.mailbox[i].slot
    <2>1. /\ e.mailbox[i] = d.mailbox[i + 1] /\ i + 1 \in Pos(d)
          /\ e.mailbox[i].tag <= e.socketTag
          /\ Meets(d, e.mailbox[i]) \/ Harmless(d, i + 1)
        BY <1>1, <1>3 DEF Good, Addressed
    <2>2. \A j \in 1 .. i - 1 : j \in Pos(e) /\ j + 1 \in 1 .. i BY <1>1, <1>2
    <2>3. l \in Slot
        <3>1. e.mailbox[i] \in Msg BY <1>1 DEF Pos
        <3> QED BY <3>1, MsgField
    <2>4. CASE l = k
        <3>1. e.mailbox[i].op \in CloseOp BY <2>4, <1>9 DEF IsAbout
        <3>2. Harmless(e, i) BY <3>1, <2>2, <2>4, <1>6, <1>10 DEF Harmless
        <3> QED BY <3>2, <2>1
    <2>5. CASE l # k /\ Harmless(d, i + 1)
        <3>1. /\ e.mailbox[i].op \in CloseOp /\ Clear(d, l)
              /\ \A j \in 1 .. i : ~CreateAt(d, j, l)
            BY <2>1, <2>5, <1>1, <1>2 DEF Harmless
        <3>2. \A j \in 1 .. i - 1 : ~CreateAt(e, j, l) BY <3>1, <2>2, <1>8
        <3>3. Harmless(e, i) BY <3>1, <3>2, <2>3, <2>5, <1>6 DEF Harmless
        <3> QED BY <3>3, <2>1
    <2> QED BY <2>1, <2>4, <2>5, <1>7
<1>13. ClosesLast(e)
    <2> SUFFICES ASSUME NEW i \in Pos(e), NEW j \in i + 1 .. n,
                        e.mailbox[i].op \in CloseOp, Meets(e, e.mailbox[i]),
                        IsAbout(e.mailbox[j], e.mailbox[i].slot)
                 PROVE  e.mailbox[j].op \in CloseOp
        BY DEF ClosesLast, n
    <2>1. j \in Pos(e) /\ j + 1 \in i + 1 + 1 .. n + 1 BY <1>1, <1>2
    <2>2. /\ i + 1 \in Pos(d) /\ e.mailbox[i] = d.mailbox[i + 1]
          /\ e.mailbox[j] = d.mailbox[j + 1] /\ Meets(d, e.mailbox[i])
        BY <2>1, <1>1, <1>7
    <2> QED BY <2>1, <2>2, <1>1 DEF Good, ClosesLast
<1>14. CreatesOnce(e)
    <2> SUFFICES ASSUME NEW i \in Pos(e), e.mailbox[i].op = "create"
                 PROVE  /\ Clear(e, e.mailbox[i].slot)
                        /\ \A j \in Pos(e) : CreateAt(e, j, e.mailbox[i].slot) => j = i
        BY DEF CreatesOnce
    <2> DEFINE l == e.mailbox[i].slot
    <2>1. i + 1 \in Pos(d) /\ e.mailbox[i] = d.mailbox[i + 1] /\ i \in Nat BY <1>1, <1>2
    <2>2. Clear(d, l) /\ \A j \in Pos(d) : CreateAt(d, j, l) => j = i + 1
        BY <2>1 DEF Good, CreatesOnce
    <2>3. l \in Slot
        <3>1. e.mailbox[i] \in Msg BY <1>1 DEF Pos
        <3> QED BY <3>1, MsgField
    <2>4. Clear(e, l) BY <2>2, <2>3, <1>6
    <2>5. ASSUME NEW j \in Pos(e), CreateAt(e, j, l) PROVE j = i
        <3>1. j \in Nat /\ j + 1 \in Pos(d) /\ CreateAt(d, j + 1, l) BY <2>5, <1>1, <1>2, <1>8
        <3>2. j + 1 = i + 1 BY <3>1, <2>2
        <3> QED BY <3>1, <3>2, <2>1
    <2> QED BY <2>4, <2>5
<1>15. FreeIsClear(e)
    BY <1>3, <1>6 DEF Good, FreeIsClear
<1>16. Good(e) BY <1>11, <1>12, <1>13, <1>14, <1>15 DEF Good
<1>17. \A j : CloseSent(e, j) => CloseSent(d, j) BY <1>1, <1>7 DEF CloseSent
<1>18. ASSUME NEW j, j # k, CloseSent(d, j) PROVE CloseSent(e, j)
    <2>1. PICK i \in Pos(d) : /\ d.mailbox[i].op \in CloseOp /\ d.mailbox[i].slot = j
                              /\ Meets(d, d.mailbox[i])
        BY <1>18 DEF CloseSent
    <2>2. i # 1 BY <2>1, <1>1, <1>18 DEF k
    <2>3. i - 1 \in Pos(e) BY <2>2, <1>1
    <2>4. e.mailbox[i - 1] = d.mailbox[i] BY <2>3, <1>1, <1>2
    <2> QED BY <2>1, <2>3, <2>4, <1>7, <1>18 DEF CloseSent
<1>19. ASSUME NEW j, ToCreate(d, j) PROVE ToCreate(e, j)
    <2>1. PICK i \in Pos(d) : CreateAt(d, i, j) BY <1>19 DEF ToCreate
    <2>2. i # 1 BY <2>1, <1>1, <1>4 DEF CreateAt, CloseOp
    <2>3. i - 1 \in Pos(e) BY <2>2, <1>1
    <2>4. e.mailbox[i - 1] = d.mailbox[i] BY <2>3, <1>1, <1>2
    <2> QED BY <2>1, <2>3, <2>4 DEF ToCreate, CreateAt
<1> QED BY <1>5, <1>16, <1>17, <1>18, <1>19 DEF m, k

(* e is d, its mailbox included, with other marks, and a pcb or            *)
(* remote_close only where there was one.                                  *)
Kin(d, e) ==
    /\ DOMAIN e = Field
    /\ e.used = d.used /\ e.closing \in SUBSET Slot
    /\ DOMAIN e.pcb = Slot /\ e.param \in Owner
    /\ e.tag = d.tag /\ e.socketTag = d.socketTag
    /\ e.mailbox = d.mailbox
    /\ \A k \in Slot : Clear(d, k) => Clear(e, k)

LEMMA KinGood ==
    ASSUME NEW d, NEW e, Good(d), Kin(d, e)
    PROVE  /\ Good(e)
           /\ \A k : CloseSent(e, k) <=> CloseSent(d, k)
           /\ \A k : ToCreate(e, k) <=> ToCreate(d, k)
<1>1. /\ e.mailbox = d.mailbox /\ e.tag = d.tag /\ e.socketTag = d.socketTag
      /\ e.used = d.used /\ Pos(e) = Pos(d)
      /\ \A k \in Slot : Clear(d, k) => Clear(e, k)
    BY DEF Kin, Pos
<1>2. /\ \A x : Meets(e, x) <=> Meets(d, x)
      /\ \A i, k : CreateAt(e, i, k) <=> CreateAt(d, i, k)
    BY <1>1 DEF Meets, CreateAt
<1>3. \A i \in Pos(d) : d.mailbox[i] \in Msg
    BY DEF Good, Driver, Pos
<1>4. ASSUME NEW i \in Pos(d), Harmless(d, i) PROVE Harmless(e, i)
    <2>1. d.mailbox[i].slot \in Slot
        BY <1>3, <1>4, MsgField DEF Harmless, CloseOp
    <2> QED BY <2>1, <1>1, <1>2, <1>4 DEF Harmless
<1>5. Driver(e) BY <1>1 DEF Good, Driver, Kin
<1>6. Addressed(e)
    <2> SUFFICES ASSUME NEW i \in Pos(d), d.mailbox[i].op # "dns"
                 PROVE  /\ d.mailbox[i].tag <= d.socketTag
                        /\ Meets(e, d.mailbox[i]) \/ Harmless(e, i)
        BY <1>1 DEF Addressed
    <2> QED BY <1>2, <1>4 DEF Good, Addressed
<1>7. ClosesLast(e)
    BY <1>1, <1>2 DEF Good, ClosesLast
<1>8. CreatesOnce(e)
    <2> SUFFICES ASSUME NEW i \in Pos(d), d.mailbox[i].op = "create"
                 PROVE  /\ Clear(e, d.mailbox[i].slot)
                        /\ \A j \in Pos(d) : CreateAt(d, j, d.mailbox[i].slot) => j = i
        BY <1>1, <1>2 DEF CreatesOnce
    <2>1. d.mailbox[i].slot \in Slot BY <1>3, MsgField
    <2> QED BY <2>1, <1>1 DEF Good, CreatesOnce
<1>9. FreeIsClear(e) BY <1>1 DEF Good, FreeIsClear
<1>10. Good(e) BY <1>5, <1>6, <1>7, <1>8, <1>9 DEF Good
<1>11. \A k : CloseSent(e, k) <=> CloseSent(d, k) BY <1>1, <1>2 DEF CloseSent
<1>12. \A k : ToCreate(e, k) <=> ToCreate(d, k) BY <1>1, <1>2 DEF ToCreate
<1> QED BY <1>10, <1>11, <1>12

(* e is d with a new socket in the free slot k.                            *)
Claimed(d, e, k) ==
    /\ DOMAIN e = Field
    /\ e.used = d.used \union {k} /\ e.closing = d.closing /\ e.remoteClose = d.remoteClose
    /\ e.pcb = d.pcb /\ e.tag = [d.tag EXCEPT ![k] = d.socketTag + 1] /\ e.param \in Owner
    /\ e.socketTag = d.socketTag + 1 /\ e.mailbox = d.mailbox

LEMMA ClaimedGood ==
    ASSUME NEW d, NEW e, NEW k \in Slot \ d.used, Good(d), Claimed(d, e, k)
    PROVE  /\ Good(e)
           /\ \A j : CloseSent(e, j) <=> CloseSent(d, j)
           /\ \A j : ToCreate(e, j) <=> ToCreate(d, j)
           /\ \A j : Clear(e, j) <=> Clear(d, j)
           /\ ~CloseSent(e, k) /\ ~ToCreate(e, k)
<1> DEFINE t == d.socketTag + 1
<1>1. /\ e.mailbox = d.mailbox /\ e.socketTag = t /\ t \in Nat /\ d.socketTag \in Nat
      /\ Pos(e) = Pos(d)
      /\ e.used = d.used \union {k}
      /\ e.tag \in [Slot -> Nat] /\ e.tag[k] = t /\ \A j \in Slot \ {k} : e.tag[j] = d.tag[j]
      /\ \A j : Clear(e, j) <=> Clear(d, j)
      /\ \A i, j : CreateAt(e, i, j) <=> CreateAt(d, i, j)
    BY DEF Claimed, Pos, Clear, CreateAt, Good, Driver
<1>2. \A i \in Pos(d) : d.mailbox[i] \in Msg
    BY DEF Good, Driver, Pos
<1> HIDE DEF t
<1>3. \A i \in Pos(d) : Harmless(e, i) <=> Harmless(d, i)
    BY <1>1 DEF Harmless
<1>4. ASSUME NEW i \in Pos(d), d.mailbox[i].op # "dns"
      PROVE  Meets(e, d.mailbox[i]) <=> Meets(d, d.mailbox[i])
    <2> DEFINE m == d.mailbox[i]
    <2>1. m.slot \in Slot /\ m.tag \in Nat BY <1>2, <1>4, MsgField
    <2>2. m.tag <= d.socketTag BY <1>4 DEF Good, Addressed
    <2>3. CASE m.slot = k
        <3>1. m.tag # t BY <2>1, <2>2, <1>1 DEF t
        <3> QED BY <3>1, <2>3, <1>1 DEF Meets
    <2>4. CASE m.slot # k BY <2>1, <2>4, <1>1 DEF Meets
    <2> QED BY <2>3, <2>4
<1>5. ASSUME NEW i \in Pos(d), d.mailbox[i].op # "dns", Meets(d, d.mailbox[i])
      PROVE  d.mailbox[i].slot # k
    BY <1>5 DEF Meets
<1>6. Driver(e)
    <2>1. \A j \in Slot : e.tag[j] <= t
        <3> TAKE j \in Slot
        <3>1. CASE j = k BY <3>1, <1>1
        <3>2. CASE j # k
            <4>1. d.tag[j] <= d.socketTag /\ d.tag[j] \in Nat BY DEF Good, Driver
            <4> QED BY <4>1, <3>2, <1>1 DEF t
        <3> QED BY <3>1, <3>2
    <2> QED BY <2>1, <1>1 DEF Good, Driver, Claimed
<1>7. Addressed(e)
    <2> SUFFICES ASSUME NEW i \in Pos(d), d.mailbox[i].op # "dns"
                 PROVE  /\ d.mailbox[i].tag <= t
                        /\ Meets(e, d.mailbox[i]) \/ Harmless(e, i)
        BY <1>1 DEF Addressed
    <2>1. d.mailbox[i].tag \in Nat BY <1>2, MsgField
    <2>2. /\ d.mailbox[i].tag <= d.socketTag
          /\ Meets(d, d.mailbox[i]) \/ Harmless(d, i)
        BY DEF Good, Addressed
    <2> QED BY <2>1, <2>2, <1>1, <1>3, <1>4 DEF t
<1>8. ClosesLast(e)
    <2> SUFFICES ASSUME NEW i \in Pos(d), NEW j \in i + 1 .. Len(d.mailbox),
                        d.mailbox[i].op \in CloseOp, Meets(e, d.mailbox[i]),
                        IsAbout(d.mailbox[j], d.mailbox[i].slot)
                 PROVE  d.mailbox[j].op \in CloseOp
        BY <1>1 DEF ClosesLast
    <2>1. Meets(d, d.mailbox[i]) BY <1>4 DEF CloseOp
    <2> QED BY <2>1 DEF Good, ClosesLast
<1>9. CreatesOnce(e) BY <1>1 DEF Good, CreatesOnce
<1>10. FreeIsClear(e) BY <1>1 DEF Good, FreeIsClear
<1>11. Good(e) BY <1>6, <1>7, <1>8, <1>9, <1>10 DEF Good
<1>12. \A j : CloseSent(e, j) <=> CloseSent(d, j)
    BY <1>1, <1>4 DEF CloseSent, CloseOp
<1>13. \A j : ToCreate(e, j) <=> ToCreate(d, j) BY <1>1 DEF ToCreate
<1>14. ~CloseSent(e, k)
    <2>1. ~CloseSent(d, k) BY DEF CloseSent, Meets
    <2> QED BY <2>1, <1>12
<1>15. ~ToCreate(e, k)
    <2> SUFFICES ASSUME NEW i \in Pos(d), CreateAt(d, i, k) PROVE FALSE
        BY <1>1 DEF ToCreate
    <2>1. d.mailbox[i].op = "create" /\ d.mailbox[i].slot = k BY DEF CreateAt
    <2>2. Meets(d, d.mailbox[i]) \/ Harmless(d, i) BY <2>1 DEF Good, Addressed
    <2> QED BY <2>1, <2>2 DEF Meets, Harmless, CloseOp
<1> QED BY <1>1, <1>11, <1>12, <1>13, <1>14, <1>15

LEMMA OpenGood ==
    ASSUME NEW d, Good(d), NEW c \in Ctrl, Free(d) # {}
    PROVE  LET k == GenNextSocketId(d)
               e == Open(d, c)
           IN /\ k \in Slot \ d.used
              /\ Good(e)
              /\ e.used = d.used \union {k} /\ e.closing = d.closing
              /\ e.remoteClose = d.remoteClose /\ e.pcb = d.pcb
              /\ e.tag = [d.tag EXCEPT ![k] = d.socketTag + 1]
              /\ e.socketTag = d.socketTag + 1
              /\ e.param = [d.param EXCEPT ![k] = c]
              /\ ToCreate(e, k) /\ ~CloseSent(e, k)
              /\ \A j : CloseSent(e, j) <=> CloseSent(d, j)
              /\ \A j : ToCreate(d, j) => ToCreate(e, j)
<1> DEFINE k == GenNextSocketId(d)
           t == d.socketTag + 1
           a == Message("create", k, t)
           b == Message("connect", k, t)
           e == Open(d, c)
           d1 == [d EXCEPT !.used = @ \union {k}, !.tag = [@ EXCEPT ![k] = t],
                           !.param = [@ EXCEPT ![k] = c], !.socketTag = t]
           d2 == [d1 EXCEPT !.mailbox = Append(@, a)]
<1>1. k \in Slot \ d.used /\ t \in Nat
    BY NextIsFree DEF Free, Good, Driver
<1>2. /\ a \in Msg /\ b \in Msg /\ a.op = "create" /\ a.slot = k /\ a.tag = t
      /\ b.op = "connect" /\ b.slot = k /\ b.tag = t
    BY <1>1 DEF Message, Msg, Op
<1>3. /\ DOMAIN e = Field
      /\ e.used = d.used \union {k} /\ e.closing = d.closing
      /\ e.remoteClose = d.remoteClose /\ e.pcb = d.pcb
      /\ e.tag = [d.tag EXCEPT ![k] = t] /\ e.param = [d.param EXCEPT ![k] = c]
      /\ e.socketTag = t
      /\ e.mailbox = d.mailbox \o <<a>> \o (IF k \in d.closing THEN << >> ELSE <<b>>)
    BY DEF Good, Driver, Field, Open
<1>4. /\ DOMAIN d1 = Field
      /\ d1.used = e.used /\ d1.closing = d.closing /\ d1.remoteClose = d.remoteClose
      /\ d1.pcb = d.pcb /\ d1.tag = e.tag /\ d1.param = e.param
      /\ d1.socketTag = t /\ d1.mailbox = d.mailbox
    BY <1>3 DEF Good, Driver, Field
<1>5. Claimed(d, d1, k)
    <2>1. d1.param \in Owner BY <1>1, <1>3, <1>4 DEF Good, Driver, Owner
    <2> QED BY <2>1, <1>3, <1>4 DEF Claimed
<1>6. /\ DOMAIN d2 = Field
      /\ d2.used = e.used /\ d2.closing = d.closing /\ d2.remoteClose = d.remoteClose
      /\ d2.pcb = d.pcb /\ d2.tag = e.tag /\ d2.param = e.param
      /\ d2.socketTag = t /\ d2.mailbox = Append(d.mailbox, a)
    BY <1>4 DEF Field
<1> HIDE DEF k, t, a, b, e, d1, d2
<1>7. /\ Good(d1)
      /\ \A j : CloseSent(d1, j) <=> CloseSent(d, j)
      /\ \A j : ToCreate(d1, j) <=> ToCreate(d, j)
      /\ \A j : Clear(d1, j) <=> Clear(d, j)
      /\ ~CloseSent(d1, k) /\ ~ToCreate(d1, k)
    BY <1>1, <1>5, ClaimedGood
<1>8. Meets(d1, a) /\ a.op \notin CloseOp /\ b.op \notin CloseOp /\ Clear(d1, k)
    <2>1. Clear(d, k) BY <1>1 DEF Good, FreeIsClear
    <2>2. e.tag[k] = t BY <1>1, <1>3 DEF Good, Driver
    <2> QED BY <2>1, <2>2, <1>2, <1>3, <1>4, <1>7 DEF Meets, CloseOp
<1>9. ASSUME NEW x, Sent(d1, x, a)
      PROVE  /\ Good(x) /\ ToCreate(x, k) /\ ~CloseSent(x, k)
             /\ \A j : CloseSent(x, j) <=> CloseSent(d, j)
             /\ \A j : ToCreate(d, j) => ToCreate(x, j)
    <2>1. /\ a.op \in CloseOp => a.slot \in Slot /\ a.tag = d1.tag[a.slot]
          /\ a.op \notin CloseOp /\ a.op # "dns" => Meets(d1, a) /\ ~CloseSent(d1, a.slot)
          /\ a.op = "create" => Clear(d1, a.slot) /\ ~ToCreate(d1, a.slot)
        BY <1>2, <1>7, <1>8
    <2>2. /\ Good(x)
          /\ \A j : CloseSent(d1, j) => CloseSent(x, j)
          /\ \A j : CloseSent(x, j) =>
                 CloseSent(d1, j) \/ (a.op \in CloseOp /\ a.slot = j /\ j \in d1.used)
          /\ \A j : ToCreate(d1, j) => ToCreate(x, j)
          /\ a.op = "create" => ToCreate(x, a.slot)
        BY <2>1, <1>2, <1>7, <1>9, SentGood
    <2> QED BY <2>2, <1>2, <1>7, <1>8
<1>10. d.mailbox \in Seq(Msg) BY DEF Good, Driver
<1>11. CASE k \in d.closing
    <2>1. e.mailbox = Append(d.mailbox, a)
        BY <1>2, <1>3, <1>10, <1>11
    <2>2. Sent(d1, e, a) BY <2>1, <1>3, <1>4 DEF Sent
    <2> QED BY <2>2, <1>1, <1>3, <1>9 DEF k, e, t
<1>12. CASE k \notin d.closing
    <2>1. e.mailbox = Append(Append(d.mailbox, a), b)
        <3>1. e.mailbox = d.mailbox \o <<a>> \o <<b>> BY <1>3, <1>12
        <3>2. d.mailbox \o <<a>> = Append(d.mailbox, a) /\ Append(d.mailbox, a) \in Seq(Msg)
            BY <1>2, <1>10
        <3>3. Append(d.mailbox, a) \o <<b>> = Append(Append(d.mailbox, a), b)
            BY <3>2, <1>2
        <3> QED BY <3>1, <3>2, <3>3
    <2>2. Sent(d1, d2, a) BY <1>4, <1>6 DEF Sent
    <2>3. Sent(d2, e, b) BY <2>1, <1>3, <1>6 DEF Sent
    <2>4. Meets(d2, b) BY <1>2, <1>4, <1>6, <1>8 DEF Meets
    <2>5. /\ Good(d2) /\ ToCreate(d2, k) /\ ~CloseSent(d2, k)
          /\ \A j : CloseSent(d2, j) <=> CloseSent(d, j)
          /\ \A j : ToCreate(d, j) => ToCreate(d2, j)
        BY <2>2, <1>9
    <2>6. /\ Good(e) /\ ToCreate(e, k) /\ ~CloseSent(e, k)
          /\ \A j : CloseSent(e, j) <=> CloseSent(d, j)
          /\ \A j : ToCreate(d, j) => ToCreate(e, j)
        <3>1. /\ b.op \in CloseOp => b.slot \in Slot /\ b.tag = d2.tag[b.slot]
              /\ b.op \notin CloseOp /\ b.op # "dns" => Meets(d2, b) /\ ~CloseSent(d2, b.slot)
              /\ b.op = "create" => Clear(d2, b.slot) /\ ~ToCreate(d2, b.slot)
            BY <2>4, <2>5, <1>2, <1>8
        <3>2. /\ Good(e)
              /\ \A j : CloseSent(d2, j) => CloseSent(e, j)
              /\ \A j : CloseSent(e, j) =>
                     CloseSent(d2, j) \/ (b.op \in CloseOp /\ b.slot = j /\ j \in d2.used)
              /\ \A j : ToCreate(d2, j) => ToCreate(e, j)
            BY <3>1, <2>3, <2>5, <1>2, SentGood
        <3> QED BY <3>2, <2>5, <1>8
    <2> QED BY <2>6, <1>1, <1>3 DEF k, e, t
<1> QED BY <1>11, <1>12

(* What StartClose does: the slots of S in use are marked, and a close is  *)
(* sent for each that was not.                                             *)
Marks(d, e, S, op, p) ==
    LET more == S \intersect d.used IN
    /\ DOMAIN e = Field
    /\ e.used = d.used /\ e.closing = d.closing \union more
    /\ e.remoteClose = d.remoteClose /\ e.pcb = d.pcb
    /\ e.tag = d.tag /\ e.param = d.param /\ e.socketTag = d.socketTag
    /\ e.mailbox = d.mailbox \o p
    /\ p \in Seq(Msg)
    /\ \A i \in 1 .. Len(p) : /\ p[i].op = op
                              /\ p[i].slot \in more \ d.closing
                              /\ d.tag[p[i].slot] = p[i].tag
    /\ \A i, j \in 1 .. Len(p) : p[i].slot = p[j].slot => i = j
    /\ \A k \in more \ d.closing : \E i \in 1 .. Len(p) : p[i].slot = k

LEMMA StartCloseMarks ==
    ASSUME NEW d, Good(d), NEW S, NEW op \in CloseOp
    PROVE  \E p : Marks(d, StartClose(d, S, op), S, op, p)
<1> DEFINE N == S \intersect (d.used \ d.closing)
           more == S \intersect d.used
           q == Arranged(N)
           p == [i \in DOMAIN q |-> Message(op, q[i], d.tag[q[i]])]
           e == StartClose(d, S, op)
<1>1. N \in SUBSET Slot /\ more \in SUBSET d.used /\ N = more \ d.closing
    BY DEF Good, Driver
<1>2. /\ q \in Seq(N) /\ \A i, j \in DOMAIN q : q[i] = q[j] => i = j
      /\ \A k \in N : \E i \in DOMAIN q : q[i] = k
    BY <1>1, Arrangement
<1>3. /\ DOMAIN e = Field
      /\ e.used = d.used /\ e.closing = d.closing \union more
      /\ e.remoteClose = d.remoteClose /\ e.pcb = d.pcb
      /\ e.tag = d.tag /\ e.param = d.param /\ e.socketTag = d.socketTag
      /\ e.mailbox = d.mailbox \o p
    BY DEF Good, Driver, Field, StartClose
<1> HIDE DEF N, q, e
<1>4. Len(q) \in Nat /\ DOMAIN q = 1 .. Len(q) /\ \A i \in 1 .. Len(q) : q[i] \in N
    BY <1>2
<1>5. \A i \in 1 .. Len(q) : /\ p[i] \in Msg /\ p[i].op = op /\ p[i].slot = q[i]
                             /\ p[i].tag = d.tag[q[i]]
    <2> TAKE i \in 1 .. Len(q)
    <2>1. p[i] = Message(op, q[i], d.tag[q[i]]) BY <1>4
    <2>2. q[i] \in Slot /\ d.tag[q[i]] \in Nat BY <1>1, <1>4 DEF Good, Driver
    <2>3. op \in Op BY DEF Op
    <2> QED BY <2>1, <2>2, <2>3 DEF Message, Msg
<1>6. p \in Seq(Msg) /\ Len(p) = Len(q)
    BY <1>4, <1>5
<1> HIDE DEF p
<1>7. /\ \A i \in 1 .. Len(p) : /\ p[i].op = op /\ p[i].slot \in more \ d.closing
                                /\ d.tag[p[i].slot] = p[i].tag
      /\ \A i, j \in 1 .. Len(p) : p[i].slot = p[j].slot => i = j
      /\ \A k \in more \ d.closing : \E i \in 1 .. Len(p) : p[i].slot = k
    BY <1>1, <1>2, <1>4, <1>5, <1>6
<1>8. Marks(d, e, S, op, p)
    BY <1>3, <1>6, <1>7 DEF Marks
<1> QED BY <1>8 DEF e


(* The closes of p are sent, each for the socket that has its slot.        *)
LEMMA MarksGood ==
    ASSUME NEW d, NEW e, NEW S, NEW op \in CloseOp, NEW p, Good(d), Marks(d, e, S, op, p)
    PROVE  /\ Good(e)
           /\ \A k : CloseSent(d, k) => CloseSent(e, k)
           /\ \A k \in (S \intersect d.used) \ d.closing : CloseSent(e, k)
           /\ \A k : CloseSent(e, k) =>
                  CloseSent(d, k) \/ k \in (S \intersect d.used) \ d.closing
           /\ \A k : ToCreate(e, k) <=> ToCreate(d, k)
<1> DEFINE q == d.mailbox
           r == e.mailbox
           more == (S \intersect d.used) \ d.closing
<1>1. /\ r = q \o p /\ q \in Seq(Msg) /\ p \in Seq(Msg)
      /\ e.used = d.used /\ e.tag = d.tag /\ e.socketTag = d.socketTag
      /\ e.pcb = d.pcb /\ e.remoteClose = d.remoteClose
      /\ \A i \in 1 .. Len(p) : p[i].op = op /\ p[i].slot \in more /\ d.tag[p[i].slot] = p[i].tag
      /\ \A k \in more : \E i \in 1 .. Len(p) : p[i].slot = k
    BY DEF Marks, Good, Driver
<1>2. more \subseteq d.used /\ d.used \subseteq Slot BY DEF Good, Driver
<1>3. Driver(e) BY <1>1 DEF Good, Driver, Marks
<1>4. /\ \A x : Meets(e, x) <=> Meets(d, x)
      /\ \A k : Clear(e, k) <=> Clear(d, k)
      /\ Pos(d) = 1 .. Len(q) /\ Pos(e) = 1 .. Len(r)
    BY <1>1 DEF Meets, Clear, Pos
<1>5. /\ r \in Seq(Msg) /\ Len(r) = Len(q) + Len(p) /\ Len(q) \in Nat /\ Len(p) \in Nat
      /\ \A i \in 1 .. Len(q) : r[i] = q[i]
      /\ \A i \in Len(q) + 1 .. Len(r) : r[i] = p[i - Len(q)] /\ i - Len(q) \in 1 .. Len(p)
    BY <1>1
<1>6. \A i \in 1 .. Len(p) : i + Len(q) \in Len(q) + 1 .. Len(r) /\ i + Len(q) - Len(q) = i
    BY <1>5
<1> HIDE DEF q, r, more
<1>7. \A i \in Pos(e) : i \in Pos(d) \/ i \in Len(q) + 1 .. Len(r) BY <1>4, <1>5
<1>8. \A i \in Pos(d) : i \in Pos(e) /\ r[i] = q[i] BY <1>4, <1>5
<1>9. \A i \in Len(q) + 1 .. Len(r) : /\ i \in Pos(e) /\ i \notin Pos(d)
                                      /\ r[i].op \in CloseOp /\ r[i].slot \in more
                                      /\ d.tag[r[i].slot] = r[i].tag
    BY <1>1, <1>4, <1>5
<1>10. \A i \in Pos(d) : \A k : CreateAt(e, i, k) <=> CreateAt(d, i, k)
    BY <1>8 DEF CreateAt, q, r
<1>11. \A i \in Len(q) + 1 .. Len(r) : \A k : ~CreateAt(e, i, k)
    BY <1>9 DEF CreateAt, CloseOp, r
<1>12. ASSUME NEW i \in Pos(d), Harmless(d, i) PROVE Harmless(e, i)
    <2>1. \A j \in 1 .. i - 1 : j \in Pos(d) BY <1>4, <1>5
    <2> QED BY <2>1, <1>4, <1>8, <1>10, <1>12 DEF Harmless, q, r
<1>13. Addressed(e)
    <2> SUFFICES ASSUME NEW i \in Pos(e), r[i].op # "dns"
                 PROVE  r[i].tag <= d.socketTag /\ (Meets(e, r[i]) \/ Harmless(e, i))
        BY <1>1 DEF Addressed, r
    <2>1. CASE i \in Pos(d)
        <3>1. q[i].tag <= d.socketTag /\ (Meets(d, q[i]) \/ Harmless(d, i))
            BY <2>1, <1>8 DEF Good, Addressed, q
        <3> QED BY <3>1, <2>1, <1>4, <1>8, <1>12
    <2>2. CASE i \in Len(q) + 1 .. Len(r)
        <3>1. r[i].slot \in d.used /\ r[i].slot \in Slot /\ d.tag[r[i].slot] = r[i].tag
            BY <2>2, <1>2, <1>9
        <3> QED BY <3>1, <1>4 DEF Meets, Good, Driver
    <2> QED BY <2>1, <2>2, <1>7
<1>14. ClosesLast(e)
    <2> SUFFICES ASSUME NEW i \in Pos(e), NEW j \in i + 1 .. Len(r),
                        r[i].op \in CloseOp, Meets(e, r[i]), IsAbout(r[j], r[i].slot)
                 PROVE  r[j].op \in CloseOp
        BY DEF ClosesLast, r
    <2>1. CASE j \in Len(q) + 1 .. Len(r) BY <2>1, <1>9
    <2>2. CASE j \notin Len(q) + 1 .. Len(r)
        <3>1. i \in Pos(d) /\ j \in Pos(d) /\ j \in i + 1 .. Len(q) BY <2>2, <1>4, <1>5
        <3>2. r[i] = q[i] /\ r[j] = q[j] BY <3>1, <1>8
        <3> QED BY <3>1, <3>2, <1>4 DEF Good, ClosesLast, q
    <2> QED BY <2>1, <2>2
<1>15. CreatesOnce(e)
    <2> SUFFICES ASSUME NEW i \in Pos(e), r[i].op = "create"
                 PROVE  /\ Clear(e, r[i].slot)
                        /\ \A j \in Pos(e) : CreateAt(e, j, r[i].slot) => j = i
        BY DEF CreatesOnce, r
    <2>1. i \in Pos(d) /\ r[i] = q[i]
        BY <1>7, <1>8, <1>9 DEF CloseOp
    <2>2. /\ Clear(d, q[i].slot)
          /\ \A j \in Pos(d) : CreateAt(d, j, q[i].slot) => j = i
        BY <2>1 DEF Good, CreatesOnce, q
    <2>3. ASSUME NEW j \in Pos(e), CreateAt(e, j, q[i].slot) PROVE j = i
        <3>1. j \in Pos(d) BY <2>3, <1>7, <1>11
        <3> QED BY <3>1, <2>2, <2>3, <1>10
    <2> QED BY <2>1, <2>2, <2>3, <1>4
<1>16. FreeIsClear(e) BY <1>1, <1>4 DEF Good, FreeIsClear
<1>17. Good(e) BY <1>3, <1>13, <1>14, <1>15, <1>16 DEF Good
<1>18. \A k : CloseSent(d, k) => CloseSent(e, k)
    BY <1>4, <1>8 DEF CloseSent, q, r
<1>19. ASSUME NEW k \in more PROVE CloseSent(e, k)
    <2>1. PICK i \in 1 .. Len(p) : p[i].slot = k BY <1>1
    <2>2. r[i + Len(q)] = p[i] /\ i + Len(q) \in Len(q) + 1 .. Len(r) BY <1>5, <1>6, SMTT(30)
    <2>3. Meets(e, r[i + Len(q)]) BY <2>2, <1>2, <1>4, <1>9 DEF Meets
    <2>4. i + Len(q) \in Pos(e) /\ r[i + Len(q)].op \in CloseOp /\ r[i + Len(q)].slot = k
        BY <2>1, <2>2, <1>9
    <2> QED BY <2>3, <2>4 DEF CloseSent, r
<1>20. ASSUME NEW k, CloseSent(e, k) PROVE CloseSent(d, k) \/ k \in more
    <2>1. PICK i \in Pos(e) : r[i].op \in CloseOp /\ r[i].slot = k /\ Meets(e, r[i])
        BY <1>20 DEF CloseSent, r
    <2>2. CASE i \in Pos(d)
        <3>1. q[i].op \in CloseOp /\ q[i].slot = k /\ Meets(d, q[i])
            BY <2>1, <2>2, <1>4, <1>8
        <3> QED BY <2>2, <3>1 DEF CloseSent, q
    <2>3. CASE i \in Len(q) + 1 .. Len(r) BY <2>1, <2>3, <1>9
    <2> QED BY <2>2, <2>3, <1>7
<1>21. \A k : ToCreate(e, k) <=> ToCreate(d, k)
    <2> TAKE k
    <2>1. ToCreate(e, k) => ToCreate(d, k) BY <1>7, <1>10, <1>11 DEF ToCreate
    <2>2. ToCreate(d, k) => ToCreate(e, k) BY <1>8, <1>10 DEF ToCreate
    <2> QED BY <2>1, <2>2
<1> QED BY <1>17, <1>18, <1>19, <1>20, <1>21 DEF more

LEMMA StartCloseGood ==
    ASSUME NEW d, Good(d), NEW S, NEW op \in CloseOp
    PROVE  LET e == StartClose(d, S, op)
               more == S \intersect d.used
           IN /\ Good(e)
              /\ e.used = d.used /\ e.closing = d.closing \union more
              /\ e.remoteClose = d.remoteClose /\ e.pcb = d.pcb
              /\ e.tag = d.tag /\ e.param = d.param /\ e.socketTag = d.socketTag
              /\ \A k : CloseSent(d, k) => CloseSent(e, k)
              /\ \A k \in more \ d.closing : CloseSent(e, k)
              /\ \A k : CloseSent(e, k) => CloseSent(d, k) \/ k \in more
              /\ \A k : ToCreate(e, k) <=> ToCreate(d, k)
<1> DEFINE e == StartClose(d, S, op)
           more == S \intersect d.used
<1>1. PICK p : Marks(d, e, S, op, p)
    BY StartCloseMarks
<1> HIDE DEF e
<1>2. /\ Good(e)
      /\ \A k : CloseSent(d, k) => CloseSent(e, k)
      /\ \A k \in more \ d.closing : CloseSent(e, k)
      /\ \A k : CloseSent(e, k) => CloseSent(d, k) \/ k \in more \ d.closing
      /\ \A k : ToCreate(e, k) <=> ToCreate(d, k)
    BY <1>1, MarksGood
<1>3. /\ e.used = d.used /\ e.closing = d.closing \union more
      /\ e.remoteClose = d.remoteClose /\ e.pcb = d.pcb
      /\ e.tag = d.tag /\ e.param = d.param /\ e.socketTag = d.socketTag
    BY <1>1 DEF Marks
<1> QED BY <1>2, <1>3 DEF e

-----------------------------------------------------------------------------
(* What becomes of a slot, with the socket s, t of the connection.         *)

Sending(h, k) == h # None /\ h.step = "send" /\ h.slot = k

Ending(h) == h # None /\ h.step = "end"

(* The slot is lost, or its close is on the way.                           *)
Leaves(d, l, h, k) == k \in l \/ CloseSent(d, k) \/ Sending(h, k)

(* A mark on a free slot makes it a lost one.  A slot that has nothing to  *)
(* close is not created yet, or is lost; and a marked one leaves.          *)
Tended(d, l, h) ==
    /\ \A k \in d.closing : k \in d.used \/ k \in l
    /\ \A k \in d.used : Clear(d, k) => k \in l \/ ToCreate(d, k)
    /\ \A k \in d.used \intersect d.closing : Leaves(d, l, h, k)

(* A slot that the connection does not hold leaves; and a close is sent    *)
(* for one that it holds, and that is not marked, at the end of            *)
(* socket.close only.                                                      *)
Owned(d, s, t, l, h) ==
    /\ s \in Slot \union {-1} /\ t \in Nat
    /\ s \in Slot => d.tag[s] = t
    /\ \A k \in d.used : k = s \/ Leaves(d, l, h, k)
    /\ s \in d.used \ d.closing /\ CloseSent(d, s) => Ending(h)

Kept(d, s, t, l, h) == Good(d) /\ Tended(d, l, h) /\ Owned(d, s, t, l, h)

LEMMA SlotIsNat == Slot \subseteq Nat /\ -1 \notin Slot
BY SocketAssumption DEF Slot

LEMMA StartCloseKept ==
    ASSUME NEW d, NEW s, NEW t, NEW l, NEW h, Kept(d, s, t, l, h),
           NEW S, NEW op \in CloseOp
    PROVE  LET e == StartClose(d, S, op) IN
           /\ Kept(e, s, t, l, h)
           /\ e.used = d.used /\ e.closing = d.closing \union (S \intersect d.used)
<1> DEFINE e == StartClose(d, S, op)
           more == S \intersect d.used
<1>1. Good(d) BY DEF Kept
<1>2. /\ Good(e)
      /\ e.used = d.used /\ e.closing = d.closing \union more
      /\ e.remoteClose = d.remoteClose /\ e.pcb = d.pcb /\ e.tag = d.tag
      /\ \A k : CloseSent(d, k) => CloseSent(e, k)
      /\ \A k \in more \ d.closing : CloseSent(e, k)
      /\ \A k : CloseSent(e, k) => CloseSent(d, k) \/ k \in more
      /\ \A k : ToCreate(e, k) <=> ToCreate(d, k)
    BY <1>1, StartCloseGood
<1> HIDE DEF e
<1>3. \A k : Clear(e, k) <=> Clear(d, k) BY <1>2 DEF Clear
<1>4. \A k : Leaves(d, l, h, k) => Leaves(e, l, h, k) BY <1>2 DEF Leaves
<1>5. Tended(e, l, h)
    BY <1>2, <1>3, <1>4 DEF Kept, Tended, Leaves
<1>6. Owned(e, s, t, l, h)
    BY <1>2, <1>4 DEF Kept, Owned
<1> QED BY <1>2, <1>5, <1>6 DEF Kept, e

(* A connection lets go of a slot that is marked, or is free.              *)
LEMMA DropKept ==
    ASSUME NEW d, NEW s, NEW t, NEW u \in Nat, NEW l, NEW h, Kept(d, s, t, l, h),
           s \in d.used => s \in d.closing
    PROVE  Kept(d, -1, u, l, h)
<1>1. \A k \in d.used : Leaves(d, l, h, k)
    BY DEF Kept, Tended, Owned
<1>2. -1 \notin d.used BY SlotIsNat DEF Kept, Good, Driver
<1> QED BY <1>1, <1>2, SlotIsNat DEF Kept, Owned

LEMMA QueryKept ==
    ASSUME NEW d, NEW s, NEW t, NEW l, NEW h, Kept(d, s, t, l, h), NEW c \in Ctrl
    PROVE  Kept(Send(d, Query(c)), s, t, l, h)
<1> DEFINE m == Query(c)
           e == Send(d, m)
<1>1. Good(d) /\ m \in Msg /\ m.op = "dns" /\ m.op \notin CloseOp
    BY DEF Kept, Query, Msg, CloseOp
<1>2. Sent(d, e, m) BY <1>1 DEF Send, Sent, Good, Driver, Field
<1> HIDE DEF m, e
<1>3. /\ Good(e)
      /\ \A k : CloseSent(d, k) => CloseSent(e, k)
      /\ \A k : CloseSent(e, k) =>
             CloseSent(d, k) \/ (m.op \in CloseOp /\ m.slot = k /\ k \in d.used)
      /\ \A k : ToCreate(d, k) => ToCreate(e, k)
    BY <1>1, <1>2, SentGood
<1>4. /\ e.used = d.used /\ e.closing = d.closing /\ e.tag = d.tag
      /\ \A k : Clear(e, k) <=> Clear(d, k)
    BY <1>2 DEF Sent, Clear
<1>5. \A k : Leaves(d, l, h, k) => Leaves(e, l, h, k) BY <1>3 DEF Leaves
<1>6. Tended(e, l, h) BY <1>3, <1>4, <1>5 DEF Kept, Tended
<1>7. Owned(e, s, t, l, h) BY <1>1, <1>3, <1>4, <1>5 DEF Kept, Owned
<1> QED BY <1>3, <1>6, <1>7 DEF Kept, e, m

(* A new socket, which the connection has unless its slot was marked.      *)
LEMMA OpenKept ==
    ASSUME NEW d, NEW t, NEW l, NEW h, Kept(d, -1, t, l, h), NEW c \in Ctrl, Free(d) # {}
    PROVE  LET k == GenNextSocketId(d)
               e == Open(d, c)
           IN /\ k \in Slot /\ e.socketTag \in Nat
              /\ k \notin d.closing =>
                     /\ Kept(e, k, e.socketTag, l, h)
                     /\ CheckSocket(e, k, e.socketTag) /\ e.param[k] = c /\ ToCreate(e, k)
              /\ k \in d.closing => Kept(e, -1, e.socketTag, l, h)
<1> DEFINE k == GenNextSocketId(d)
           e == Open(d, c)
<1>1. Good(d) /\ d.used \subseteq Slot /\ d.tag \in [Slot -> Nat] /\ d.socketTag \in Nat
      /\ d.param \in Owner
    BY DEF Kept, Good, Driver
<1>2. /\ k \in Slot \ d.used
      /\ Good(e)
      /\ e.used = d.used \union {k} /\ e.closing = d.closing
      /\ e.remoteClose = d.remoteClose /\ e.pcb = d.pcb
      /\ e.tag = [d.tag EXCEPT ![k] = d.socketTag + 1]
      /\ e.socketTag = d.socketTag + 1
      /\ e.param = [d.param EXCEPT ![k] = c]
      /\ ToCreate(e, k) /\ ~CloseSent(e, k)
      /\ \A j : CloseSent(e, j) <=> CloseSent(d, j)
      /\ \A j : ToCreate(d, j) => ToCreate(e, j)
    BY <1>1, OpenGood
<1> HIDE DEF k, e
<1>3. \A j : Clear(e, j) <=> Clear(d, j) BY <1>2 DEF Clear
<1>4. \A j : Leaves(d, l, h, j) => Leaves(e, l, h, j) BY <1>2 DEF Leaves
<1>5. \A j \in d.used : Leaves(e, l, h, j)
    BY <1>1, <1>4, SlotIsNat DEF Kept, Owned
<1>6. k \in d.closing => Leaves(e, l, h, k)
    BY <1>2 DEF Kept, Tended, Leaves
<1>7. Tended(e, l, h)
    BY <1>2, <1>3, <1>5, <1>6 DEF Kept, Tended
<1>8. e.socketTag \in Nat /\ e.tag[k] = e.socketTag /\ e.param[k] = c
    BY <1>1, <1>2 DEF Owner
<1>9. ASSUME k \notin d.closing PROVE Owned(e, k, e.socketTag, l, h)
    BY <1>2, <1>5, <1>8, <1>9 DEF Owned
<1>10. ASSUME k \in d.closing PROVE Owned(e, -1, e.socketTag, l, h)
    <2>1. -1 \notin e.used BY <1>1, <1>2, SlotIsNat
    <2> QED BY <2>1, <1>2, <1>5, <1>6, <1>8, <1>10, SlotIsNat DEF Owned
<1> QED BY <1>2, <1>7, <1>8, <1>9, <1>10 DEF Kept, CheckSocket, k, e

-----------------------------------------------------------------------------
(* What the adapter makes of them.                                         *)

ConnField == {"state", "wait", "socketId", "tag", "needClose", "newRx", "byName", "nums", "cnt"}

Conn(r) == DOMAIN r = ConnField

Sane(w) ==
    /\ DOMAIN w = {"drv", "ctl", "ok"}
    /\ DOMAIN w.ctl = Ctrl
    /\ \A c \in Ctrl : /\ Conn(w.ctl[c])
                       /\ Kept(w.drv, w.ctl[c].socketId, w.ctl[c].tag, lost, half)

(* A socket that is new, and will tell of its end.                         *)
Fresh(w, c) ==
    LET r == w.ctl[c] IN
    /\ CheckSocket(w.drv, r.socketId, r.tag)
    /\ w.drv.param[r.socketId] = c /\ ToCreate(w.drv, r.socketId)

(* v is w after an attempt to connect c.                                   *)
Tried(w, v, c) ==
    /\ Sane(v)
    /\ v.ctl[c].wait = w.ctl[c].wait
    /\ v.ok \in BOOLEAN
    /\ v.ok => Fresh(v, c)
    /\ ~v.ok => v.ctl[c].socketId = -1

LEMMA OnlyOne == ASSUME NEW b \in Ctrl, NEW c \in Ctrl PROVE b = c
BY OneConnection

LEMMA WithSane ==
    ASSUME NEW w, Sane(w), NEW c \in Ctrl, NEW r, Conn(r),
           Kept(w.drv, r.socketId, r.tag, lost, half)
    PROVE  LET v == With(w, c, r) IN
           Sane(v) /\ v.ctl[c] = r /\ v.drv = w.drv /\ v.ok = w.ok
<1>1. With(w, c, r) = [w EXCEPT !.ctl = [@ EXCEPT ![c] = r]] BY DEF With
<1> DEFINE v == With(w, c, r)
<1>2. /\ DOMAIN v = {"drv", "ctl", "ok"} /\ DOMAIN v.ctl = Ctrl
      /\ v.ctl[c] = r /\ v.drv = w.drv /\ v.ok = w.ok
    BY <1>1 DEF Sane
<1> HIDE DEF v
<1>3. Sane(v) BY <1>2, OnlyOne DEF Sane
<1> QED BY <1>2, <1>3 DEF v

(* The same, where the socket stays.                                       *)
LEMMA AlsoSane ==
    ASSUME NEW w, Sane(w), NEW c \in Ctrl, NEW r, Conn(r),
           r.socketId = w.ctl[c].socketId, r.tag = w.ctl[c].tag
    PROVE  LET v == With(w, c, r) IN
           Sane(v) /\ v.ctl[c] = r /\ v.drv = w.drv /\ v.ok = w.ok
BY WithSane DEF Sane

LEMMA ReleasedSane ==
    ASSUME NEW w, Sane(w), NEW c \in Ctrl
    PROVE  LET v == Released(w, c) IN
           /\ Sane(v) /\ v.ctl = w.ctl /\ v.ok = w.ok
           /\ \A u \in Nat : Kept(v.drv, -1, u, lost, half)
<1> DEFINE v == Released(w, c)
           r == w.ctl[c]
           d == w.drv
<1>1. Kept(d, r.socketId, r.tag, lost, half) /\ Good(d)
    BY DEF Sane, Kept
<1>2. r.socketId \in Slot \union {-1} /\ (r.socketId \in Slot => d.tag[r.socketId] = r.tag)
    BY <1>1 DEF Kept, Owned
<1>3. CASE r.socketId = -1
    <2>1. v = w BY <1>3 DEF Released
    <2>2. -1 \notin d.used BY <1>1, SlotIsNat DEF Good, Driver
    <2>3. \A u \in Nat : Kept(d, -1, u, lost, half) BY <2>2, <1>1, <1>3, DropKept
    <2> HIDE DEF v
    <2> QED BY <2>1, <2>3 DEF v
<1>4. CASE r.socketId \in Slot
    <2> DEFINE e == StartClose(d, {r.socketId}, "close")
    <2>1. v = [w EXCEPT !.drv = e] BY <1>2, <1>4, SlotIsNat DEF Released
    <2>2. v.drv = e /\ v.ctl = w.ctl /\ v.ok = w.ok /\ DOMAIN v = DOMAIN w
        BY <2>1 DEF Sane
    <2>3. /\ Kept(e, r.socketId, r.tag, lost, half)
          /\ e.used = d.used /\ e.closing = d.closing \union ({r.socketId} \intersect d.used)
        BY <1>1, StartCloseKept DEF CloseOp
    <2> HIDE DEF e, v
    <2>4. \A u \in Nat : Kept(e, -1, u, lost, half) BY <2>3, DropKept
    <2>5. Sane(v) BY <2>2, <2>3, OnlyOne DEF Sane
    <2> QED BY <2>2, <2>4, <2>5 DEF v
<1> QED BY <1>2, <1>3, <1>4

LEMMA ForgottenSane ==
    ASSUME NEW w, Sane(w), NEW c \in Ctrl,
           \A u \in Nat : Kept(w.drv, -1, u, lost, half)
    PROVE  LET v == Forgotten(w, c) IN
           Sane(v) /\ v.ctl[c].socketId = -1 /\ v.ctl[c].wait = "NONE"
<1> DEFINE r == [w.ctl[c] EXCEPT !.needClose = FALSE, !.socketId = -1, !.newRx = FALSE,
                                 !.cnt = 0, !.nums = 0, !.wait = "NONE"]
<1>1. /\ Conn(r) /\ r.socketId = -1 /\ r.tag = w.ctl[c].tag /\ r.wait = "NONE"
    BY DEF Sane, Conn, ConnField
<1>2. r.tag \in Nat BY <1>1 DEF Sane, Kept, Owned
<1>3. Kept(w.drv, r.socketId, r.tag, lost, half)
    BY <1>1, <1>2
<1>4. Forgotten(w, c) = With(w, c, r) BY DEF Forgotten
<1> HIDE DEF r
<1> QED BY <1>1, <1>3, <1>4, WithSane

LEMMA ForceCloseSane ==
    ASSUME NEW w, Sane(w), NEW c \in Ctrl
    PROVE  LET v == ForceClose(w, c) IN
           Sane(v) /\ v.ctl[c].socketId = -1 /\ v.ctl[c].wait = "NONE"
BY ReleasedSane, ForgottenSane DEF ForceClose

(* A connection without a socket has the others closed.                    *)
LEMMA CleanSane ==
    ASSUME NEW w, Sane(w), NEW c \in Ctrl, w.ctl[c].socketId = -1
    PROVE  LET v == Clean(w) IN
           Sane(v) /\ v.ctl[c].socketId = -1 /\ v.ctl[c].wait = w.ctl[c].wait
<1> DEFINE valid == {b \in Ctrl : CheckSocket(w.drv, w.ctl[b].socketId, w.ctl[b].tag)}
           keep == {w.ctl[b].socketId : b \in valid} \ {0}
           e == StartClose(w.drv, Slot \ keep, "close")
           ct == [b \in Ctrl |-> IF b \in valid THEN w.ctl[b]
                                 ELSE [w.ctl[b] EXCEPT !.socketId = -1]]
           v == Clean(w)
<1>1. Kept(w.drv, -1, w.ctl[c].tag, lost, half) /\ Conn(w.ctl[c])
    BY DEF Sane
<1>2. Kept(e, -1, w.ctl[c].tag, lost, half)
    BY <1>1, StartCloseKept DEF CloseOp
<1>3. DOMAIN v = {"drv", "ctl", "ok"} /\ v.drv = e /\ v.ctl = ct
    BY DEF Clean, Sane
<1> HIDE DEF e, v
<1>4. /\ Conn(ct[c]) /\ ct[c].socketId = -1 /\ ct[c].tag = w.ctl[c].tag
      /\ ct[c].wait = w.ctl[c].wait /\ DOMAIN ct = Ctrl
    BY <1>1 DEF Conn, ConnField
<1> HIDE DEF ct
<1>5. Sane(v) BY <1>2, <1>3, <1>4, OnlyOne DEF Sane
<1> QED BY <1>3, <1>4, <1>5 DEF v

LEMMA CreatedTried ==
    ASSUME NEW w, Sane(w), NEW c \in Ctrl, w.ctl[c].socketId = -1
    PROVE  Tried(w, Created(w, c), c)
<1> DEFINE v == Created(w, c)
           d == w.drv
           r == w.ctl[c]
<1>1. Kept(d, -1, r.tag, lost, half) /\ Conn(r) BY DEF Sane
<1>2. CASE Free(d) # {}
    <2> DEFINE k == GenNextSocketId(d)
               e == Open(d, c)
               dials == k \notin e.closing
               q == [r EXCEPT !.socketId = IF dials THEN k ELSE -1, !.tag = e.socketTag]
               x == [w EXCEPT !.drv = e, !.ok = dials]
    <2>1. v = With(x, c, q) BY <1>2 DEF Created
    <2>2. /\ k \in Slot /\ e.socketTag \in Nat
          /\ k \notin d.closing =>
                 /\ Kept(e, k, e.socketTag, lost, half)
                 /\ CheckSocket(e, k, e.socketTag) /\ e.param[k] = c /\ ToCreate(e, k)
          /\ k \in d.closing => Kept(e, -1, e.socketTag, lost, half)
        BY <1>1, <1>2, OpenKept
    <2>3. e.closing = d.closing BY <1>1, <1>2, OpenGood DEF Kept
    <2>4. /\ DOMAIN x = {"drv", "ctl", "ok"} /\ x.drv = e /\ x.ctl = w.ctl /\ x.ok = dials
        BY DEF Sane
    <2>5. /\ Conn(q) /\ q.socketId = (IF dials THEN k ELSE -1) /\ q.tag = e.socketTag
          /\ q.wait = r.wait
        BY <1>1 DEF Conn, ConnField
    <2>6. v = [x EXCEPT !.ctl = [@ EXCEPT ![c] = q]] BY <2>1 DEF With
    <2> HIDE DEF k, e, q, x, v
    <2>7. /\ DOMAIN v = {"drv", "ctl", "ok"} /\ v.drv = e /\ v.ok = dials
          /\ DOMAIN v.ctl = Ctrl /\ v.ctl[c] = q
        BY <2>4, <2>6 DEF Sane
    <2>8. Kept(e, q.socketId, q.tag, lost, half)
        BY <2>2, <2>3, <2>5
    <2>9. Sane(v) BY <2>5, <2>7, <2>8, OnlyOne DEF Sane
    <2>10. dials => Fresh(v, c) BY <2>2, <2>3, <2>5, <2>7 DEF Fresh
    <2> QED BY <2>5, <2>7, <2>9, <2>10 DEF Tried, v
<1>3. CASE Free(d) = {}
    <2> DEFINE q == [r EXCEPT !.socketId = -1, !.tag = 0]
               x == With(w, c, q)
               y == Clean(x)
    <2>1. v = [y EXCEPT !.ok = FALSE] BY <1>3 DEF Created
    <2>2. Conn(q) /\ q.socketId = -1 /\ q.tag = 0 /\ q.wait = r.wait
        BY <1>1 DEF Conn, ConnField
    <2>3. -1 \notin d.used BY <1>1, SlotIsNat DEF Kept, Good, Driver
    <2>4. Kept(d, q.socketId, q.tag, lost, half) BY <2>2, <2>3, <1>1, DropKept
    <2> HIDE DEF q
    <2>5. Sane(x) /\ x.ctl[c] = q BY <2>2, <2>4, WithSane
    <2> HIDE DEF x
    <2>6. Sane(y) /\ y.ctl[c].socketId = -1 /\ y.ctl[c].wait = q.wait
        BY <2>2, <2>5, CleanSane
    <2> HIDE DEF y, v
    <2>7. /\ DOMAIN v = {"drv", "ctl", "ok"} /\ v.drv = y.drv /\ v.ctl = y.ctl /\ v.ok = FALSE
        BY <2>1, <2>6 DEF Sane
    <2>8. Sane(v) BY <2>6, <2>7 DEF Sane
    <2> QED BY <2>2, <2>6, <2>7, <2>8 DEF Tried, v
<1> QED BY <1>2, <1>3

LEMMA BaseConnectTried ==
    ASSUME NEW w, Sane(w), NEW c \in Ctrl
    PROVE  Tried(w, BaseConnect(w, c), c)
<1> DEFINE v == Released(w, c)
           r == IF w.ctl[c].socketId < 0 THEN w.ctl[c]
                ELSE [w.ctl[c] EXCEPT !.needClose = FALSE, !.socketId = -1]
           x == With(v, c, r)
<1>1. Conn(w.ctl[c]) /\ w.ctl[c].socketId \in Slot \union {-1} /\ w.ctl[c].tag \in Nat
    BY DEF Sane, Kept, Owned
<1>2. /\ Sane(v) /\ v.ctl = w.ctl
      /\ \A u \in Nat : Kept(v.drv, -1, u, lost, half)
    BY ReleasedSane
<1>3. Conn(r) /\ r.socketId = -1 /\ r.tag \in Nat /\ r.wait = w.ctl[c].wait
    BY <1>1, SlotIsNat DEF Conn, ConnField
<1>4. BaseConnect(w, c) = Created(x, c) BY DEF BaseConnect
<1> HIDE DEF v, r
<1>5. Sane(x) /\ x.ctl[c] = r BY <1>2, <1>3, WithSane
<1> HIDE DEF x
<1>6. Tried(x, Created(x, c), c) BY <1>3, <1>5, CreatedTried
<1> QED BY <1>3, <1>4, <1>5, <1>6 DEF Tried

LEMMA DialledTried ==
    ASSUME NEW w, Sane(w), NEW c \in Ctrl
    PROVE  Tried(w, Dialled(w, c), c)
<1> DEFINE v == BaseConnect(w, c)
           r == [v.ctl[c] EXCEPT !.state = "CONNECTING"]
           x == With(v, c, r)
<1>1. Tried(w, v, c) BY BaseConnectTried
<1>2. CASE ~v.ok
    <2>1. Dialled(w, c) = v BY <1>2 DEF Dialled
    <2> QED BY <1>1, <2>1
<1>3. CASE v.ok
    <2>1. Dialled(w, c) = x BY <1>3 DEF Dialled
    <2> HIDE DEF v
    <2>2. Sane(v) /\ Fresh(v, c) /\ v.ctl[c].wait = w.ctl[c].wait
        BY <1>1, <1>3 DEF Tried
    <2>3. /\ Conn(r) /\ r.socketId = v.ctl[c].socketId /\ r.tag = v.ctl[c].tag
          /\ r.wait = v.ctl[c].wait
        BY <2>2 DEF Sane, Conn, ConnField
    <2> HIDE DEF r
    <2>4. Sane(x) /\ x.ctl[c] = r /\ x.drv = v.drv /\ x.ok = v.ok
        BY <2>2, <2>3, AlsoSane
    <2> HIDE DEF x
    <2>5. Fresh(x, c) BY <2>2, <2>3, <2>4 DEF Fresh
    <2>6. v.ok = TRUE BY <1>1, <1>3 DEF Tried
    <2> QED BY <2>1, <2>2, <2>3, <2>4, <2>5, <2>6 DEF Tried
<1> QED BY <1>2, <1>3

(* With a name to ask for, the connection has no new socket yet.           *)
LEMMA PrepareTried ==
    ASSUME NEW w, Sane(w), w.ok = TRUE, NEW c \in Ctrl
    PROVE  LET v == Prepare(w, c) IN
           /\ Sane(v)
           /\ v.ctl[c].wait = w.ctl[c].wait
           /\ v.ok \in BOOLEAN
           /\ v.ok => Fresh(v, c) \/ v.ctl[c].state = "WAIT_DNS"
           /\ ~v.ok => v.ctl[c].socketId = -1
<1>1. CASE ~w.ctl[c].byName
    <2>1. Prepare(w, c) = Dialled(w, c) BY <1>1 DEF Prepare
    <2>2. Tried(w, Dialled(w, c), c) BY DialledTried
    <2> QED BY <2>1, <2>2 DEF Tried
<1>2. CASE w.ctl[c].byName
    <2> DEFINE e == Send(w.drv, Query(c))
               x == [w EXCEPT !.drv = e]
               r == [w.ctl[c] EXCEPT !.state = "WAIT_DNS"]
               v == With(x, c, r)
    <2>1. Prepare(w, c) = v BY <1>2 DEF Prepare
    <2>2. Conn(w.ctl[c]) /\ Kept(w.drv, w.ctl[c].socketId, w.ctl[c].tag, lost, half)
        BY DEF Sane
    <2>3. Kept(e, w.ctl[c].socketId, w.ctl[c].tag, lost, half)
        BY <2>2, QueryKept
    <2>4. DOMAIN x = {"drv", "ctl", "ok"} /\ x.drv = e /\ x.ctl = w.ctl /\ x.ok = TRUE
        BY DEF Sane
    <2> HIDE DEF e, x
    <2>5. Sane(x) BY <2>2, <2>3, <2>4, OnlyOne DEF Sane
    <2>6. /\ Conn(r) /\ r.socketId = w.ctl[c].socketId /\ r.tag = w.ctl[c].tag
          /\ r.wait = w.ctl[c].wait /\ r.state = "WAIT_DNS"
        BY <2>2 DEF Conn, ConnField
    <2> HIDE DEF r
    <2>7. Sane(v) /\ v.ctl[c] = r /\ v.ok = TRUE
        BY <2>4, <2>5, <2>6, AlsoSane
    <2> HIDE DEF v
    <2> QED BY <2>1, <2>6, <2>7
<1> QED BY <1>1, <1>2

-----------------------------------------------------------------------------
(* The invariant.                                                          *)

Lives(d, k) == (k \notin d.remoteClose /\ d.pcb[k] # "none") \/ ToCreate(d, k)

(* The script of such a connection counts on being told.                   *)
Watched(r) ==
    /\ r.socketId # -1 /\ ~r.needClose
    /\ r.state = "ONLINE" \/ (r.state = "CONNECTING" /\ r.wait = "ON_LINE")

(* The end of its socket is being told, with the tag that it will compare. *)
Dying(c, r, cb) ==
    /\ cb # None /\ c \in cb.to
    /\ cb.ev \in {"ERROR", "REMOTE_CLOSE", "CLOSE_OK"} /\ cb.tag = r.tag

Guard(c, d, r, cb) ==
    Watched(r) =>
        /\ CheckSocket(d, r.socketId, r.tag) /\ d.param[r.socketId] = c
        /\ Lives(d, r.socketId) \/ Dying(c, r, cb)

Waits(r) == r.wait = "OFF_LINE" => r.state # "ONLINE"

NetInv ==
    /\ callback \in Callback \union {None}
    /\ half \in Half \union {None}
    /\ half # None /\ half.step # "end" => half.slot \in Slot
    /\ Sane(World)
    /\ \A c \in Ctrl : /\ Waits(ctl[c])
                       /\ Busy(c) \/ Guard(c, prvlwip, ctl[c], callback)

LEMMA Now ==
    ASSUME NetInv, NEW c \in Ctrl
    PROVE  /\ Conn(ctl[c]) /\ DOMAIN ctl = Ctrl /\ Waits(ctl[c])
           /\ Kept(prvlwip, ctl[c].socketId, ctl[c].tag, lost, half)
           /\ Good(prvlwip)
           /\ ctl[c].socketId \in Slot \union {-1} /\ ctl[c].tag \in Nat
           /\ World.drv = prvlwip /\ World.ctl = ctl /\ World.ok = TRUE
BY DEF NetInv, Sane, World, Kept, Owned

(* A step that leaves what is lost and socket.close as they are.           *)
LEMMA Becoming ==
    ASSUME NetInv, NEW c \in Ctrl, NEW w, Sane(w), Becomes(w), UNCHANGED <<lost, half>>,
           callback' \in Callback \union {None},
           Waits(w.ctl[c]), Busy(c) \/ Guard(c, w.drv, w.ctl[c], callback')
    PROVE  NetInv'
<1>1. Sane(World)'
    <2>1. prvlwip' = w.drv /\ ctl' = w.ctl BY DEF Becomes
    <2>2. World' = [drv |-> w.drv, ctl |-> w.ctl, ok |-> TRUE] BY <2>1 DEF World
    <2> QED BY <2>2 DEF Sane
<1>2. \A b \in Ctrl : (Busy(b) \/ Guard(b, prvlwip, ctl[b], callback))'
    <2> SUFFICES ASSUME NEW b \in Ctrl
                 PROVE  Busy(b)' \/ Guard(b, prvlwip', ctl'[b], callback')
        OBVIOUS
    <2>1. b = c BY OnlyOne
    <2>2. prvlwip' = w.drv /\ ctl' = w.ctl BY DEF Becomes
    <2> QED BY <2>1, <2>2 DEF Busy
<1>3. \A b \in Ctrl : Waits(ctl[b])' BY OnlyOne DEF Becomes
<1> QED BY <1>1, <1>2, <1>3 DEF NetInv

LEMMA FreshGuard ==
    ASSUME NEW w, NEW c, Fresh(w, c), NEW cb
    PROVE  Guard(c, w.drv, w.ctl[c], cb)
BY DEF Fresh, Guard, Lives

LEMMA Unwatched ==
    ASSUME NEW c, NEW d, NEW r, NEW cb,
           \/ r.socketId = -1
           \/ r.state \notin {"ONLINE", "CONNECTING"}
           \/ r.needClose
    PROVE  Guard(c, d, r, cb)
BY DEF Guard, Watched

-----------------------------------------------------------------------------
(* The Lua thread.                                                         *)

LEMMA LinkUpKeeps == ASSUME NetInv, NEW c \in Ctrl, LinkUp(c) PROVE NetInv'
<1>1. Conn(ctl[c]) /\ Sane(World) /\ World.ctl = ctl /\ World.drv = prvlwip
    BY Now DEF NetInv
<1>2. PICK r : /\ ctl' = [ctl EXCEPT ![c] = r]
               /\ \/ r = [ctl[c] EXCEPT !.state = "OFF_LINE", !.wait = "NONE"]
                  \/ r = [ctl[c] EXCEPT !.state = "LINK_OFF", !.wait = "LINK_UP"]
    BY DEF LinkUp, Update
<1>3. /\ Conn(r) /\ r.socketId = ctl[c].socketId /\ r.tag = ctl[c].tag
      /\ r.state \in {"OFF_LINE", "LINK_OFF"}
    BY <1>1, <1>2 DEF Conn, ConnField
<1> DEFINE w == With(World, c, r)
<1>4. Sane(w) /\ w.ctl[c] = r /\ w.drv = prvlwip BY <1>1, <1>3, AlsoSane
<1>5. Becomes(w)
    BY <1>2 DEF LinkUp, Becomes, With, World
<1> HIDE DEF w
<1>6. Waits(r) BY <1>3 DEF Waits
<1>7. Guard(c, w.drv, w.ctl[c], callback') BY <1>3, <1>4, Unwatched
<1>8. UNCHANGED <<lost, half, callback>> BY DEF LinkUp, Lua
<1> QED BY <1>4, <1>5, <1>6, <1>7, <1>8, Becoming DEF NetInv

LEMMA ConnectKeeps ==
    ASSUME NetInv, NEW c \in Ctrl, NEW byName \in BOOLEAN, Connect(c, byName) PROVE NetInv'
<1> DEFINE r == [ctl[c] EXCEPT !.needClose = FALSE, !.byName = byName, !.wait = "ON_LINE"]
           w == With(World, c, r)
           v == Prepare(w, c)
           a == [w.ctl[c] EXCEPT !.state = "LINK_OFF"]
           b == [v.ctl[c] EXCEPT !.state = "OFF_LINE", !.wait = "NONE"]
<1>1. Conn(ctl[c]) /\ Sane(World) /\ World.ctl = ctl /\ World.drv = prvlwip /\ World.ok = TRUE
    BY Now DEF NetInv
<1>2. Conn(r) /\ r.socketId = ctl[c].socketId /\ r.tag = ctl[c].tag /\ r.wait = "ON_LINE"
    BY <1>1 DEF Conn, ConnField
<1>3. \/ Becomes(With(w, c, a))
      \/ v.ok /\ Becomes(v)
      \/ ~v.ok /\ Becomes(With(v, c, b))
    BY DEF Connect
<1> HIDE DEF r
<1>4. Sane(w) /\ w.ctl[c] = r /\ w.ok = TRUE BY <1>1, <1>2, AlsoSane
<1> HIDE DEF w
<1>5. /\ Sane(v)
      /\ v.ctl[c].wait = "ON_LINE"
      /\ v.ok => Fresh(v, c) \/ v.ctl[c].state = "WAIT_DNS"
      /\ ~v.ok => v.ctl[c].socketId = -1
    BY <1>2, <1>4, PrepareTried
<1> HIDE DEF v
<1>6. UNCHANGED <<lost, half, callback>> BY DEF Connect, Lua
<1>7. callback' \in Callback \union {None} BY <1>6 DEF NetInv
<1>8. CASE Becomes(With(w, c, a))
    <2>1. /\ Conn(a) /\ a.socketId = w.ctl[c].socketId /\ a.tag = w.ctl[c].tag
          /\ a.state = "LINK_OFF"
        BY <1>2, <1>4 DEF Conn, ConnField
    <2> HIDE DEF a
    <2> DEFINE x == With(w, c, a)
    <2>2. Sane(x) /\ x.ctl[c] = a BY <2>1, <1>4, AlsoSane
    <2> HIDE DEF x
    <2>3. Waits(x.ctl[c]) /\ Guard(c, x.drv, x.ctl[c], callback')
        BY <2>1, <2>2, Unwatched DEF Waits
    <2>4. Becomes(x) BY <1>8 DEF x
    <2> QED BY <2>2, <2>3, <2>4, <1>6, <1>7, Becoming
<1>9. CASE v.ok /\ Becomes(v)
    <2>1. Waits(v.ctl[c]) BY <1>5 DEF Waits
    <2>2. Guard(c, v.drv, v.ctl[c], callback')
        BY <1>5, <1>9, FreshGuard, Unwatched
    <2> QED BY <2>1, <2>2, <1>5, <1>6, <1>7, <1>9, Becoming
<1>10. CASE ~v.ok /\ Becomes(With(v, c, b))
    <2>1. Conn(v.ctl[c]) BY <1>5 DEF Sane
    <2>2. /\ Conn(b) /\ b.socketId = v.ctl[c].socketId /\ b.tag = v.ctl[c].tag
          /\ b.state = "OFF_LINE"
        BY <2>1 DEF Conn, ConnField
    <2> HIDE DEF b
    <2> DEFINE x == With(v, c, b)
    <2>3. Sane(x) /\ x.ctl[c] = b BY <2>2, <1>5, AlsoSane
    <2> HIDE DEF x
    <2>4. Waits(x.ctl[c]) /\ Guard(c, x.drv, x.ctl[c], callback')
        BY <2>2, <2>3, Unwatched DEF Waits
    <2>5. Becomes(x) BY <1>10 DEF x
    <2> QED BY <2>3, <2>4, <2>5, <1>6, <1>7, Becoming
<1> QED BY <1>3, <1>8, <1>9, <1>10

LEMMA DisconKeeps == ASSUME NetInv, NEW c \in Ctrl, Discon(c) PROVE NetInv'
<1> DEFINE r == [ctl[c] EXCEPT !.needClose = FALSE, !.newRx = FALSE]
           w == With(World, c, r)
           off == ForceClose(w, c)
           k == ctl[c].socketId
           a == [w.ctl[c] EXCEPT !.state = "OFF_LINE", !.wait = "NONE"]
           b == [w.ctl[c] EXCEPT !.state = "DISCONNECTING", !.wait = "OFF_LINE"]
           f == [off.ctl[c] EXCEPT !.state = "OFF_LINE"]
           e == StartClose(prvlwip, {k}, "disconnect")
<1>1. /\ Conn(ctl[c]) /\ Sane(World) /\ World.ctl = ctl /\ World.drv = prvlwip
      /\ DOMAIN ctl = Ctrl
      /\ Kept(prvlwip, k, ctl[c].tag, lost, half)
    BY Now DEF NetInv
<1>2. Conn(r) /\ r.socketId = k /\ r.tag = ctl[c].tag
    BY <1>1 DEF Conn, ConnField
<1>3. \/ Becomes(With(w, c, a))
      \/ prvlwip' = e /\ ctl' = [ctl EXCEPT ![c] = b]
      \/ Becomes(With(off, c, f))
    BY DEF Discon, Update
<1> HIDE DEF r
<1>4. Sane(w) /\ w.ctl[c] = r BY <1>1, <1>2, AlsoSane
<1>5. w.ctl = [ctl EXCEPT ![c] = r] BY DEF With, World
<1> HIDE DEF w
<1>6. Sane(off) /\ off.ctl[c].socketId = -1 BY <1>4, ForceCloseSane
<1> HIDE DEF off
<1>7. UNCHANGED <<lost, half, callback>> BY DEF Discon, Lua
<1>8. callback' \in Callback \union {None} BY <1>7 DEF NetInv
<1>9. CASE Becomes(With(w, c, a))
    <2>1. /\ Conn(a) /\ a.socketId = w.ctl[c].socketId /\ a.tag = w.ctl[c].tag
          /\ a.state = "OFF_LINE"
        BY <1>2, <1>4 DEF Conn, ConnField
    <2> HIDE DEF a
    <2> DEFINE x == With(w, c, a)
    <2>2. Sane(x) /\ x.ctl[c] = a BY <2>1, <1>4, AlsoSane
    <2> HIDE DEF x
    <2>3. Waits(x.ctl[c]) /\ Guard(c, x.drv, x.ctl[c], callback')
        BY <2>1, <2>2, Unwatched DEF Waits
    <2>4. Becomes(x) BY <1>9 DEF x
    <2> QED BY <2>2, <2>3, <2>4, <1>7, <1>8, Becoming
<1>10. CASE prvlwip' = e /\ ctl' = [ctl EXCEPT ![c] = b]
    <2> DEFINE x == [drv |-> e, ctl |-> [ctl EXCEPT ![c] = b], ok |-> TRUE]
    <2>1. Kept(e, k, ctl[c].tag, lost, half) BY <1>1, StartCloseKept DEF CloseOp
    <2>2. /\ Conn(b) /\ b.socketId = k /\ b.tag = ctl[c].tag /\ b.state = "DISCONNECTING"
        BY <1>2, <1>4 DEF Conn, ConnField
    <2> HIDE DEF e, b
    <2>3. Sane(x) /\ x.ctl[c] = b BY <2>1, <2>2, <1>1, OnlyOne DEF Sane
    <2>4. Becomes(x) BY <1>10 DEF Becomes
    <2> HIDE DEF x
    <2>5. Waits(x.ctl[c]) /\ Guard(c, x.drv, x.ctl[c], callback')
        BY <2>2, <2>3, Unwatched DEF Waits
    <2> QED BY <2>3, <2>4, <2>5, <1>7, <1>8, Becoming
<1>11. CASE Becomes(With(off, c, f))
    <2>1. Conn(off.ctl[c]) BY <1>6 DEF Sane
    <2>2. /\ Conn(f) /\ f.socketId = off.ctl[c].socketId /\ f.tag = off.ctl[c].tag
          /\ f.state = "OFF_LINE"
        BY <2>1 DEF Conn, ConnField
    <2> HIDE DEF f
    <2> DEFINE x == With(off, c, f)
    <2>3. Sane(x) /\ x.ctl[c] = f BY <2>2, <1>6, AlsoSane
    <2> HIDE DEF x
    <2>4. Waits(x.ctl[c]) /\ Guard(c, x.drv, x.ctl[c], callback')
        BY <2>2, <2>3, Unwatched DEF Waits
    <2>5. Becomes(x) BY <1>11 DEF x
    <2> QED BY <2>3, <2>4, <2>5, <1>7, <1>8, Becoming
<1> QED BY <1>3, <1>9, <1>10, <1>11

(* The connection of a step that also has to do with socket.close, or with *)
(* what is lost.                                                           *)
LEMMA Keeping ==
    ASSUME NetInv, NEW c \in Ctrl,
           callback' \in Callback \union {None}, half' \in Half \union {None},
           half' # None /\ half'.step # "end" => half'.slot \in Slot,
           DOMAIN ctl' = Ctrl, Conn(ctl'[c]), Waits(ctl'[c]),
           Kept(prvlwip', ctl'[c].socketId, ctl'[c].tag, lost', half'),
           (half' # None /\ half'.ctrl = c) \/ Guard(c, prvlwip', ctl'[c], callback')
    PROVE  NetInv'
<1>1. Sane(World)'
    <2>1. World' = [drv |-> prvlwip', ctl |-> ctl', ok |-> TRUE] BY DEF World
    <2> QED BY <2>1, OnlyOne DEF Sane
<1>2. ASSUME NEW b \in Ctrl
      PROVE  (Busy(b) \/ Guard(b, prvlwip, ctl[b], callback))' /\ Waits(ctl'[b])
    <2>1. b = c BY OnlyOne
    <2> QED BY <2>1 DEF Busy
<1> QED BY <1>1, <1>2 DEF NetInv

LEMMA StillGuarded ==
    ASSUME NEW c, NEW d, NEW cb, NEW r, Guard(c, d, r, cb),
           NEW q, q.socketId = r.socketId, q.tag = r.tag, Watched(q) => Watched(r)
    PROVE  Guard(c, d, q, cb)
BY DEF Guard, Dying

LEMMA CloseStartKeeps == ASSUME NetInv, NEW c \in Ctrl, CloseStart(c) PROVE NetInv'
<1> USE NetAssumption
<1> DEFINE k == ctl[c].socketId
           h == [ctrl |-> c, slot |-> k,
                 step |-> IF CheckSocket(prvlwip, k, ctl[c].tag) THEN "mark" ELSE "end"]
<1>1. /\ Conn(ctl[c]) /\ DOMAIN ctl = Ctrl /\ Waits(ctl[c])
      /\ Kept(prvlwip, k, ctl[c].tag, lost, half)
      /\ k \in Slot \union {-1}
    BY Now
<1>2. /\ half = None /\ half' = h
      /\ UNCHANGED <<prvlwip, callback, lost, ctl>>
    BY DEF CloseStart, Lua
<1>3. h \in Half BY <1>1 DEF Half
<1>4. h # None BY <1>3
<1>5. h.step # "end" => k \in Slot
    BY <1>1 DEF CheckSocket, Kept, Good, Driver
<1>6. \A j : ~Sending(half, j) /\ ~Ending(half) BY <1>2 DEF Sending, Ending
<1>7. Kept(prvlwip, k, ctl[c].tag, lost, h)
    BY <1>1, <1>6 DEF Kept, Tended, Owned, Leaves
<1>8. h.slot = k /\ h.ctrl = c OBVIOUS
<1> HIDE DEF h
<1>9. callback' \in Callback \union {None} BY <1>2 DEF NetInv
<1> QED BY <1>1, <1>2, <1>3, <1>4, <1>5, <1>7, <1>8, <1>9, Keeping

LEMMA CloseMarkKeeps == ASSUME NetInv, CloseMark PROVE NetInv'
<1> DEFINE k == half.slot
           h == [half EXCEPT !.step = "send"]
           e == [prvlwip EXCEPT !.closing = @ \union {k}]
<1>1. half # None /\ half \in Half /\ half.step = "mark" /\ k \in Slot
    BY DEF CloseMark, Closing, NetInv
<1>2. PICK c \in Ctrl : half.ctrl = c BY <1>1 DEF Half
<1> DEFINE s == ctl[c].socketId
           t == ctl[c].tag
           l == lost \union ({k} \ prvlwip.used)
<1>3. /\ Conn(ctl[c]) /\ DOMAIN ctl = Ctrl /\ Waits(ctl[c])
      /\ Kept(prvlwip, s, t, lost, half) /\ Good(prvlwip)
    BY Now
<1>4. /\ half' = h /\ prvlwip' = e /\ lost' = l
      /\ UNCHANGED <<ctl, callback>>
    BY DEF CloseMark, Closing
<1>5. h \in Half /\ h.step = "send" /\ h.slot = k /\ h.ctrl = c BY <1>1, <1>2 DEF Half
<1>6. h # None BY <1>5, NetAssumption
<1> HIDE DEF h
<1>7. /\ e.closing = prvlwip.closing \union {k} /\ e.used = prvlwip.used
      /\ e.remoteClose = prvlwip.remoteClose /\ e.pcb = prvlwip.pcb /\ e.tag = prvlwip.tag
      /\ Kin(prvlwip, e)
    BY <1>1, <1>3 DEF Good, Driver, Field, Kin, Clear
<1>8. /\ Good(e)
      /\ \A j : CloseSent(e, j) <=> CloseSent(prvlwip, j)
      /\ \A j : ToCreate(e, j) <=> ToCreate(prvlwip, j)
    BY <1>3, <1>7, KinGood
<1> HIDE DEF e
<1>9. \A j : ~Sending(half, j) /\ ~Ending(half) BY <1>1 DEF Sending, Ending
<1>10. Sending(h, k) BY <1>5, <1>6 DEF Sending
<1>11. \A j : Leaves(prvlwip, lost, half, j) => Leaves(e, l, h, j)
    BY <1>8, <1>9 DEF Leaves
<1>12. Leaves(e, l, h, k) BY <1>10 DEF Leaves
<1>13. Tended(e, l, h)
    <2>1. \A j \in e.closing : j \in e.used \/ j \in l
        BY <1>3, <1>7 DEF Kept, Tended
    <2>2. \A j \in e.used : Clear(e, j) => j \in l \/ ToCreate(e, j)
        BY <1>3, <1>7, <1>8 DEF Kept, Tended, Clear
    <2>3. \A j \in e.used \intersect e.closing : Leaves(e, l, h, j)
        BY <1>3, <1>7, <1>11, <1>12 DEF Kept, Tended
    <2> QED BY <2>1, <2>2, <2>3 DEF Tended
<1>14. Owned(e, s, t, l, h)
    BY <1>3, <1>7, <1>8, <1>9, <1>11 DEF Kept, Owned
<1>15. Kept(e, s, t, l, h) BY <1>8, <1>13, <1>14 DEF Kept
<1>16. callback' \in Callback \union {None} BY <1>4 DEF NetInv
<1> HIDE DEF k, l
<1> QED BY <1>1, <1>3, <1>4, <1>5, <1>6, <1>15, <1>16, Keeping

LEMMA CloseSendKeeps == ASSUME NetInv, CloseSend PROVE NetInv'
<1> DEFINE k == half.slot
           h == [half EXCEPT !.step = "end"]
           m == Message("close", k, prvlwip.tag[k])
           e == Send(prvlwip, m)
<1>1. half # None /\ half \in Half /\ half.step = "send" /\ k \in Slot
    BY DEF CloseSend, Closing, NetInv
<1>2. PICK c \in Ctrl : half.ctrl = c BY <1>1 DEF Half
<1> DEFINE s == ctl[c].socketId
           t == ctl[c].tag
<1>3. /\ Conn(ctl[c]) /\ DOMAIN ctl = Ctrl /\ Waits(ctl[c])
      /\ Kept(prvlwip, s, t, lost, half) /\ Good(prvlwip)
    BY Now
<1>4. /\ half' = h /\ prvlwip' = e
      /\ UNCHANGED <<ctl, callback, lost>>
    BY DEF CloseSend, Closing
<1>5. h \in Half /\ h.step = "end" /\ h.ctrl = c BY <1>1, <1>2 DEF Half
<1>6. h # None BY <1>5, NetAssumption
<1> HIDE DEF h
<1>7. m \in Msg /\ m.op \in CloseOp /\ m.slot = k /\ m.tag = prvlwip.tag[k] /\ m.op # "create"
    BY <1>1, <1>3 DEF Good, Driver, Msg, Message, Op, CloseOp
<1> HIDE DEF m
<1>8. Sent(prvlwip, e, m) BY <1>3 DEF Good, Driver, Field, Sent, Send
<1> HIDE DEF e
<1>9. /\ Good(e)
      /\ \A j : CloseSent(prvlwip, j) => CloseSent(e, j)
      /\ k \in prvlwip.used => CloseSent(e, k)
      /\ \A j : ToCreate(prvlwip, j) => ToCreate(e, j)
    BY <1>1, <1>3, <1>7, <1>8, SentGood
<1>10. /\ e.closing = prvlwip.closing /\ e.used = prvlwip.used
       /\ e.remoteClose = prvlwip.remoteClose /\ e.pcb = prvlwip.pcb /\ e.tag = prvlwip.tag
    BY <1>8 DEF Sent
<1>11. \A j \in prvlwip.used : Leaves(prvlwip, lost, half, j) => Leaves(e, lost, h, j)
    BY <1>9 DEF Leaves, Sending
<1>12. Ending(h) BY <1>5, <1>6 DEF Ending
<1>13. Tended(e, lost, h)
    BY <1>3, <1>9, <1>10, <1>11 DEF Kept, Tended, Clear
<1>14. Owned(e, s, t, lost, h)
    BY <1>3, <1>10, <1>11, <1>12 DEF Kept, Owned
<1>15. Kept(e, s, t, lost, h) BY <1>9, <1>13, <1>14 DEF Kept
<1>16. callback' \in Callback \union {None} BY <1>4 DEF NetInv
<1> QED BY <1>3, <1>4, <1>5, <1>6, <1>15, <1>16, Keeping

LEMMA CloseEndKeeps == ASSUME NetInv, CloseEnd PROVE NetInv'
<1> DEFINE c == half.ctrl
           s == ctl[c].socketId
           t == ctl[c].tag
           l == lost \union (IF CheckSocket(prvlwip, s, t) THEN {s} ELSE {})
           r == [ctl[c] EXCEPT !.needClose = FALSE, !.socketId = -1, !.newRx = FALSE,
                               !.cnt = 0, !.nums = 0, !.wait = "NONE"]
<1>1. half # None /\ half.step = "end" /\ c \in Ctrl
    BY DEF CloseEnd, Closing, NetInv, Half
<1>2. /\ Conn(ctl[c]) /\ DOMAIN ctl = Ctrl
      /\ Kept(prvlwip, s, t, lost, half)
    BY <1>1, Now
<1>3. /\ prvlwip' = prvlwip /\ ctl' = [ctl EXCEPT ![c] = r]
      /\ lost' = l /\ half' = None /\ callback' = callback
    BY DEF CloseEnd, Closing, Becomes, Forgotten, With, World
<1>4. Conn(r) /\ r.socketId = -1 /\ r.tag = t /\ r.wait = "NONE"
    BY <1>2 DEF Conn, ConnField
<1>5. ctl'[c] = r /\ DOMAIN ctl' = Ctrl BY <1>1, <1>2, <1>3
<1> HIDE DEF r
<1>6. \A j : ~Sending(half, j) BY <1>1 DEF Sending
<1>7. \A j : Leaves(prvlwip, lost, half, j) => Leaves(prvlwip, l, None, j)
    BY <1>6 DEF Leaves
<1>8. Tended(prvlwip, l, None) BY <1>2, <1>7 DEF Kept, Tended
<1>9. Owned(prvlwip, -1, t, l, None)
    <2>1. ASSUME NEW j \in prvlwip.used PROVE Leaves(prvlwip, l, None, j)
        <3>1. CASE j # s BY <3>1, <1>2, <1>7 DEF Kept, Owned
        <3>2. CASE j = s /\ j \in prvlwip.closing BY <3>2, <1>8 DEF Tended
        <3>3. CASE j = s /\ j \notin prvlwip.closing
            <4>1. s \in Slot BY <3>3, <1>2 DEF Kept, Good, Driver
            <4>2. CheckSocket(prvlwip, s, t)
                BY <4>1, <3>3, <1>2 DEF Kept, Owned, CheckSocket
            <4> QED BY <4>2, <3>3 DEF Leaves
        <3> QED BY <3>1, <3>2, <3>3
    <2>2. -1 \notin prvlwip.used /\ -1 \notin Slot
        BY <1>2, SlotIsNat DEF Kept, Good, Driver
    <2> QED BY <2>1, <2>2, <1>2 DEF Kept, Owned
<1>10. Kept(prvlwip, -1, t, l, None) BY <1>2, <1>8, <1>9 DEF Kept
<1>11. Waits(r) /\ Guard(c, prvlwip, r, callback) BY <1>4, Unwatched DEF Waits
<1>12. callback' \in Callback \union {None} BY <1>3 DEF NetInv
<1> HIDE DEF c, l
<1> QED BY <1>1, <1>3, <1>4, <1>5, <1>10, <1>11, <1>12, Keeping

LEMMA TxKeeps == ASSUME NetInv, NEW c \in Ctrl, Tx(c) PROVE NetInv'
<1> DEFINE k == ctl[c].socketId
           t == ctl[c].tag
           m == Message("tx", k, t)
           e == Send(prvlwip, m)
           a == [ctl[c] EXCEPT !.wait = "TX_OK"]
           b == [ctl[c] EXCEPT !.needClose = TRUE]
<1>1. /\ Conn(ctl[c]) /\ DOMAIN ctl = Ctrl /\ Waits(ctl[c])
      /\ Kept(prvlwip, k, t, lost, half) /\ Good(prvlwip)
      /\ Sane(World) /\ World.ctl = ctl /\ World.drv = prvlwip
    BY Now DEF NetInv
<1>2. half = None /\ UNCHANGED <<lost, half, callback>> BY DEF Tx, Lua
<1>3. callback' \in Callback \union {None} /\ half' \in Half \union {None} BY <1>2 DEF NetInv
<1>4. ctl[c].state = "ONLINE" BY DEF Tx, IsOnline
<1>5. \/ /\ CheckSocket(prvlwip, k, t) /\ prvlwip' = e
         /\ ctl' = [ctl EXCEPT ![c] = a]
      \/ /\ prvlwip' = prvlwip
         /\ ctl' = [ctl EXCEPT ![c] = b]
    BY DEF Tx, Update
<1>6. CASE CheckSocket(prvlwip, k, t) /\ prvlwip' = e /\ ctl' = [ctl EXCEPT ![c] = a]
    <2>1. k \in prvlwip.used /\ k \notin prvlwip.closing /\ prvlwip.tag[k] = t
        BY <1>6 DEF CheckSocket
    <2>2. k \in Slot /\ t \in Nat BY <2>1, <1>1 DEF Good, Driver, Kept, Owned
    <2>3. m \in Msg /\ m.op = "tx" /\ m.slot = k /\ m.tag = t
        BY <2>2 DEF Msg, Message, Op
    <2> HIDE DEF m
    <2>4. ~CloseSent(prvlwip, k) BY <2>1, <1>1, <1>2 DEF Kept, Owned, Ending
    <2>5. Meets(prvlwip, m) BY <2>1, <2>3 DEF Meets
    <2>6. Sent(prvlwip, e, m) BY <1>1 DEF Good, Driver, Field, Sent, Send
    <2> HIDE DEF e
    <2>7. /\ Good(e)
          /\ \A j : CloseSent(prvlwip, j) => CloseSent(e, j)
          /\ \A j : CloseSent(e, j) => CloseSent(prvlwip, j)
          /\ \A j : ToCreate(prvlwip, j) => ToCreate(e, j)
        BY <1>1, <2>3, <2>4, <2>5, <2>6, SentGood DEF CloseOp
    <2>8. /\ e.closing = prvlwip.closing /\ e.used = prvlwip.used
          /\ e.remoteClose = prvlwip.remoteClose /\ e.pcb = prvlwip.pcb /\ e.tag = prvlwip.tag
          /\ e.param = prvlwip.param
        BY <2>6 DEF Sent
    <2>9. \A j : Leaves(prvlwip, lost, half, j) => Leaves(e, lost, half, j)
        BY <2>7 DEF Leaves
    <2>10. Tended(e, lost, half) BY <1>1, <2>7, <2>8, <2>9 DEF Kept, Tended, Clear
    <2>11. Owned(e, k, t, lost, half) BY <1>1, <2>7, <2>8, <2>9 DEF Kept, Owned
    <2>12. Kept(e, k, t, lost, half) BY <2>7, <2>10, <2>11 DEF Kept
    <2>13. /\ Conn(a) /\ a.socketId = k /\ a.tag = t /\ a.wait = "TX_OK"
           /\ Watched(a) => Watched(ctl[c])
        BY <1>1, <1>4 DEF Conn, ConnField, Watched
    <2>14. ctl'[c] = a /\ DOMAIN ctl' = Ctrl BY <1>1, <1>6
    <2> HIDE DEF a
    <2>15. Guard(c, prvlwip, ctl[c], callback) BY <1>2 DEF NetInv, Busy
    <2>16. Guard(c, prvlwip, a, callback) BY <2>13, <2>15, StillGuarded
    <2>17. Guard(c, e, a, callback)
        BY <2>16, <2>7, <2>8 DEF Guard, CheckSocket, Lives
    <2>18. Waits(a) BY <2>13 DEF Waits
    <2> QED BY <1>2, <1>3, <1>6, <2>12, <2>13, <2>14, <2>17, <2>18, Keeping
<1>7. CASE prvlwip' = prvlwip /\ ctl' = [ctl EXCEPT ![c] = b]
    <2>1. /\ Conn(b) /\ b.socketId = k /\ b.tag = t /\ b.needClose = TRUE
          /\ b.wait = ctl[c].wait /\ b.state = ctl[c].state
        BY <1>1 DEF Conn, ConnField
    <2>2. ctl'[c] = b /\ DOMAIN ctl' = Ctrl BY <1>1, <1>7
    <2> HIDE DEF b
    <2>3. Waits(b) /\ Guard(c, prvlwip, b, callback) BY <1>1, <2>1, Unwatched DEF Waits
    <2> QED BY <1>1, <1>2, <1>3, <1>7, <2>1, <2>2, <2>3, Keeping
<1> QED BY <1>5, <1>6, <1>7

(* network_rx and network_wait_event.                                      *)
LEMMA ScriptKeeps == ASSUME NetInv, NEW c \in Ctrl, Rx(c) \/ WaitEvent(c) PROVE NetInv'
<1>1. /\ Conn(ctl[c]) /\ DOMAIN ctl = Ctrl /\ Waits(ctl[c])
      /\ Kept(prvlwip, ctl[c].socketId, ctl[c].tag, lost, half)
    BY Now
<1>2. /\ half = None
      /\ UNCHANGED <<lost, half, callback, prvlwip>>
    BY DEF Rx, WaitEvent, Lua
<1>3. PICK r : /\ ctl' = [ctl EXCEPT ![c] = r]
               /\ \/ r = [ctl[c] EXCEPT !.newRx = FALSE]
                  \/ r = [ctl[c] EXCEPT !.wait = "EVENT"]
    BY DEF Rx, WaitEvent, Update
<1>4. /\ Conn(r) /\ r.socketId = ctl[c].socketId /\ r.tag = ctl[c].tag
      /\ r.state = ctl[c].state /\ r.needClose = ctl[c].needClose
      /\ r.wait = ctl[c].wait \/ r.wait = "EVENT"
    BY <1>1, <1>3 DEF Conn, ConnField
<1>5. ctl'[c] = r /\ DOMAIN ctl' = Ctrl BY <1>1, <1>3
<1>6. Waits(r) /\ (Watched(r) => Watched(ctl[c])) BY <1>1, <1>4 DEF Waits, Watched
<1>7. Guard(c, prvlwip, ctl[c], callback) BY <1>2 DEF NetInv, Busy
<1>8. Guard(c, prvlwip, r, callback) BY <1>4, <1>6, <1>7, StillGuarded
<1>9. callback' \in Callback \union {None} /\ half' \in Half \union {None} BY <1>2 DEF NetInv
<1> QED BY <1>1, <1>2, <1>4, <1>5, <1>6, <1>8, <1>9, Keeping

LEMMA LuaKeeps == ASSUME NetInv, LuaStep PROVE NetInv'
BY LinkUpKeeps, ConnectKeeps, DisconKeeps, CloseStartKeeps, CloseMarkKeeps, CloseSendKeeps,
   CloseEndKeeps, TxKeeps, ScriptKeeps
   DEF LuaStep

-----------------------------------------------------------------------------
(* The state machine.                                                      *)

Ends(r, result) == IF result > 0 THEN r ELSE [r EXCEPT !.wait = "NONE"]

(* A handler leaves no connection watched, except with a new socket, or    *)
(* with the one it had when no end was told.                               *)
LEMMA MachineKeeps ==
    ASSUME NetInv, NEW c \in Ctrl, NEW w, Sane(w), NEW state, NEW result \in {-1, 0, 1},
           Machine(c, state, w, result),
           NEW q, q = Ends(w.ctl[c], result), Waits(q),
           Watched(q) => \/ Fresh(w, c)
                         \/ /\ w.drv = prvlwip /\ Watched(ctl[c]) /\ ~Ended
                            /\ q.socketId = ctl[c].socketId /\ q.tag = ctl[c].tag
    PROVE  NetInv'
<1> DEFINE x == IF result > 0 THEN w ELSE With(w, c, q)
<1>1. Conn(w.ctl[c]) BY DEF Sane
<1>2. /\ Conn(q) /\ q.socketId = w.ctl[c].socketId /\ q.tag = w.ctl[c].tag
      /\ result > 0 => q = w.ctl[c]
      /\ ~(result > 0) => q = [w.ctl[c] EXCEPT !.wait = "NONE"]
    BY <1>1 DEF Conn, ConnField, Ends
<1>3. Becomes(x) /\ UNCHANGED <<lost, half>> /\ Told(c)
      /\ callback' = IF callback.to = {c} THEN None ELSE [callback EXCEPT !.to = @ \ {c}]
    BY <1>2 DEF Machine
<1>4. Sane(x) /\ x.ctl[c] = q /\ x.drv = w.drv
    <2>1. CASE result > 0 BY <2>1, <1>2
    <2>2. CASE ~(result > 0)
        <3>1. Sane(With(w, c, q)) /\ With(w, c, q).ctl[c] = q /\ With(w, c, q).drv = w.drv
            BY <1>2, AlsoSane
        <3> QED BY <2>2, <3>1
    <2> QED BY <2>1, <2>2
<1>5. callback' \in Callback \union {None}
    BY <1>3 DEF NetInv, Told, Callback
<1> HIDE DEF x
<1>6. Busy(c) \/ Guard(c, x.drv, x.ctl[c], callback')
    <2> SUFFICES ASSUME ~Busy(c), Watched(q)
                 PROVE  /\ CheckSocket(w.drv, q.socketId, q.tag)
                        /\ w.drv.param[q.socketId] = c
                        /\ Lives(w.drv, q.socketId)
        BY <1>4 DEF Guard
    <2>1. CASE Fresh(w, c) BY <2>1, <1>2 DEF Fresh, Lives
    <2>2. CASE /\ w.drv = prvlwip /\ Watched(ctl[c]) /\ ~Ended
               /\ q.socketId = ctl[c].socketId /\ q.tag = ctl[c].tag
        <3>1. Guard(c, prvlwip, ctl[c], callback) BY DEF NetInv
        <3>2. ~Dying(c, ctl[c], callback) BY <2>2 DEF Dying, Ended
        <3> QED BY <2>2, <3>1, <3>2 DEF Guard
    <2> QED BY <2>1, <2>2
<1> QED BY <1>3, <1>4, <1>5, <1>6, Becoming

LEMMA EndsSame ==
    ASSUME NEW r, Conn(r), NEW result \in {-1, 0, 1}
    PROVE  LET q == Ends(r, result) IN
           /\ q.socketId = r.socketId /\ q.tag = r.tag /\ q.state = r.state
           /\ q.needClose = r.needClose
           /\ q.wait = r.wait \/ q.wait = "NONE"
           /\ result \in {-1, 0} => q.wait = "NONE"
           /\ result = 1 => q = r
BY DEF Ends, Conn, ConnField

(* The handlers that leave the sockets alone, and the connection in a      *)
(* state where it is not watched, or watched as before.                    *)
LEMMA IdlyKeeps ==
    ASSUME NetInv, NEW c \in Ctrl, NEW w, Sane(w), NEW state, NEW result \in {-1, 0, 1},
           w.drv = prvlwip,
           w.ctl[c].socketId = ctl[c].socketId, w.ctl[c].tag = ctl[c].tag,
           Machine(c, state, w, result),
           Waits(Ends(w.ctl[c], result)),
           Watched(Ends(w.ctl[c], result)) => Watched(ctl[c]) /\ ~Ended
    PROVE  NetInv'
<1> DEFINE q == Ends(w.ctl[c], result)
<1>1. q.socketId = w.ctl[c].socketId /\ q.tag = w.ctl[c].tag BY EndsSame DEF Sane
<1>2. Waits(q) /\ (Watched(q) => Watched(ctl[c]) /\ ~Ended) OBVIOUS
<1>3. q = Ends(w.ctl[c], result) OBVIOUS
<1> HIDE DEF q
<1> QED BY <1>1, <1>2, <1>3, MachineKeeps

LEMMA TriedKeeps ==
    ASSUME NetInv, NEW c \in Ctrl, NEW state, NEW v, Sane(v), v.ok \in BOOLEAN,
           v.ctl[c].wait = "ON_LINE",
           v.ok => Fresh(v, c) \/ v.ctl[c].state = "WAIT_DNS",
           ~v.ok => v.ctl[c].socketId = -1,
           Machine(c, state, v, IF v.ok THEN 1 ELSE -1)
    PROVE  NetInv'
<1> DEFINE result == IF v.ok THEN 1 ELSE -1
           q == Ends(v.ctl[c], result)
<1>1. Conn(v.ctl[c]) BY DEF Sane
<1>2. result \in {-1, 0, 1} /\ (result = 1 => v.ok) /\ (result # 1 => ~v.ok) OBVIOUS
<1>3. Machine(c, state, v, result) OBVIOUS
<1> HIDE DEF result
<1>4. /\ q.socketId = v.ctl[c].socketId
      /\ q.state = v.ctl[c].state
      /\ q.wait = v.ctl[c].wait \/ q.wait = "NONE"
    BY <1>1, <1>2, EndsSame
<1>5. q = Ends(v.ctl[c], result) OBVIOUS
<1> HIDE DEF q
<1>6. Waits(q) BY <1>4 DEF Waits
<1>7. Watched(q) => Fresh(v, c) BY <1>2, <1>4 DEF Watched
<1> QED BY <1>2, <1>3, <1>5, <1>6, <1>7, MachineKeeps

(* A handler that changes nothing, in a state where nothing is watched.    *)
LEMMA QuietKeeps ==
    ASSUME NetInv, NEW c \in Ctrl,
           NEW state \in {"LINK_OFF", "OFF_LINE", "WAIT_DNS", "DISCONNECTING"},
           NEW result \in {-1, 0, 1}, Machine(c, state, World, result)
    PROVE  NetInv'
<1>1. Conn(ctl[c]) BY Now
<1>2. Sane(World) /\ World.ctl = ctl /\ World.drv = prvlwip BY Now DEF NetInv
<1>3. ctl[c].state = state BY DEF Machine
<1> DEFINE q == Ends(ctl[c], result)
<1>4. q.state = state BY <1>1, <1>3, EndsSame
<1> HIDE DEF q
<1>5. Waits(q) /\ ~Watched(q) BY <1>4 DEF Waits, Watched
<1> QED BY <1>2, <1>5, IdlyKeeps DEF q

LEMMA LinkOffKeeps == ASSUME NetInv, NEW c \in Ctrl, LinkOff(c) PROVE NetInv'
<1> DEFINE r == [ctl[c] EXCEPT !.state = "OFF_LINE"]
           up == Moved(c, "OFF_LINE")
           v == Prepare(up, c)
<1>1. /\ Conn(ctl[c])
      /\ Sane(World) /\ World.ctl = ctl /\ World.drv = prvlwip /\ World.ok = TRUE
    BY Now DEF NetInv
<1>2. /\ Conn(r) /\ r.socketId = ctl[c].socketId /\ r.tag = ctl[c].tag
      /\ r.state = "OFF_LINE" /\ r.wait = ctl[c].wait
    BY <1>1 DEF Conn, ConnField
<1>3. up = With(World, c, r) BY DEF Moved
<1>4. \/ ctl[c].wait = "ON_LINE" /\ Machine(c, "LINK_OFF", v, IF v.ok THEN 1 ELSE -1)
      \/ Machine(c, "LINK_OFF", up, IF ctl[c].wait = "LINK_UP" THEN 0 ELSE 1)
      \/ Machine(c, "LINK_OFF", World, 1)
    BY DEF LinkOff
<1> HIDE DEF r, up
<1>5. CASE ctl[c].wait = "ON_LINE" /\ Machine(c, "LINK_OFF", v, IF v.ok THEN 1 ELSE -1)
    <2>1. Sane(up) /\ up.ctl[c] = r /\ up.ok = TRUE BY <1>1, <1>2, <1>3, AlsoSane
    <2>2. /\ Sane(v) /\ v.ctl[c].wait = "ON_LINE"
          /\ v.ok => Fresh(v, c) \/ v.ctl[c].state = "WAIT_DNS"
          /\ ~v.ok => v.ctl[c].socketId = -1
          /\ v.ok \in BOOLEAN
        BY <2>1, <1>2, <1>5, PrepareTried
    <2> HIDE DEF v
    <2> QED BY <2>2, <1>5, TriedKeeps
<1>6. CASE Machine(c, "LINK_OFF", up, IF ctl[c].wait = "LINK_UP" THEN 0 ELSE 1)
    <2> DEFINE result == IF ctl[c].wait = "LINK_UP" THEN 0 ELSE 1
    <2>1. result \in {-1, 0, 1} OBVIOUS
    <2>2. Machine(c, "LINK_OFF", up, result) BY <1>6
    <2> HIDE DEF result
    <2>3. Sane(up) /\ up.ctl[c] = r /\ up.drv = prvlwip BY <1>1, <1>2, <1>3, AlsoSane
    <2>4. Ends(r, result).state = "OFF_LINE" BY <1>2, <2>1, EndsSame
    <2>5. Waits(Ends(r, result)) /\ ~Watched(Ends(r, result)) BY <2>4 DEF Waits, Watched
    <2> QED BY <1>2, <2>1, <2>2, <2>3, <2>5, IdlyKeeps
<1> QED BY <1>4, <1>5, <1>6, QuietKeeps

LEMMA OffLineKeeps == ASSUME NetInv, NEW c \in Ctrl, OffLine(c) PROVE NetInv'
BY QuietKeeps DEF OffLine

LEMMA WaitDnsKeeps == ASSUME NetInv, NEW c \in Ctrl, WaitDns(c) PROVE NetInv'
<1> DEFINE r == [ctl[c] EXCEPT !.nums = callback.ips, !.cnt = 0]
           w == With(World, c, r)
           v == Dialled(w, c)
           f == [w.ctl[c] EXCEPT !.state = "OFF_LINE"]
<1>1. /\ Conn(ctl[c])
      /\ Sane(World) /\ World.ctl = ctl /\ World.drv = prvlwip
    BY Now DEF NetInv
<1>2. /\ Conn(r) /\ r.socketId = ctl[c].socketId /\ r.tag = ctl[c].tag /\ r.wait = ctl[c].wait
    BY <1>1 DEF Conn, ConnField
<1>3. \/ /\ ctl[c].wait = "ON_LINE"
         /\ \/ Machine(c, "WAIT_DNS", v, IF v.ok THEN 1 ELSE -1)
            \/ Machine(c, "WAIT_DNS", With(w, c, f), 0)
      \/ Machine(c, "WAIT_DNS", World, -1)
      \/ Machine(c, "WAIT_DNS", World, 1)
    BY DEF WaitDns, GivenUp
<1> HIDE DEF r
<1>4. Sane(w) /\ w.ctl[c] = r /\ w.drv = prvlwip BY <1>1, <1>2, AlsoSane
<1>5. CASE ctl[c].wait = "ON_LINE" /\ Machine(c, "WAIT_DNS", v, IF v.ok THEN 1 ELSE -1)
    <2> HIDE DEF w
    <2>1. Tried(w, v, c) BY <1>4, DialledTried
    <2> HIDE DEF v
    <2>2. v.ctl[c].wait = "ON_LINE" BY <2>1, <1>2, <1>4, <1>5 DEF Tried
    <2> QED BY <2>1, <2>2, <1>5, TriedKeeps DEF Tried
<1>6. CASE Machine(c, "WAIT_DNS", With(w, c, f), 0)
    <2> HIDE DEF w
    <2>1. Conn(f) /\ f.socketId = ctl[c].socketId /\ f.tag = ctl[c].tag /\ f.state = "OFF_LINE"
        BY <1>2, <1>4 DEF Conn, ConnField
    <2>2. f.socketId = w.ctl[c].socketId /\ f.tag = w.ctl[c].tag BY <1>2, <1>4, <2>1
    <2> HIDE DEF f
    <2> DEFINE x == With(w, c, f)
    <2>3. Sane(x) /\ x.ctl[c] = f /\ x.drv = prvlwip BY <1>4, <2>1, <2>2, AlsoSane
    <2>4. Machine(c, "WAIT_DNS", x, 0) BY <1>6
    <2> HIDE DEF x
    <2>5. Ends(f, 0).state = "OFF_LINE" BY <2>1, EndsSame
    <2>6. Waits(Ends(f, 0)) /\ ~Watched(Ends(f, 0)) BY <2>5 DEF Waits, Watched
    <2> QED BY <2>1, <2>3, <2>4, <2>6, IdlyKeeps
<1> QED BY <1>3, <1>5, <1>6, QuietKeeps

LEMMA ConnectingKeeps == ASSUME NetInv, NEW c \in Ctrl, Connecting(c) PROVE NetInv'
<1> DEFINE r == [ctl[c] EXCEPT !.cnt = @ + 1]
           w == With(World, c, r)
           v == Dialled(w, c)
           o == [ctl[c] EXCEPT !.state = "ONLINE"]
           up == With(World, c, o)
<1>1. /\ Conn(ctl[c]) /\ Waits(ctl[c])
      /\ Sane(World) /\ World.ctl = ctl /\ World.drv = prvlwip
    BY Now DEF NetInv
<1>2. /\ Conn(r) /\ r.socketId = ctl[c].socketId /\ r.tag = ctl[c].tag /\ r.wait = ctl[c].wait
      /\ r.state = ctl[c].state
    BY <1>1 DEF Conn, ConnField
<1>3. /\ Conn(o) /\ o.socketId = ctl[c].socketId /\ o.tag = ctl[c].tag
      /\ o.needClose = ctl[c].needClose
    BY <1>1 DEF Conn, ConnField
<1>4. \/ ctl[c].wait = "ON_LINE" /\ Machine(c, "CONNECTING", v, IF v.ok THEN 1 ELSE -1)
      \/ Machine(c, "CONNECTING", w, -1)
      \/ Machine(c, "CONNECTING", World, -1)
      \/ ~GivenUp(c) /\ ~Ended /\ Machine(c, "CONNECTING", up, 0)
      \/ ~Ended /\ Machine(c, "CONNECTING", World, 1)
    <2>1. \/ ~GivenUp(c) /\ Machine(c, "CONNECTING", v, IF v.ok THEN 1 ELSE -1)
          \/ Machine(c, "CONNECTING", w, -1)
          \/ Machine(c, "CONNECTING", World, -1)
          \/ /\ ~GivenUp(c) /\ callback.ev = "CONNECT_OK"
             /\ Machine(c, "CONNECTING", up, 0)
          \/ ~Ended /\ Machine(c, "CONNECTING", World, 1)
        BY Zenon DEF Connecting, Moved
    <2>2. callback.ev = "CONNECT_OK" => ~Ended BY DEF Ended
    <2>3. ~GivenUp(c) => ctl[c].wait = "ON_LINE" BY DEF GivenUp
    <2> QED BY Zenon, <2>1, <2>2, <2>3
<1>5. ctl[c].state = "CONNECTING" BY <1>4 DEF Machine
<1> HIDE DEF r, o
<1>6. Sane(w) /\ w.ctl[c] = r /\ w.drv = prvlwip BY <1>1, <1>2, AlsoSane
<1>7. Sane(up) /\ up.ctl[c] = o /\ up.drv = prvlwip BY <1>1, <1>3, AlsoSane
<1> HIDE DEF w, up
<1>8. CASE ctl[c].wait = "ON_LINE" /\ Machine(c, "CONNECTING", v, IF v.ok THEN 1 ELSE -1)
    <2>1. Tried(w, v, c) BY <1>6, DialledTried
    <2> HIDE DEF v
    <2>2. v.ctl[c].wait = "ON_LINE" BY <2>1, <1>2, <1>6, <1>8 DEF Tried
    <2> QED BY <2>1, <2>2, <1>8, TriedKeeps DEF Tried
<1>9. ASSUME NEW x, Sane(x), x.drv = prvlwip, Machine(c, "CONNECTING", x, -1),
             x.ctl[c].socketId = ctl[c].socketId, x.ctl[c].tag = ctl[c].tag,
             x.ctl[c].state = "CONNECTING"
      PROVE  NetInv'
    <2> DEFINE q == Ends(x.ctl[c], -1)
    <2>1. q.wait = "NONE" /\ q.state = "CONNECTING" BY <1>9, EndsSame DEF Sane
    <2> HIDE DEF q
    <2>2. Waits(q) /\ ~Watched(q) BY <2>1 DEF Waits, Watched
    <2> QED BY <1>9, <2>2, IdlyKeeps DEF q
<1>10. CASE Machine(c, "CONNECTING", w, -1) BY <1>2, <1>5, <1>6, <1>9, <1>10
<1>11. CASE Machine(c, "CONNECTING", World, -1) BY <1>1, <1>5, <1>9, <1>11
<1>12. CASE ~GivenUp(c) /\ ~Ended /\ Machine(c, "CONNECTING", up, 0)
    <2> DEFINE q == Ends(o, 0)
    <2>1. q.wait = "NONE" /\ q.socketId = ctl[c].socketId /\ q.needClose = ctl[c].needClose
        BY <1>3, EndsSame
    <2> HIDE DEF q
    <2>2. Waits(q) /\ (Watched(q) => Watched(ctl[c]))
        BY <2>1, <1>5, <1>12 DEF Waits, Watched, GivenUp
    <2> QED BY <1>3, <1>7, <1>12, <2>2, IdlyKeeps DEF q
<1>13. CASE ~Ended /\ Machine(c, "CONNECTING", World, 1)
    <2>1. Ends(ctl[c], 1) = ctl[c] BY DEF Ends
    <2> QED BY <1>1, <1>13, <2>1, IdlyKeeps
<1> QED BY <1>4, <1>8, <1>10, <1>11, <1>12, <1>13

LEMMA OnLineKeeps == ASSUME NetInv, NEW c \in Ctrl, OnLine(c) PROVE NetInv'
<1> DEFINE dead == [ctl[c] EXCEPT !.needClose = TRUE]
           fresh == [ctl[c] EXCEPT !.newRx = TRUE]
           w == With(World, c, dead)
           v == With(World, c, fresh)
           result == IF ctl[c].wait = "TX_OK" THEN 1 ELSE 0
<1>1. /\ Conn(ctl[c]) /\ Waits(ctl[c])
      /\ Sane(World) /\ World.ctl = ctl /\ World.drv = prvlwip
    BY Now DEF NetInv
<1>2. /\ Conn(dead) /\ dead.socketId = ctl[c].socketId /\ dead.tag = ctl[c].tag
      /\ dead.needClose = TRUE
    BY <1>1 DEF Conn, ConnField
<1>3. /\ Conn(fresh) /\ fresh.socketId = ctl[c].socketId /\ fresh.tag = ctl[c].tag
      /\ fresh.needClose = ctl[c].needClose /\ fresh.state = ctl[c].state
      /\ fresh.wait = ctl[c].wait
    BY <1>1 DEF Conn, ConnField
<1>4. \/ /\ ctl[c].needClose \/ ctl[c].wait = "OFF_LINE"
         /\ Machine(c, "ONLINE", World, -1)
      \/ Machine(c, "ONLINE", w, -1)
      \/ ~Ended /\ \E res \in {0, 1} : Machine(c, "ONLINE", World, res)
      \/ ~Ended /\ Machine(c, "ONLINE", v, result)
    BY DEF OnLine, Ended
<1>5. ctl[c].state = "ONLINE" BY <1>4 DEF Machine
<1> HIDE DEF dead, fresh
<1>6. Sane(w) /\ w.ctl[c] = dead /\ w.drv = prvlwip BY <1>1, <1>2, AlsoSane
<1>7. Sane(v) /\ v.ctl[c] = fresh /\ v.drv = prvlwip BY <1>1, <1>3, AlsoSane
<1> HIDE DEF w, v
<1>8. CASE /\ ctl[c].needClose \/ ctl[c].wait = "OFF_LINE"
           /\ Machine(c, "ONLINE", World, -1)
    <2> DEFINE q == Ends(ctl[c], -1)
    <2>1. q.wait = "NONE" /\ q.needClose = ctl[c].needClose BY <1>1, EndsSame
    <2> HIDE DEF q
    <2>2. Waits(q) /\ ~Watched(q) BY <2>1, <1>1, <1>5, <1>8 DEF Waits, Watched
    <2> QED BY <1>1, <1>8, <2>2, IdlyKeeps DEF q
<1>9. CASE Machine(c, "ONLINE", w, -1)
    <2> DEFINE q == Ends(dead, -1)
    <2>1. q.wait = "NONE" /\ q.needClose = TRUE BY <1>2, EndsSame
    <2> HIDE DEF q
    <2>2. Waits(q) /\ ~Watched(q) BY <2>1 DEF Waits, Watched
    <2> QED BY <1>2, <1>6, <1>9, <2>2, IdlyKeeps DEF q
<1>10. ASSUME ~Ended, NEW res \in {0, 1}, NEW x, Sane(x), x.drv = prvlwip,
              Machine(c, "ONLINE", x, res),
              NEW r, x.ctl[c] = r, Conn(r), r.socketId = ctl[c].socketId, r.tag = ctl[c].tag,
              r.needClose = ctl[c].needClose, r.state = ctl[c].state, r.wait = ctl[c].wait
       PROVE  NetInv'
    <2> DEFINE q == Ends(r, res)
    <2>1. /\ q.socketId = r.socketId /\ q.state = r.state /\ q.needClose = r.needClose
          /\ q.wait = r.wait \/ q.wait = "NONE"
        BY <1>10, EndsSame
    <2> HIDE DEF q
    <2>2. Waits(q) /\ (Watched(q) => Watched(ctl[c]))
        BY <2>1, <1>1, <1>5, <1>10 DEF Waits, Watched
    <2>3. res \in {-1, 0, 1} OBVIOUS
    <2>4. Waits(Ends(x.ctl[c], res)) /\ (Watched(Ends(x.ctl[c], res)) => Watched(ctl[c]) /\ ~Ended)
        BY <1>10, <2>2 DEF q
    <2> QED BY <1>10, <2>3, <2>4, IdlyKeeps
<1>11. CASE ~Ended /\ \E res \in {0, 1} : Machine(c, "ONLINE", World, res)
    BY <1>1, <1>10, <1>11
<1>12. CASE ~Ended /\ Machine(c, "ONLINE", v, result)
    <2>1. result \in {0, 1} OBVIOUS
    <2> HIDE DEF result
    <2> QED BY <1>3, <1>7, <1>10, <1>12, <2>1
<1> QED BY <1>4, <1>8, <1>9, <1>11, <1>12

LEMMA DisconnectingKeeps == ASSUME NetInv, NEW c \in Ctrl, Disconnecting(c) PROVE NetInv'
<1> DEFINE w == ForceClose(World, c)
           r == [w.ctl[c] EXCEPT !.state = "OFF_LINE"]
           off == With(w, c, r)
           result == IF Ended THEN 0 ELSE -1
<1>1. Sane(World) BY DEF NetInv
<1>2. Sane(w) /\ w.ctl[c].socketId = -1 BY <1>1, ForceCloseSane
<1>3. \/ Machine(c, "DISCONNECTING", off, result)
      \/ Machine(c, "DISCONNECTING", World, -1)
      \/ Machine(c, "DISCONNECTING", World, 1)
    BY DEF Disconnecting
<1> HIDE DEF w
<1>4. CASE Machine(c, "DISCONNECTING", off, result)
    <2>1. /\ Conn(r) /\ r.socketId = w.ctl[c].socketId /\ r.tag = w.ctl[c].tag
          /\ r.state = "OFF_LINE"
        BY <1>2 DEF Sane, Conn, ConnField
    <2> HIDE DEF r
    <2>2. Sane(off) /\ off.ctl[c] = r BY <2>1, <1>2, AlsoSane
    <2>3. result \in {-1, 0, 1} OBVIOUS
    <2> HIDE DEF off, result
    <2> DEFINE q == Ends(r, result)
    <2>4. q.state = "OFF_LINE" BY <2>1, <2>3, EndsSame
    <2>5. q = Ends(off.ctl[c], result) BY <2>2
    <2> HIDE DEF q
    <2>6. Waits(q) /\ ~Watched(q) BY <2>4 DEF Waits, Watched
    <2> QED BY <1>4, <2>2, <2>3, <2>5, <2>6, MachineKeeps
<1> QED BY <1>3, <1>4, QuietKeeps

LEMMA CheckTagKeeps == ASSUME NetInv, NEW c \in Ctrl, CheckTag(c) PROVE NetInv'
<1>1. /\ Conn(ctl[c]) /\ DOMAIN ctl = Ctrl /\ Waits(ctl[c])
      /\ Kept(prvlwip, ctl[c].socketId, ctl[c].tag, lost, half)
    BY Now
<1>2. /\ Told(c) /\ UNCHANGED <<prvlwip, lost, ctl, half>>
      /\ callback' = IF Meant(c) THEN [callback EXCEPT !.passed = TRUE] ELSE None
    BY DEF CheckTag
<1>3. callback \in Callback /\ callback # None /\ half' \in Half \union {None}
    BY <1>2 DEF NetInv, Told
<1>4. callback' \in Callback \union {None} BY <1>2, <1>3 DEF Callback
<1>5. Dying(c, ctl[c], callback) => Dying(c, ctl[c], callback')
    <2> SUFFICES ASSUME Dying(c, ctl[c], callback) PROVE Dying(c, ctl[c], callback') OBVIOUS
    <2>1. Meant(c) BY DEF Dying, Meant
    <2>2. callback' \in Callback /\ callback' # None /\ callback'.to = callback.to
          /\ callback'.ev = callback.ev /\ callback'.tag = callback.tag
        BY <2>1, <1>2, <1>3, SocketAssumption DEF Callback
    <2> QED BY <2>2 DEF Dying
<1>6. Busy(c) \/ Guard(c, prvlwip, ctl[c], callback') BY <1>5 DEF NetInv, Guard
<1>7. half' # None /\ half'.step # "end" => half'.slot \in Slot BY <1>2 DEF NetInv
<1>8. (half' # None /\ half'.ctrl = c) \/ Guard(c, prvlwip', ctl'[c], callback')
    BY <1>2, <1>6 DEF Busy
<1> QED BY <1>1, <1>2, <1>3, <1>4, <1>7, <1>8, Keeping

LEMMA HandleKeeps == ASSUME NetInv, NEW c \in Ctrl, Handle(c) PROVE NetInv'
BY CheckTagKeeps, LinkOffKeeps, OffLineKeeps, WaitDnsKeeps, ConnectingKeeps, OnLineKeeps,
   DisconnectingKeeps
   DEF Handle

-----------------------------------------------------------------------------
(* The tcpip thread.                                                       *)

(* Of the sockets, e differs from d in what the pcb and remote_close of k  *)
(* are.                                                                    *)
Touches(d, e, k) ==
    /\ DOMAIN e = Field
    /\ e.used = d.used /\ e.closing = d.closing /\ e.tag = d.tag /\ e.param = d.param
    /\ e.socketTag = d.socketTag /\ DOMAIN e.pcb = Slot
    /\ \A j \in Slot \ {k} : /\ e.pcb[j] = d.pcb[j]
                             /\ j \in e.remoteClose <=> j \in d.remoteClose

LEMMA Watching ==
    ASSUME NetInv, NEW c \in Ctrl, ~Busy(c), Watched(ctl[c])
    PROVE  LET s == ctl[c].socketId IN
           /\ CheckSocket(prvlwip, s, ctl[c].tag) /\ s \in Slot
           /\ prvlwip.param[s] = c
           /\ Lives(prvlwip, s) \/ Dying(c, ctl[c], callback)
           /\ ~CloseSent(prvlwip, s)
<1>1. Guard(c, prvlwip, ctl[c], callback) BY DEF NetInv
<1>2. Kept(prvlwip, ctl[c].socketId, ctl[c].tag, lost, half) BY Now
<1>3. half = None
    <2> SUFFICES ASSUME half # None PROVE FALSE OBVIOUS
    <2>1. half.ctrl \in Ctrl BY DEF NetInv, Half
    <2>2. half.ctrl = c BY <2>1, OnlyOne
    <2> QED BY <2>2 DEF Busy
<1>4. ~Ending(half) BY <1>3 DEF Ending
<1> QED BY <1>1, <1>2, <1>4 DEF Guard, CheckSocket, Kept, Owned, Good, Driver

LEMMA ThreadKeeps ==
    ASSUME NetInv, NEW c \in Ctrl, NEW k, Idle, UNCHANGED <<ctl, half>>,
           callback' \in Callback \union {None},
           Good(prvlwip'), Touches(prvlwip, prvlwip', k), lost \subseteq lost',
           \A j : CloseSent(prvlwip', j) => CloseSent(prvlwip, j),
           \A j \in prvlwip.used :
               Leaves(prvlwip, lost, half, j) => Leaves(prvlwip', lost', half, j),
           \A j \in Slot \ {k} : ToCreate(prvlwip, j) => ToCreate(prvlwip', j),
           k \in prvlwip.used /\ Clear(prvlwip', k) => k \in lost' \/ ToCreate(prvlwip', k),
           CheckSocket(prvlwip, k, ctl[c].tag) /\ prvlwip.param[k] = c /\ Lives(prvlwip, k) =>
               Lives(prvlwip', k) \/ Dying(c, ctl[c], callback')
    PROVE  NetInv'
<1> DEFINE d == prvlwip
           e == prvlwip'
           s == ctl[c].socketId
           t == ctl[c].tag
<1>1. /\ Conn(ctl[c]) /\ DOMAIN ctl = Ctrl /\ Waits(ctl[c])
      /\ Kept(d, s, t, lost, half)
    BY Now
<1>2. /\ e.used = d.used /\ e.closing = d.closing /\ e.tag = d.tag /\ e.param = d.param
    BY DEF Touches
<1>3. \A j \in Slot \ {k} : /\ Clear(e, j) <=> Clear(d, j)
                            /\ Lives(d, j) => Lives(e, j)
    BY DEF Touches, Clear, Lives
<1>4. d.used \subseteq Slot BY <1>1 DEF Kept, Good, Driver
<1> HIDE DEF d, e
<1>5. Tended(e, lost', half)
    <2>1. \A j \in e.closing : j \in e.used \/ j \in lost'
        BY <1>1, <1>2 DEF Kept, Tended
    <2>2. ASSUME NEW j \in e.used, Clear(e, j) PROVE j \in lost' \/ ToCreate(e, j)
        <3>1. CASE j = k BY <3>1, <2>2, <1>2 DEF d, e
        <3>2. CASE j # k
            <4>1. j \in Slot \ {k} /\ Clear(d, j) BY <3>2, <2>2, <1>2, <1>3, <1>4
            <4>2. j \in lost \/ ToCreate(d, j) BY <4>1, <2>2, <1>1, <1>2 DEF Kept, Tended
            <4> QED BY <4>1, <4>2 DEF d, e
        <3> QED BY <3>1, <3>2
    <2>3. \A j \in e.used \intersect e.closing : Leaves(e, lost', half, j)
        BY <1>1, <1>2 DEF Kept, Tended, d, e
    <2> QED BY <2>1, <2>2, <2>3 DEF Tended
<1>6. Owned(e, s, t, lost', half)
    <2>1. \A j \in e.used : j = s \/ Leaves(e, lost', half, j)
        BY <1>1, <1>2 DEF Kept, Owned, d, e
    <2>2. s \in e.used \ e.closing /\ CloseSent(e, s) => Ending(half)
        BY <1>1, <1>2 DEF Kept, Owned, d, e
    <2> QED BY <2>1, <2>2, <1>1, <1>2 DEF Kept, Owned
<1>7. Kept(e, s, t, lost', half) BY <1>5, <1>6 DEF Kept, e
<1>8. Busy(c) \/ Guard(c, e, ctl[c], callback')
    <2> SUFFICES ASSUME ~Busy(c), Watched(ctl[c])
                 PROVE  /\ CheckSocket(e, s, t) /\ e.param[s] = c
                        /\ Lives(e, s) \/ Dying(c, ctl[c], callback')
        BY DEF Guard
    <2>1. CheckSocket(d, s, t) /\ d.param[s] = c /\ Lives(d, s) /\ s \in Slot
        BY Watching DEF Idle, Dying, d
    <2>2. CheckSocket(e, s, t) /\ e.param[s] = c BY <2>1, <1>2 DEF CheckSocket
    <2>3. Lives(e, s) \/ Dying(c, ctl[c], callback')
        <3>1. CASE s = k BY <3>1, <2>1 DEF d, e
        <3>2. CASE s # k BY <3>2, <2>1, <1>3
        <3> QED BY <3>1, <3>2
    <2> QED BY <2>2, <2>3
<1>9. half' \in Half \union {None} /\ (half' # None /\ half'.step # "end" => half'.slot \in Slot)
    BY DEF NetInv
<1>10. (half' # None /\ half'.ctrl = c) \/ Guard(c, e, ctl'[c], callback')
    BY <1>8 DEF Busy
<1> QED BY <1>1, <1>7, <1>9, <1>10, Keeping DEF e

LEMMA TellTyped ==
    ASSUME NEW d, Good(d), NEW k \in Slot, NEW ev \in Event, Tell(ev, d, k)
    PROVE  callback' \in Callback \union {None}
<1>1. d.param[k] \in Ctrl \union {None} /\ d.tag[k] \in Nat BY DEF Good, Driver, Owner
<1> QED BY <1>1 DEF Tell, Callback

LEMMA TellDies ==
    ASSUME NEW d, Good(d), NEW k \in Slot, NEW ev \in {"ERROR", "REMOTE_CLOSE", "CLOSE_OK"},
           Tell(ev, d, k), NEW c \in Ctrl, d.param[k] = c, NEW r, d.tag[k] = r.tag
    PROVE  Dying(c, r, callback')
<1>1. d.tag[k] \in Nat BY DEF Good, Driver
<1>2. callback' = [ev |-> ev, to |-> {c}, tag |-> r.tag, ips |-> 0, passed |-> FALSE]
    BY SocketAssumption DEF Tell
<1>3. callback' \in Callback BY <1>1, <1>2 DEF Callback, Event
<1> QED BY <1>2, <1>3, SocketAssumption DEF Dying

(* A slot that is still to be created has no pcb, and was not closed.      *)
LEMMA NotYet ==
    ASSUME NEW d, Good(d), NEW k, ToCreate(d, k)
    PROVE  Clear(d, k)
BY DEF Good, CreatesOnce, ToCreate, CreateAt

(* The first message of the mailbox.                                       *)
LEMMA First ==
    ASSUME NEW d, Good(d), d.mailbox # << >>, Head(d.mailbox).op # "dns"
    PROVE  LET m == Head(d.mailbox) IN
           /\ m.slot \in Slot
           /\ m.op \notin CloseOp => Meets(d, m)
           /\ m.op = "create" => Clear(d, m.slot)
<1> DEFINE m == Head(d.mailbox)
<1>1. 1 \in Pos(d) /\ d.mailbox[1] = m /\ m \in Msg
    <2>1. d.mailbox \in Seq(Msg) BY DEF Good, Driver
    <2> QED BY <2>1 DEF Pos
<1> HIDE DEF m
<1>2. m.op # "dns" BY DEF m
<1>3. m.slot \in Slot BY <1>1, <1>2, MsgField
<1>4. m.op \notin CloseOp => Meets(d, m) BY <1>1, <1>2 DEF Good, Addressed, Harmless
<1>5. m.op = "create" => Clear(d, m.slot) BY <1>1 DEF Good, CreatesOnce
<1> QED BY <1>3, <1>4, <1>5 DEF m

(* A message that closes nothing is served.                                *)
LEMMA ServedKeeps ==
    ASSUME NetInv, NEW c \in Ctrl, NEW k, Idle, UNCHANGED <<ctl, half, lost>>,
           callback' \in Callback \union {None},
           prvlwip.mailbox # << >>, prvlwip'.mailbox = Tail(prvlwip.mailbox),
           Head(prvlwip.mailbox).op \notin CloseOp,
           Head(prvlwip.mailbox).op = "create" =>
               Head(prvlwip.mailbox).slot = k /\ ~Clear(prvlwip', k),
           Touches(prvlwip, prvlwip', k),
           Head(prvlwip.mailbox).op # "create" => (Clear(prvlwip', k) <=> Clear(prvlwip, k)),
           CheckSocket(prvlwip, k, ctl[c].tag) /\ prvlwip.param[k] = c /\ Lives(prvlwip, k) =>
               \/ k \notin prvlwip'.remoteClose /\ prvlwip'.pcb[k] # "none"
               \/ Head(prvlwip.mailbox).op # "create" /\ ToCreate(prvlwip, k)
               \/ Dying(c, ctl[c], callback')
    PROVE  NetInv'
<1> DEFINE d == prvlwip
           e == prvlwip'
           m == Head(d.mailbox)
<1>1. Good(d) /\ Kept(d, ctl[c].socketId, ctl[c].tag, lost, half) BY Now
<1>2. Took(d, e) BY DEF Touches, Took, Clear
<1>3. /\ Good(e)
      /\ \A j : CloseSent(e, j) => CloseSent(d, j)
      /\ \A j : CloseSent(d, j) => CloseSent(e, j)
      /\ \A j : ToCreate(d, j) => ToCreate(e, j) \/ (m.op = "create" /\ m.slot = j)
    BY <1>1, <1>2, TookGood
<1>4. \A j \in d.used : Leaves(d, lost, half, j) => Leaves(e, lost', half, j)
    BY <1>3 DEF Leaves
<1>5. \A j \in Slot \ {k} : ToCreate(d, j) => ToCreate(e, j) BY <1>3
<1>6. k \in d.used /\ Clear(e, k) => k \in lost' \/ ToCreate(e, k)
    BY <1>1, <1>3 DEF Kept, Tended
<1>7. CheckSocket(d, k, ctl[c].tag) /\ d.param[k] = c /\ Lives(d, k) =>
          Lives(e, k) \/ Dying(c, ctl[c], callback')
    BY <1>3 DEF Lives
<1> QED BY <1>3, <1>4, <1>5, <1>6, <1>7, ThreadKeeps

(* The fields of a socket table from which a message is taken.             *)
LEMMA TakenIs ==
    ASSUME Good(prvlwip), NEW k \in Slot, NEW p
    PROVE  LET e == SetPcb(Taken, k, p)
               f == Dead(Taken, k)
               d == prvlwip
           IN /\ Touches(d, Taken, k) /\ Touches(d, e, k) /\ Touches(d, f, k)
              /\ Taken.mailbox = Tail(d.mailbox)
              /\ e.mailbox = Tail(d.mailbox) /\ f.mailbox = Tail(d.mailbox)
              /\ Taken.pcb = d.pcb /\ Taken.remoteClose = d.remoteClose
              /\ e.pcb[k] = p /\ e.remoteClose = d.remoteClose
              /\ f.pcb = d.pcb /\ k \in f.remoteClose
BY DEF Good, Driver, Field, Taken, SetPcb, Dead, Touches

LEMMA CreateNowKeeps ==
    ASSUME NetInv, CreateNow, UNCHANGED <<ctl, half>>, NEW c \in Ctrl PROVE NetInv'
<1> DEFINE d == prvlwip
           k == Subject
<1>1. Good(d) BY Now
<1>2. /\ Idle /\ d.mailbox # << >> /\ Head(d.mailbox).op = "create" /\ k = Head(d.mailbox).slot
      /\ UNCHANGED lost
    BY DEF CreateNow, Receive, Subject
<1>3. k \in Slot /\ Clear(d, k) BY <1>1, <1>2, First
<1> HIDE DEF k
<1>4. CASE prvlwip' = SetPcb(Taken, k, "new") /\ UNCHANGED callback
    <2>1. /\ prvlwip'.mailbox = Tail(d.mailbox) /\ Touches(d, prvlwip', k)
          /\ prvlwip'.pcb[k] = "new" /\ prvlwip'.remoteClose = d.remoteClose
        BY <1>1, <1>3, <1>4, TakenIs
    <2>2. ~Clear(prvlwip', k) BY <2>1 DEF Clear
    <2>3. k \notin prvlwip'.remoteClose /\ prvlwip'.pcb[k] # "none"
        BY <2>1, <1>3 DEF Clear
    <2>4. callback' \in Callback \union {None} BY <1>4 DEF NetInv
    <2> QED BY <1>2, <2>1, <2>2, <2>3, <2>4, ServedKeeps DEF CloseOp
<1>5. CASE prvlwip' = Dead(Taken, k) /\ Tell("ERROR", d, k)
    <2>1. /\ prvlwip'.mailbox = Tail(d.mailbox) /\ Touches(d, prvlwip', k)
          /\ k \in prvlwip'.remoteClose
        BY <1>1, <1>3, <1>5, TakenIs
    <2>2. ~Clear(prvlwip', k) BY <2>1 DEF Clear
    <2>3. callback' \in Callback \union {None} BY <1>1, <1>3, <1>5, TellTyped DEF Event
    <2>4. CheckSocket(d, k, ctl[c].tag) /\ d.param[k] = c => Dying(c, ctl[c], callback')
        BY <1>1, <1>3, <1>5, TellDies DEF CheckSocket
    <2> QED BY <1>2, <2>1, <2>2, <2>3, <2>4, ServedKeeps DEF CloseOp
<1> QED BY <1>4, <1>5 DEF CreateNow, k

LEMMA ConnectNowKeeps ==
    ASSUME NetInv, ConnectNow, UNCHANGED <<ctl, half>>, NEW c \in Ctrl PROVE NetInv'
<1> DEFINE d == prvlwip
           k == Subject
<1>1. Good(d) BY Now
<1>2. /\ Idle /\ d.mailbox # << >> /\ Head(d.mailbox).op = "connect" /\ k = Head(d.mailbox).slot
      /\ UNCHANGED lost
    BY DEF ConnectNow, Receive, Subject
<1>3. k \in Slot BY <1>1, <1>2, First
<1> HIDE DEF k
<1>4. CASE d.pcb[k] = "none" /\ prvlwip' = Taken /\ Tell("ERROR", d, k)
    <2>1. /\ prvlwip'.mailbox = Tail(d.mailbox) /\ Touches(d, prvlwip', k)
          /\ Clear(prvlwip', k) <=> Clear(d, k)
        BY <1>1, <1>3, <1>4, TakenIs DEF Clear
    <2>2. callback' \in Callback \union {None} BY <1>1, <1>3, <1>4, TellTyped DEF Event
    <2>3. CheckSocket(d, k, ctl[c].tag) /\ d.param[k] = c => Dying(c, ctl[c], callback')
        BY <1>1, <1>3, <1>4, TellDies DEF CheckSocket
    <2> QED BY <1>2, <2>1, <2>2, <2>3, ServedKeeps DEF CloseOp
<1>5. CASE d.pcb[k] # "none" /\ prvlwip' = Dead(Taken, k) /\ Tell("ERROR", d, k)
    <2>1. /\ prvlwip'.mailbox = Tail(d.mailbox) /\ Touches(d, prvlwip', k)
          /\ k \in prvlwip'.remoteClose
        BY <1>1, <1>3, <1>5, TakenIs
    <2>2. Clear(prvlwip', k) <=> Clear(d, k) BY <2>1, <1>5 DEF Clear
    <2>3. callback' \in Callback \union {None} BY <1>1, <1>3, <1>5, TellTyped DEF Event
    <2>4. CheckSocket(d, k, ctl[c].tag) /\ d.param[k] = c => Dying(c, ctl[c], callback')
        BY <1>1, <1>3, <1>5, TellDies DEF CheckSocket
    <2> QED BY <1>2, <2>1, <2>2, <2>3, <2>4, ServedKeeps DEF CloseOp
<1>6. CASE d.pcb[k] # "none" /\ prvlwip' = SetPcb(Taken, k, "syn") /\ UNCHANGED callback
    <2>1. /\ prvlwip'.mailbox = Tail(d.mailbox) /\ Touches(d, prvlwip', k)
          /\ prvlwip'.pcb[k] = "syn" /\ prvlwip'.remoteClose = d.remoteClose
        BY <1>1, <1>3, <1>6, TakenIs
    <2>2. Clear(prvlwip', k) <=> Clear(d, k) BY <2>1, <1>6 DEF Clear
    <2>3. callback' \in Callback \union {None} BY <1>6 DEF NetInv
    <2>4. ~ToCreate(d, k) BY <1>1, <1>6, NotYet DEF Clear
    <2>5. Lives(d, k) => k \notin prvlwip'.remoteClose /\ prvlwip'.pcb[k] # "none"
        BY <2>1, <2>4 DEF Lives
    <2> QED BY <1>2, <2>1, <2>2, <2>3, <2>5, ServedKeeps DEF CloseOp
<1> QED BY <1>4, <1>5, <1>6 DEF ConnectNow, k

LEMMA TxNowKeeps ==
    ASSUME NetInv, TxNow, UNCHANGED <<ctl, half>>, NEW c \in Ctrl PROVE NetInv'
<1> DEFINE d == prvlwip
           k == Subject
<1>1. Good(d) BY Now
<1>2. /\ Idle /\ d.mailbox # << >> /\ Head(d.mailbox).op = "tx" /\ k = Head(d.mailbox).slot
      /\ UNCHANGED lost /\ prvlwip' = Taken
    BY DEF TxNow, Receive, Subject
<1>3. k \in Slot BY <1>1, <1>2, First
<1> HIDE DEF k
<1>4. /\ prvlwip'.mailbox = Tail(d.mailbox) /\ Touches(d, prvlwip', k)
      /\ prvlwip'.pcb = d.pcb /\ prvlwip'.remoteClose = d.remoteClose
      /\ Clear(prvlwip', k) <=> Clear(d, k)
    BY <1>1, <1>2, <1>3, TakenIs DEF Clear
<1>5. CASE d.pcb[k] = "none" /\ Tell("ERROR", d, k)
    <2>1. callback' \in Callback \union {None} BY <1>1, <1>3, <1>5, TellTyped DEF Event
    <2>2. CheckSocket(d, k, ctl[c].tag) /\ d.param[k] = c => Dying(c, ctl[c], callback')
        BY <1>1, <1>3, <1>5, TellDies DEF CheckSocket
    <2> QED BY <1>2, <1>4, <2>1, <2>2, ServedKeeps DEF CloseOp
<1>6. CASE d.pcb[k] # "none" /\ UNCHANGED callback
    <2>1. callback' \in Callback \union {None} BY <1>6 DEF NetInv
    <2>2. Lives(d, k) =>
              \/ k \notin prvlwip'.remoteClose /\ prvlwip'.pcb[k] # "none"
              \/ ToCreate(d, k)
        BY <1>4 DEF Lives
    <2> QED BY <1>2, <1>4, <2>1, <2>2, ServedKeeps DEF CloseOp
<1> QED BY <1>5, <1>6 DEF TxNow, k

LEMMA DnsNowKeeps ==
    ASSUME NetInv, DnsNow, UNCHANGED <<ctl, half>>, NEW c \in Ctrl PROVE NetInv'
<1>1. Good(prvlwip) /\ Driver(prvlwip) BY Now DEF Good
<1>2. /\ Idle /\ prvlwip.mailbox # << >> /\ Head(prvlwip.mailbox).op = "dns"
      /\ UNCHANGED <<lost, callback>> /\ prvlwip' = Taken
    BY DEF DnsNow, Receive
<1>3. /\ prvlwip'.mailbox = Tail(prvlwip.mailbox) /\ Touches(prvlwip, prvlwip', -1)
      /\ prvlwip'.pcb = prvlwip.pcb /\ prvlwip'.remoteClose = prvlwip.remoteClose
    BY <1>1, <1>2 DEF Driver, Field, Taken, Touches
<1>4. ~CheckSocket(prvlwip, -1, ctl[c].tag) BY <1>1, SlotIsNat DEF Driver, CheckSocket
<1>5. Clear(prvlwip', -1) <=> Clear(prvlwip, -1) BY <1>3 DEF Clear
<1>6. callback' \in Callback \union {None} BY <1>2 DEF NetInv
<1> QED BY <1>2, <1>3, <1>4, <1>5, <1>6, ServedKeeps DEF CloseOp

(* net_lwip2_tcp_close_done is called for a socket that a close was sent   *)
(* for, and that the connection does not count on any more.                *)
LEMMA ClosedKeeps ==
    ASSUME NetInv, NEW op \in CloseOp, Receive(op), UNCHANGED <<ctl, half>>, NEW c \in Ctrl,
           ~Clear(prvlwip, Subject), prvlwip' = CloseDone(Taken, Subject),
           UNCHANGED callback \/ Tell("CLOSE_OK", prvlwip, Subject),
           lost' = lost \ {Subject}
    PROVE  NetInv'
<1> DEFINE d == prvlwip
           e == prvlwip'
           k == Subject
           s == ctl[c].socketId
           t == ctl[c].tag
<1>1. /\ Conn(ctl[c]) /\ DOMAIN ctl = Ctrl /\ Waits(ctl[c])
      /\ Kept(d, s, t, lost, half) /\ Good(d)
    BY Now
<1>2. /\ Idle /\ d.mailbox # << >> /\ Head(d.mailbox).op = op /\ k = Head(d.mailbox).slot
    BY DEF Receive, Subject
<1>3. k \in Slot BY <1>1, <1>2, First DEF CloseOp
<1> HIDE DEF k
<1>4. /\ DOMAIN e = Field
      /\ e.used = d.used \ {k} /\ e.closing = d.closing \ {k}
      /\ e.remoteClose = d.remoteClose \ {k}
      /\ e.pcb = [d.pcb EXCEPT ![k] = "none"] /\ e.param = [d.param EXCEPT ![k] = None]
      /\ e.tag = d.tag /\ e.socketTag = d.socketTag
      /\ e.mailbox = Tail(d.mailbox)
    BY <1>1 DEF Good, Driver, Field, CloseDone, Taken, k
<1>5. \A j \in Slot \ {k} : e.pcb[j] = d.pcb[j] /\ (Clear(e, j) <=> Clear(d, j))
    BY <1>1, <1>4 DEF Good, Driver, Clear
<1>6. Freed(d, e)
    BY <1>1, <1>2, <1>3, <1>4, <1>5 DEF Good, Driver, Owner, Freed, Clear
<1>7. ~Clear(d, k) BY DEF k
<1>8. /\ Good(e)
      /\ Meets(d, Head(d.mailbox))
      /\ \A j : CloseSent(e, j) => CloseSent(d, j)
      /\ \A j : j # k /\ CloseSent(d, j) => CloseSent(e, j)
      /\ \A j : ToCreate(d, j) => ToCreate(e, j)
    BY <1>1, <1>2, <1>6, <1>7, FreedGood
<1>9. CloseSent(d, k)
    <2>1. 1 \in Pos(d) /\ d.mailbox[1] = Head(d.mailbox)
        <3>1. d.mailbox \in Seq(Msg) BY <1>1 DEF Good, Driver
        <3> QED BY <3>1, <1>2 DEF Pos
    <2> QED BY <2>1, <1>2, <1>8 DEF CloseSent
<1>10. \A j : j # k /\ Leaves(d, lost, half, j) => Leaves(e, lost', half, j)
    BY <1>8 DEF Leaves, k
<1>11. Tended(e, lost', half)
    <2>1. \A j \in e.closing : j \in e.used \/ j \in lost'
        BY <1>1, <1>4 DEF Kept, Tended, k
    <2>2. \A j \in e.used : Clear(e, j) => j \in lost' \/ ToCreate(e, j)
        BY <1>1, <1>4, <1>5, <1>8 DEF Kept, Tended, Good, Driver, k
    <2>3. \A j \in e.used \intersect e.closing : Leaves(e, lost', half, j)
        BY <1>1, <1>4, <1>10 DEF Kept, Tended
    <2> QED BY <2>1, <2>2, <2>3 DEF Tended
<1>12. Owned(e, s, t, lost', half)
    BY <1>1, <1>4, <1>8, <1>10 DEF Kept, Owned
<1>13. Kept(e, s, t, lost', half) BY <1>8, <1>11, <1>12 DEF Kept
<1>14. Busy(c) \/ Guard(c, e, ctl[c], callback')
    <2> SUFFICES ASSUME ~Busy(c), Watched(ctl[c])
                 PROVE  CheckSocket(e, s, t) /\ e.param[s] = c /\ Lives(e, s)
        BY DEF Guard
    <2>1. /\ CheckSocket(d, s, t) /\ d.param[s] = c /\ Lives(d, s) /\ s \in Slot
          /\ ~CloseSent(d, s)
        BY <1>2, Watching DEF Idle, Dying
    <2>2. s # k BY <2>1, <1>9
    <2>3. CheckSocket(e, s, t) BY <2>1, <2>2, <1>4 DEF CheckSocket
    <2>4. e.param[s] = c BY <2>1, <2>2, <1>1, <1>4 DEF Good, Driver, Owner
    <2>5. Lives(e, s) BY <2>1, <2>2, <1>4, <1>5, <1>8 DEF Lives
    <2> QED BY <2>3, <2>4, <2>5
<1>15. callback' \in Callback \union {None}
    BY <1>1, <1>3, TellTyped DEF Event, NetInv, k
<1>16. half' \in Half \union {None} /\ (half' # None /\ half'.step # "end" => half'.slot \in Slot)
    BY DEF NetInv
<1>17. (half' # None /\ half'.ctrl = c) \/ Guard(c, e, ctl'[c], callback')
    BY <1>14 DEF Busy
<1> HIDE DEF e
<1> QED BY <1>1, <1>13, <1>15, <1>16, <1>17, Keeping DEF e

(* A close that finds nothing to close leaves a slot in use only if it is  *)
(* lost.                                                                   *)
LEMMA MissedKeeps ==
    ASSUME NetInv, NEW op \in CloseOp, Receive(op), UNCHANGED <<ctl, half>>, NEW c \in Ctrl,
           Subject \notin prvlwip.used \/ Clear(prvlwip, Subject), prvlwip' = Taken,
           UNCHANGED <<callback, lost>>
    PROVE  NetInv'
<1> DEFINE d == prvlwip
           e == prvlwip'
           k == Subject
           m == Head(d.mailbox)
<1>1. Kept(d, ctl[c].socketId, ctl[c].tag, lost, half) /\ Good(d)
    BY Now
<1>2. Idle /\ d.mailbox # << >> /\ m.op = op /\ k = m.slot
    BY DEF Receive, Subject
<1>3. k \in Slot BY <1>1, <1>2, First DEF CloseOp
<1>4. k \notin d.used \/ Clear(d, k) OBVIOUS
<1> HIDE DEF k
<1>5. /\ Touches(d, e, k) /\ e.mailbox = Tail(d.mailbox)
      /\ e.pcb = d.pcb /\ e.remoteClose = d.remoteClose
    BY <1>1, <1>3, TakenIs
<1>6. Took(d, e) BY <1>5 DEF Touches, Took, Clear
<1>7. /\ Good(e)
      /\ \A j : CloseSent(e, j) => CloseSent(d, j)
      /\ \A j : CloseSent(d, j) => CloseSent(e, j) \/ (m.slot = j /\ Meets(d, m))
      /\ \A j : ToCreate(d, j) => ToCreate(e, j)
    BY <1>1, <1>2, <1>6, TookGood DEF CloseOp
<1>8. m.slot = k /\ Meets(d, m) => k \in lost
    <2> SUFFICES ASSUME Meets(d, m), k \notin lost PROVE FALSE OBVIOUS
    <2>1. k \in d.used /\ Clear(d, k) BY <1>2, <1>4 DEF Meets
    <2>2. ToCreate(d, k) BY <2>1, <1>1 DEF Kept, Tended
    <2>3. PICK i \in Pos(d) : d.mailbox[i].op = "create" /\ d.mailbox[i].slot = k
        BY <2>2 DEF ToCreate, CreateAt
    <2>4. 1 \in Pos(d) /\ d.mailbox[1] = m /\ Len(d.mailbox) \in Nat
        <3>1. d.mailbox \in Seq(Msg) BY <1>1 DEF Good, Driver
        <3> QED BY <3>1, <1>2 DEF Pos
    <2>5. i # 1 BY <2>3, <2>4, <1>2 DEF CloseOp
    <2>6. i \in 1 + 1 .. Len(d.mailbox) BY <2>4, <2>5 DEF Pos
    <2>7. IsAbout(d.mailbox[i], d.mailbox[1].slot) BY <2>3, <2>4, <1>2 DEF IsAbout
    <2>8. d.mailbox[1].op \in CloseOp /\ Meets(d, d.mailbox[1]) BY <2>4, <1>2
    <2>9. d.mailbox[i].op \in CloseOp BY <2>4, <2>6, <2>7, <2>8, <1>1 DEF Good, ClosesLast
    <2> QED BY <2>3, <2>9 DEF CloseOp
<1>9. \A j \in d.used : Leaves(d, lost, half, j) => Leaves(e, lost', half, j)
    BY <1>2, <1>7, <1>8 DEF Leaves
<1>10. k \in d.used /\ Clear(e, k) => k \in lost' \/ ToCreate(e, k)
    BY <1>1, <1>5, <1>7 DEF Kept, Tended, Clear
<1>11. Lives(d, k) => Lives(e, k) BY <1>5, <1>7 DEF Lives
<1>12. callback' \in Callback \union {None} BY DEF NetInv
<1> HIDE DEF m
<1> QED BY <1>2, <1>5, <1>7, <1>9, <1>10, <1>11, <1>12, ThreadKeeps

LEMMA CloseNowKeeps ==
    ASSUME NetInv, NEW op \in CloseOp, CloseNow(op), UNCHANGED <<ctl, half>>, NEW c \in Ctrl
    PROVE  NetInv'
<1>1. CASE /\ prvlwip.pcb[Subject] # "none" \/ Subject \in prvlwip.remoteClose
           /\ prvlwip' = CloseDone(Taken, Subject)
           /\ UNCHANGED callback \/ Tell("CLOSE_OK", prvlwip, Subject)
           /\ lost' = lost \ {Subject}
    BY <1>1, ClosedKeeps DEF CloseNow, Clear
<1>2. CASE /\ \/ Subject \notin prvlwip.used
              \/ prvlwip.pcb[Subject] = "none" /\ Subject \notin prvlwip.remoteClose
           /\ prvlwip' = Taken
           /\ UNCHANGED <<callback, lost>>
    BY <1>2, MissedKeeps DEF CloseNow, Clear
<1> QED BY <1>1, <1>2 DEF CloseNow

(* lwip calls back.                                                        *)
LEMMA CalledKeeps ==
    ASSUME NetInv, NEW c \in Ctrl, NEW k, Idle, UNCHANGED <<ctl, half>>, lost \subseteq lost',
           callback' \in Callback \union {None},
           Kin(prvlwip, prvlwip'), Touches(prvlwip, prvlwip', k),
           Clear(prvlwip', k) /\ k \in prvlwip.used => Clear(prvlwip, k) \/ k \in lost',
           CheckSocket(prvlwip, k, ctl[c].tag) /\ prvlwip.param[k] = c /\ Lives(prvlwip, k) =>
               \/ k \notin prvlwip'.remoteClose /\ prvlwip'.pcb[k] # "none"
               \/ ToCreate(prvlwip, k)
               \/ Dying(c, ctl[c], callback')
    PROVE  NetInv'
<1> DEFINE d == prvlwip
           e == prvlwip'
<1>1. Good(d) /\ Kept(d, ctl[c].socketId, ctl[c].tag, lost, half) BY Now
<1>2. /\ Good(e)
      /\ \A j : CloseSent(e, j) <=> CloseSent(d, j)
      /\ \A j : ToCreate(e, j) <=> ToCreate(d, j)
    BY <1>1, KinGood
<1>3. \A j \in d.used : Leaves(d, lost, half, j) => Leaves(e, lost', half, j)
    BY <1>2 DEF Leaves
<1>4. k \in d.used /\ Clear(e, k) => k \in lost' \/ ToCreate(e, k)
    BY <1>1, <1>2 DEF Kept, Tended
<1>5. CheckSocket(d, k, ctl[c].tag) /\ d.param[k] = c /\ Lives(d, k) =>
          Lives(e, k) \/ Dying(c, ctl[c], callback')
    BY <1>2 DEF Lives
<1> QED BY <1>2, <1>3, <1>4, <1>5, ThreadKeeps

(* The fields of a socket table of which a pcb, or remote_close, changes.  *)
LEMMA CalledIs ==
    ASSUME Good(prvlwip), NEW k \in Slot, prvlwip.pcb[k] # "none", NEW p
    PROVE  LET d == prvlwip
               e == SetPcb(d, k, p)
           IN /\ Touches(d, d, k) /\ Kin(d, d)
              /\ Touches(d, e, k) /\ Kin(d, e) /\ e.pcb[k] = p /\ e.remoteClose = d.remoteClose
              /\ Touches(d, Dead(d, k), k) /\ Kin(d, Dead(d, k)) /\ k \in Dead(d, k).remoteClose
              /\ Touches(d, Dead(e, k), k) /\ Kin(d, Dead(e, k)) /\ k \in Dead(e, k).remoteClose
BY DEF Good, Driver, Field, SetPcb, Dead, Touches, Kin, Clear

LEMMA ConnectedKeeps ==
    ASSUME NetInv, NEW k \in Slot, Connected(k), UNCHANGED <<ctl, half>>, NEW c \in Ctrl
    PROVE  NetInv'
<1>1. Good(prvlwip) BY Now
<1>2. /\ Idle /\ prvlwip.pcb[k] # "none" /\ UNCHANGED lost
      /\ prvlwip' = SetPcb(prvlwip, k, "open") /\ Tell("CONNECT_OK", prvlwip, k)
    BY DEF Connected
<1>3. /\ Touches(prvlwip, prvlwip', k) /\ Kin(prvlwip, prvlwip')
      /\ prvlwip'.pcb[k] = "open" /\ prvlwip'.remoteClose = prvlwip.remoteClose
    BY <1>1, <1>2, CalledIs
<1>4. callback' \in Callback \union {None} BY <1>1, <1>2, TellTyped DEF Event
<1>5. ~Clear(prvlwip', k) BY <1>3 DEF Clear
<1>6. Lives(prvlwip, k) =>
          (k \notin prvlwip'.remoteClose /\ prvlwip'.pcb[k] # "none") \/ ToCreate(prvlwip, k)
    BY <1>3 DEF Lives
<1> QED BY <1>2, <1>3, <1>4, <1>5, <1>6, CalledKeeps

LEMMA ErrKeeps ==
    ASSUME NetInv, NEW k \in Slot, Err(k), UNCHANGED <<ctl, half>>, NEW c \in Ctrl
    PROVE  NetInv'
<1> DEFINE e == SetPcb(prvlwip, k, "none")
<1>1. Good(prvlwip) BY Now
<1>2. Idle /\ prvlwip.pcb[k] # "none" BY DEF Err
<1>3. /\ Touches(prvlwip, e, k) /\ Kin(prvlwip, e) /\ e.remoteClose = prvlwip.remoteClose
      /\ Touches(prvlwip, Dead(e, k), k) /\ Kin(prvlwip, Dead(e, k))
      /\ k \in Dead(e, k).remoteClose
    BY <1>1, <1>2, CalledIs
<1>4. \/ /\ k \in prvlwip.closing \union prvlwip.remoteClose /\ prvlwip' = e
         /\ lost' = lost \union ({k} \ prvlwip.remoteClose)
         /\ UNCHANGED callback
      \/ /\ prvlwip' = Dead(e, k) /\ Tell("ERROR", prvlwip, k) /\ UNCHANGED lost
    BY DEF Err
<1> HIDE DEF e
<1>5. CASE /\ k \in prvlwip.closing \union prvlwip.remoteClose /\ prvlwip' = e
           /\ lost' = lost \union ({k} \ prvlwip.remoteClose)
           /\ UNCHANGED callback
    <2>1. Touches(prvlwip, prvlwip', k) /\ Kin(prvlwip, prvlwip') BY <1>3, <1>5
    <2>2. Clear(prvlwip', k) => k \in lost' BY <1>3, <1>5 DEF Clear
    <2>3. CheckSocket(prvlwip, k, ctl[c].tag) /\ Lives(prvlwip, k) => ToCreate(prvlwip, k)
        BY <1>5 DEF CheckSocket, Lives
    <2>4. callback' \in Callback \union {None} BY <1>5 DEF NetInv
    <2>5. lost \subseteq lost' BY <1>5
    <2> QED BY <1>2, <2>1, <2>2, <2>3, <2>4, <2>5, CalledKeeps
<1>6. CASE prvlwip' = Dead(e, k) /\ Tell("ERROR", prvlwip, k) /\ UNCHANGED lost
    <2>1. Touches(prvlwip, prvlwip', k) /\ Kin(prvlwip, prvlwip') BY <1>3, <1>6
    <2>2. ~Clear(prvlwip', k) BY <1>3, <1>6 DEF Clear
    <2>3. CheckSocket(prvlwip, k, ctl[c].tag) /\ prvlwip.param[k] = c =>
              Dying(c, ctl[c], callback')
        BY <1>1, <1>6, TellDies DEF CheckSocket
    <2>4. callback' \in Callback \union {None} BY <1>1, <1>6, TellTyped DEF Event
    <2>5. lost \subseteq lost' BY <1>6
    <2> QED BY <1>2, <2>1, <2>2, <2>3, <2>4, <2>5, CalledKeeps
<1> QED BY <1>4, <1>5, <1>6

LEMMA RemoteCloseKeeps ==
    ASSUME NetInv, NEW k \in Slot, RemoteClose(k), UNCHANGED <<ctl, half>>, NEW c \in Ctrl
    PROVE  NetInv'
<1>1. Good(prvlwip) BY Now
<1>2. /\ Idle /\ prvlwip.pcb[k] # "none" /\ UNCHANGED lost
      /\ prvlwip' = Dead(prvlwip, k)
    BY DEF RemoteClose
<1>3. PICK ev \in {"REMOTE_CLOSE", "ERROR"} : Tell(ev, prvlwip, k) BY DEF RemoteClose
<1>4. /\ Touches(prvlwip, prvlwip', k) /\ Kin(prvlwip, prvlwip') /\ k \in prvlwip'.remoteClose
    BY <1>1, <1>2, CalledIs
<1>5. ~Clear(prvlwip', k) BY <1>4 DEF Clear
<1>6. CheckSocket(prvlwip, k, ctl[c].tag) /\ prvlwip.param[k] = c => Dying(c, ctl[c], callback')
    BY <1>1, <1>3, TellDies DEF CheckSocket
<1>7. callback' \in Callback \union {None} BY <1>1, <1>3, TellTyped DEF Event
<1> QED BY <1>2, <1>4, <1>5, <1>6, <1>7, CalledKeeps

LEMMA DataKeeps ==
    ASSUME NetInv, NEW k \in Slot, Data(k), UNCHANGED <<ctl, half>>, NEW c \in Ctrl
    PROVE  NetInv'
<1>1. Good(prvlwip) BY Now
<1>2. /\ Idle /\ prvlwip.pcb[k] # "none" /\ UNCHANGED <<prvlwip, lost>>
    BY DEF Data
<1>3. PICK ev \in {"RX_NEW", "TX_OK", "ERROR"} : Tell(ev, prvlwip, k) BY DEF Data
<1>4. Touches(prvlwip, prvlwip', k) /\ Kin(prvlwip, prvlwip') BY <1>1, <1>2, CalledIs
<1>5. ~Clear(prvlwip', k) BY <1>2 DEF Clear
<1>6. Lives(prvlwip, k) =>
          (k \notin prvlwip'.remoteClose /\ prvlwip'.pcb[k] # "none") \/ ToCreate(prvlwip, k)
    BY <1>2 DEF Lives
<1>7. callback' \in Callback \union {None} BY <1>1, <1>3, TellTyped DEF Event
<1> QED BY <1>2, <1>4, <1>5, <1>6, <1>7, CalledKeeps

(* An answer to a query, and the link.                                     *)
LEMMA NoSocketKeeps ==
    ASSUME NetInv, Idle,
           UNCHANGED <<prvlwip, lost, ctl, half>>, NEW c \in Ctrl,
           callback' \in Callback
    PROVE  NetInv'
<1>1. Good(prvlwip) BY Now
<1>2. Touches(prvlwip, prvlwip', -1) /\ Kin(prvlwip, prvlwip')
    BY <1>1 DEF Good, Driver, Touches, Kin
<1>3. ~CheckSocket(prvlwip, -1, ctl[c].tag) /\ -1 \notin prvlwip.used
    BY <1>1, SlotIsNat DEF Good, Driver, CheckSocket
<1> QED BY <1>2, <1>3, CalledKeeps

LEMMA DnsAnswerKeeps ==
    ASSUME NetInv, NEW c \in Ctrl, DnsAnswer(c), UNCHANGED <<ctl, half>>
    PROVE  NetInv'
<1>1. Idle /\ UNCHANGED <<prvlwip, lost>> BY DEF DnsAnswer
<1>2. PICK n \in 0 .. MaxIps :
          callback' = [ev |-> "DNS_RESULT", to |-> {c}, tag |-> 0, ips |-> n, passed |-> FALSE]
    BY DEF DnsAnswer
<1>3. n \in Nat BY SocketAssumption
<1>4. callback' \in Callback BY <1>2, <1>3 DEF Callback, Event
<1> QED BY <1>1, <1>4, NoSocketKeeps

LEMMA LinkChangesKeeps == ASSUME NetInv, LinkChanges, NEW c \in Ctrl PROVE NetInv'
<1>1. Idle /\ UNCHANGED <<prvlwip, lost, ctl, half>> BY DEF LinkChanges
<1>2. callback' \in Callback BY DEF LinkChanges, Callback, Event
<1> QED BY <1>1, <1>2, NoSocketKeeps

LEMMA LwipKeeps == ASSUME NetInv, Lwip, UNCHANGED <<ctl, half>> PROVE NetInv'
<1>1. PICK c : c \in Ctrl BY OneConnection
<1> QED BY <1>1, CreateNowKeeps, ConnectNowKeeps, TxNowKeeps, DnsNowKeeps, CloseNowKeeps,
           ConnectedKeeps, ErrKeeps, RemoteCloseKeeps, DataKeeps, DnsAnswerKeeps
           DEF Lwip, Mailbox

-----------------------------------------------------------------------------
(* The theorems.                                                           *)

LEMMA InitKeeps == ASSUME Init PROVE NetInv
<1>1. PICK c : c \in Ctrl BY OneConnection
<1> DEFINE d == prvlwip
           r == [state |-> "LINK_OFF", wait |-> "NONE", socketId |-> -1, tag |-> 0,
                 needClose |-> FALSE, newRx |-> FALSE, byName |-> FALSE, nums |-> 0, cnt |-> 0]
<1>2. callback = None /\ half = None /\ lost = {} /\ ctl = [b \in Ctrl |-> r]
    BY DEF Init, SocketInit
<1>3. /\ DOMAIN d = Field /\ d.used = {} /\ d.closing = {} /\ d.remoteClose = {}
      /\ d.pcb = [k \in Slot |-> "none"] /\ d.tag = [k \in Slot |-> 0]
      /\ d.param = [k \in Slot |-> None] /\ d.socketTag = 0 /\ d.mailbox = << >>
    BY DEF Init, SocketInit, Field
<1> HIDE DEF d
<1>4. Pos(d) = {} BY <1>3 DEF Pos
<1>5. Driver(d) BY <1>3 DEF Driver, Owner
<1>6. Addressed(d) /\ ClosesLast(d) /\ CreatesOnce(d)
    BY <1>4 DEF Addressed, ClosesLast, CreatesOnce
<1>7. FreeIsClear(d) BY <1>3 DEF FreeIsClear, Clear
<1>8. Good(d) BY <1>5, <1>6, <1>7 DEF Good
<1>9. Kept(d, -1, 0, lost, half)
    BY <1>3, <1>8, SlotIsNat DEF Kept, Tended, Owned
<1>10. Conn(r) /\ r.socketId = -1 /\ r.tag = 0 /\ r.wait = "NONE" BY DEF Conn, ConnField
<1> HIDE DEF r
<1>11. \A b \in Ctrl : ctl[b] = r /\ DOMAIN ctl = Ctrl BY <1>2
<1>12. Sane(World) BY <1>1, <1>9, <1>10, <1>11 DEF Sane, World, d
<1>13. \A b \in Ctrl : Waits(ctl[b]) /\ Guard(b, d, ctl[b], callback)
    BY <1>10, <1>11, Unwatched DEF Waits
<1> QED BY <1>2, <1>12, <1>13 DEF NetInv, d

LEMMA NextKeeps == ASSUME NetInv, [Next]_vars PROVE NetInv'
<1>1. CASE LuaStep BY <1>1, LuaKeeps
<1>2. CASE LinkChanges BY <1>2, LinkChangesKeeps, OneConnection
<1>3. CASE \E c \in Ctrl : Handle(c) BY <1>3, HandleKeeps
<1>4. CASE Lwip /\ UNCHANGED <<ctl, link, half, calls, links>> BY <1>4, LwipKeeps
<1>5. CASE UNCHANGED vars
    <2>1. PICK c : c \in Ctrl BY OneConnection
    <2>2. UNCHANGED <<prvlwip, callback, lost, ctl, half>> BY <1>5 DEF vars, sockVars
    <2>3. World' = World BY <2>2 DEF World
    <2>4. Sane(World)' <=> Sane(World) BY <2>2, <2>3 DEF Sane
    <2> QED BY <2>2, <2>4 DEF NetInv, Busy
<1> QED BY <1>1, <1>2, <1>3, <1>4, <1>5 DEF Next

LEMMA Always == Spec => []NetInv
<1>1. Init => NetInv BY InitKeeps
<1>2. NetInv /\ [Next]_vars => NetInv' BY NextKeeps
<1> QED BY <1>1, <1>2, PTL DEF Spec

(* A message that acts on a socket acts on the one it was sent for, though *)
(* socket.close tests, marks and closes a slot without a lock, and the     *)
(* slot may have changed hands between any two of its steps: a message     *)
(* whose socket is gone is a close, and finds nothing to close.  For every *)
(* number of slots, addresses and calls.                                   *)
(* (net_lwip2.c:965-1350, 1662-1687, 1831-1834)                            *)
THEOREM MessagesFindTheirSocket == Spec => []MessagesMeetTheirSocket
<1>1. ASSUME NetInv PROVE MessagesMeetTheirSocket
    <2> SUFFICES ASSUME NEW i \in DOMAIN prvlwip.mailbox, prvlwip.mailbox[i].op # "dns"
                 PROVE  LET m == prvlwip.mailbox[i] IN
                        \/ m.slot \in prvlwip.used /\ prvlwip.tag[m.slot] = m.tag
                        \/ FindsNothing(i)
        BY DEF MessagesMeetTheirSocket
    <2>1. PICK c : c \in Ctrl BY OneConnection
    <2>2. Good(prvlwip) BY <1>1, <2>1, Now
    <2>3. i \in Pos(prvlwip) BY <2>2 DEF Good, Driver, Pos
    <2>4. Meets(prvlwip, prvlwip.mailbox[i]) \/ Harmless(prvlwip, i)
        BY <2>2, <2>3 DEF Good, Addressed
    <2>5. Harmless(prvlwip, i) => FindsNothing(i)
        BY DEF Harmless, FindsNothing, Clear, CreateAt
    <2> QED BY <2>4, <2>5 DEF Meets
<1> QED BY <1>1, Always, PTL

(* Every slot in use comes back: it is the connection's, a close is on its *)
(* way for it, or it is one of those known to be lost.  For every number   *)
(* of slots, addresses and calls.                                          *)
(* (luat_network_adapter.c:427-446, net_lwip2.c:1662-1687, 1826-1853)      *)
THEOREM SlotsReturn == Spec => []SlotsComeBack
<1>1. ASSUME NetInv PROVE SlotsComeBack
    <2> SUFFICES ASSUME NEW k \in prvlwip.used, k \notin lost,
                        \A c \in Ctrl : ~Mine(c, k),
                        ~(half # None /\ half.step = "send" /\ half.slot = k)
                 PROVE  \E i \in DOMAIN prvlwip.mailbox :
                            prvlwip.mailbox[i].op \in CloseOp /\ prvlwip.mailbox[i].slot = k
        BY DEF SlotsComeBack
    <2>1. PICK c : c \in Ctrl BY OneConnection
    <2>2. Kept(prvlwip, ctl[c].socketId, ctl[c].tag, lost, half) /\ Good(prvlwip)
        BY <1>1, <2>1, Now
    <2>3. k # ctl[c].socketId BY <2>1, <2>2 DEF Mine, Kept, Owned, Good, Driver
    <2>4. CloseSent(prvlwip, k) BY <2>2, <2>3 DEF Kept, Owned, Leaves, Sending
    <2> QED BY <2>2, <2>4 DEF CloseSent, Good, Driver, Pos
<1> QED BY <1>1, Always, PTL

(* The script learns of the end of its connection: while it is on line,    *)
(* not to be closed, and the script not in socket.close, the socket lives, *)
(* is still to be created, or its end is being told.  For every number of  *)
(* slots, addresses and calls.                                             *)
(* (luat_network_adapter.c:865-886, 1121, net_lwip2.c:289-293, 394-406)    *)
THEOREM DeathIsTold == Spec => []DeathIsReported
<1>1. ASSUME NetInv PROVE DeathIsReported
    <2> SUFFICES ASSUME NEW c \in Ctrl, IsOnline(c), ~ctl[c].needClose, ~Busy(c)
                 PROVE  LET k == ctl[c].socketId IN
                        /\ CheckSocket(prvlwip, k, ctl[c].tag)
                        /\ \/ Telling(c)
                           \/ k \notin prvlwip.remoteClose /\ prvlwip.pcb[k] # "none"
                           \/ \E i \in DOMAIN prvlwip.mailbox :
                                  /\ prvlwip.mailbox[i].op = "create"
                                  /\ prvlwip.mailbox[i].slot = k
        BY DEF DeathIsReported, EndIsReported
    <2> DEFINE k == ctl[c].socketId
    <2>1. Good(prvlwip) /\ k \in Slot \union {-1} BY <1>1, Now
    <2>2. Watched(ctl[c]) BY <2>1, SlotIsNat DEF Watched, IsOnline
    <2>3. CheckSocket(prvlwip, k, ctl[c].tag) /\ (Lives(prvlwip, k) \/ Dying(c, ctl[c], callback))
        BY <1>1, <2>2, Watching
    <2>4. Dying(c, ctl[c], callback) => Telling(c) BY DEF Dying, Telling, Told, IsState
    <2>5. ToCreate(prvlwip, k) =>
              \E i \in DOMAIN prvlwip.mailbox : /\ prvlwip.mailbox[i].op = "create"
                                                /\ prvlwip.mailbox[i].slot = k
        BY <2>1 DEF ToCreate, CreateAt, Good, Driver, Pos
    <2> QED BY <2>3, <2>4, <2>5 DEF Lives
<1> QED BY <1>1, Always, PTL
=============================================================================
