---------------------------- MODULE LwipSockets ----------------------------
(***************************************************************************)
(* The sockets of net_lwip2.c: a table of slots which any thread opens and *)
(* closes, and the tcpip thread, which does the work: it takes messages    *)
(* from its mailbox and is called by lwip when something happens to a      *)
(* connection.  What it finds it tells the network adapter (NetSocket), in *)
(* a callback that it runs before it does anything else.                   *)
(*                                                                         *)
(* Only TCP clients are modelled, and of data only that some was sent,     *)
(* acknowledged or received.  There is one owner: the code searches,       *)
(* claims and marks a slot without a lock of the table, and what keeps two *)
(* threads apart there is the lock of the one network_ctrl_t.  Where the   *)
(* adapter does not take it, NetSocket has the steps one by one.           *)
(***************************************************************************)
EXTENDS Integers, Sequences, FiniteSets

CONSTANTS
    Ctrl,       \* the network_ctrl_t, which owns sockets
    MaxSock,    \* MAX_SOCK_NUM, 8 or more in the code
    MaxIps,     \* addresses that the answer of a DNS server may hold
    None

Slot == 0 .. MaxSock - 1

Event == {"DNS_RESULT", "ERROR", "REMOTE_CLOSE", "CLOSE_OK", "CONNECT_OK",
          "TX_OK", "RX_NEW", "STATE_UP", "STATE_DOWN"}

(* What the adapter is told: an event, the owners and the tag of the       *)
(* socket, and, of a DNS answer, how many addresses; passed is set once    *)
(* the adapter has compared the tag.                                       *)
Callback == [ev : Event, to : SUBSET Ctrl, tag : Nat, ips : Nat, passed : BOOLEAN]

ASSUME SocketAssumption ==
    /\ MaxSock \in Nat \ {0}
    /\ MaxIps \in Nat
    /\ None \notin Ctrl \union Callback

ASSUME OneConnection == \E c \in Ctrl : Ctrl = {c}

VARIABLES
    prvlwip,    \* the slots, and the mailbox of the tcpip thread
    callback,   \* what the tcpip thread tells the adapter
    queries,    \* how many DNS queries of each owner are not answered yet
    lost        \* history: slots that no close will free

(* The messages carry a slot and no tag; tag is a history of the socket    *)
(* they were sent for.  "disconnect" is a close that is to be reported.    *)
Message(op, k, t) == [op |-> op, slot |-> k, tag |-> t]
Query(c) == [op |-> "dns", ctrl |-> c]
CloseOp == {"close", "disconnect"}

SocketInit ==
    /\ prvlwip = [used |-> {},          \* in_use
                  closing |-> {},       \* state
                  remoteClose |-> {},   \* remote_close
                  pcb |-> [k \in Slot |-> "none"],
                  tag |-> [k \in Slot |-> 0],
                  param |-> [k \in Slot |-> None],
                  socketTag |-> 0,      \* socket_tag
                  next |-> 0,           \* next_socket_index
                  mailbox |-> << >>]
    /\ callback = None
    /\ queries = [c \in Ctrl |-> 0]
    /\ lost = {}

-----------------------------------------------------------------------------
(* What other threads call; d is prvlwip.                                  *)

Send(d, m) == [d EXCEPT !.mailbox = Append(@, m)]

(* net_lwip2_check_socket                                                  *)
CheckSocket(d, k, t) == k \in d.used \ d.closing /\ d.tag[k] = t

Free(d) == Slot \ d.used

GenNextSocketId(d) ==
    IF d.next \in Free(d) THEN d.next
    ELSE CHOOSE k \in Free(d) : \A j \in Free(d) : k <= j

(* net_lwip2_create_socket and net_lwip2_socket_connect; there is a slot.  *)
(* A free slot may be marked: nothing resets the mark, and the connect is  *)
(* refused (CheckSocket).                                                  *)
Open(d, c) ==
    LET k == GenNextSocketId(d)
        t == d.socketTag + 1
    IN [d EXCEPT !.used = @ \union {k},
                 !.tag = [@ EXCEPT ![k] = t],
                 !.param = [@ EXCEPT ![k] = c],
                 !.socketTag = t,
                 !.next = (k + 1) % MaxSock,
                 !.mailbox = @ \o <<Message("create", k, t)>>
                               \o (IF k \in d.closing THEN << >>
                                   ELSE <<Message("connect", k, t)>>)]

(* net_lwip2_socket_disconnect, net_lwip2_socket_force_close: the slots of *)
(* S that are in use and not closing yet.                                  *)
Arranged(S) ==
    CHOOSE q \in [1 .. Cardinality(S) -> S] : \A i, j \in DOMAIN q : q[i] = q[j] => i = j

StartClose(d, S, op) ==
    LET q == Arranged(S \intersect (d.used \ d.closing)) IN
    [d EXCEPT !.closing = @ \union (S \intersect d.used),
              !.mailbox = @ \o [i \in DOMAIN q |-> Message(op, q[i], d.tag[q[i]])]]

-----------------------------------------------------------------------------
(* The tcpip thread (net_lwip2_task, and the callbacks of lwip).           *)

Idle == callback = None

(* net_lwip2_callback_to_nw_task; a slot without an owner tells nobody.    *)
Tell(ev, d, k) ==
    callback' = IF d.param[k] = None THEN None
                ELSE [ev |-> ev, to |-> {d.param[k]}, tag |-> d.tag[k],
                      ips |-> 0, passed |-> FALSE]

Taken == [prvlwip EXCEPT !.mailbox = Tail(@)]

Receive(op) ==
    /\ Idle
    /\ prvlwip.mailbox # << >>
    /\ Head(prvlwip.mailbox).op = op

Subject == Head(prvlwip.mailbox).slot

SetPcb(d, k, p) == [d EXCEPT !.pcb = [@ EXCEPT ![k] = p]]

(* mutant: tcp_error forgets that the connection is dead *)
Dead_Forgotten(d, k) == d
Dead(d, k) == [d EXCEPT !.remoteClose = @ \union {k}]

(* net_lwip2_create_socket_now: lwip may have no pcb left.                 *)
CreateNow ==
    /\ Receive("create")
    /\ \/ /\ prvlwip' = SetPcb(Taken, Subject, "new")
          /\ UNCHANGED callback
       \/ /\ prvlwip' = Dead(Taken, Subject)
          /\ Tell("ERROR", prvlwip, Subject)
    /\ UNCHANGED <<queries, lost>>

ConnectNow ==
    /\ Receive("connect")
    /\ \/ /\ prvlwip.pcb[Subject] = "none"
          /\ prvlwip' = Taken
          /\ Tell("ERROR", prvlwip, Subject)
       \/ /\ prvlwip.pcb[Subject] # "none"
          /\ prvlwip' = Dead(Taken, Subject)
          /\ Tell("ERROR", prvlwip, Subject)
       \/ /\ prvlwip.pcb[Subject] # "none"
          /\ prvlwip' = SetPcb(Taken, Subject, "syn")
          /\ UNCHANGED callback
    /\ UNCHANGED <<queries, lost>>

TxNow ==
    /\ Receive("tx")
    /\ prvlwip' = Taken
    /\ IF prvlwip.pcb[Subject] = "none"
       THEN Tell("ERROR", prvlwip, Subject)
       ELSE UNCHANGED callback
    /\ UNCHANGED <<queries, lost>>

(* net_lwip2_tcp_close_done                                                *)
(* mutant: remote_close is not reset *)
CloseDone_Stale(d, k) ==
    [d EXCEPT !.used = @ \ {k},
              !.closing = @ \ {k},
              !.pcb = [@ EXCEPT ![k] = "none"],
              !.param = [@ EXCEPT ![k] = None]]
CloseDone(d, k) ==
    [d EXCEPT !.used = @ \ {k},
              !.closing = @ \ {k},
              !.remoteClose = @ \ {k},
              !.pcb = [@ EXCEPT ![k] = "none"],
              !.param = [@ EXCEPT ![k] = None]]

CloseNow(op) ==
    /\ Receive(op)
    /\ \/ /\ Subject \in prvlwip.used
          /\ prvlwip.pcb[Subject] # "none" \/ Subject \in prvlwip.remoteClose
          /\ prvlwip' = CloseDone(Taken, Subject)
          /\ IF op = "disconnect" THEN Tell("CLOSE_OK", prvlwip, Subject)
             ELSE UNCHANGED callback
          /\ lost' = lost \ {Subject}
       \/ /\ \/ Subject \notin prvlwip.used
             \/ prvlwip.pcb[Subject] = "none" /\ Subject \notin prvlwip.remoteClose
          /\ prvlwip' = Taken
          /\ UNCHANGED <<callback, lost>>
    /\ UNCHANGED queries

DnsNow ==
    /\ Receive("dns")
    /\ prvlwip' = Taken
    /\ queries' = [queries EXCEPT ![Head(prvlwip.mailbox).ctrl] = @ + 1]
    /\ UNCHANGED <<callback, lost>>

Connected(k) ==
    /\ Idle /\ prvlwip.pcb[k] = "syn"
    /\ prvlwip' = SetPcb(prvlwip, k, "open")
    /\ Tell("CONNECT_OK", prvlwip, k)
    /\ UNCHANGED <<queries, lost>>

(* net_lwip2_tcp_err_cb: refused, reset or timed out.  A connection that   *)
(* ends after its slot is marked, and before its close is served, leaves   *)
(* nothing that CloseNow would take for a socket.                          *)
Err(k) ==
    LET d == SetPcb(prvlwip, k, "none") IN
    /\ Idle /\ prvlwip.pcb[k] \in {"syn", "open"}
    /\ \/ /\ k \in prvlwip.closing \union prvlwip.remoteClose
          /\ prvlwip' = d
          /\ lost' = lost \union ({k} \ prvlwip.remoteClose)
          /\ UNCHANGED callback
       \/ /\ k \notin prvlwip.closing \union prvlwip.remoteClose
          /\ prvlwip' = Dead(d, k)
          /\ Tell("ERROR", prvlwip, k)
          /\ UNCHANGED lost
    /\ UNCHANGED queries

(* net_lwip2_tcp_recv_cb, net_lwip2_tcp_sent_cb: the peer has closed, or   *)
(* nothing that was sent fits what is acknowledged.  With no memory for    *)
(* what came an error is told, and the connection goes on.                 *)
RemoteClose(k) ==
    /\ Idle /\ prvlwip.pcb[k] = "open" /\ k \notin prvlwip.remoteClose
    /\ prvlwip' = Dead(prvlwip, k)
    /\ \E ev \in {"REMOTE_CLOSE", "ERROR"} : Tell(ev, prvlwip, k)
    /\ UNCHANGED <<queries, lost>>

Data(k) ==
    /\ Idle /\ prvlwip.pcb[k] = "open"
    /\ \E ev \in {"RX_NEW", "TX_OK", "ERROR"} : Tell(ev, prvlwip, k)
    /\ UNCHANGED <<prvlwip, queries, lost>>

(* The answer of a query, or its failure: its owner is known, not its name *)
DnsAnswer(c) ==
    /\ Idle /\ queries[c] > 0
    /\ queries' = [queries EXCEPT ![c] = @ - 1]
    /\ \E n \in 0 .. MaxIps :
        callback' = [ev |-> "DNS_RESULT", to |-> {c}, tag |-> 0, ips |-> n, passed |-> FALSE]
    /\ UNCHANGED <<prvlwip, lost>>

-----------------------------------------------------------------------------
(* A message that acts on a socket acts on the one it was sent for, though *)
(* it carries no tag: the table gives a slot to the next socket only when  *)
(* no message for the last one is left, except for a second close of it,   *)
(* which finds nothing to close.  (net_lwip2.c:965-1350, 1831-1834)        *)
FindsNothing(i) ==
    LET q == prvlwip.mailbox
        k == q[i].slot
    IN /\ q[i].op \in CloseOp
       /\ prvlwip.pcb[k] = "none" /\ k \notin prvlwip.remoteClose
       /\ \A j \in 1 .. i - 1 : q[j].op = "create" => q[j].slot # k

MessagesMeetTheirSocket ==
    \A i \in DOMAIN prvlwip.mailbox :
        LET m == prvlwip.mailbox[i] IN
        m.op # "dns" => \/ m.slot \in prvlwip.used /\ prvlwip.tag[m.slot] = m.tag
                       \/ FindsNothing(i)
=============================================================================
