----------------------------- MODULE NetSocket ------------------------------
(***************************************************************************)
(* The network adapter (luat_network_adapter.c) and the socket library on  *)
(* top of it, over the sockets of LwipSockets.  A network_ctrl_t has the   *)
(* state of one connection and what is waited for.  The Lua thread calls   *)
(* connect, discon, close, tx, rx and wait; the state machine runs in the  *)
(* tcpip thread, on what LwipSockets tells it, and both hold the lock of   *)
(* the network_ctrl_t while they do, socket.close excepted.                *)
(*                                                                         *)
(* socket.close goes step by step, and the tcpip thread may run between    *)
(* any two of them; a handler of the state machine is one step.            *)
(*                                                                         *)
(* TCP clients without TLS, and scripts that do not wait inside the calls. *)
(* What the state machine reports to the script is not modelled: a result  *)
(* is reported when wait becomes "NONE".                                   *)
(***************************************************************************)
EXTENDS LwipSockets

CONSTANTS
    MaxCalls,   \* bound: calls of connect and tx
    MaxLinks    \* bound: how often the link goes up or down

(* A socket.close on its way: the slot that it tested, and its next step.  *)
Half == [ctrl : Ctrl, slot : Slot \union {-1}, step : {"mark", "send", "end"}]

ASSUME NetAssumption == MaxCalls \in Nat /\ MaxLinks \in Nat /\ None \notin Half

VARIABLES
    ctl,        \* the network_ctrl_t's
    link,       \* the network is ready
    half,       \* what socket.close is busy with
    calls, links

sockVars == <<prvlwip, callback, queries, lost>>
vars == <<sockVars, ctl, link, half, calls, links>>

State == {"LINK_OFF", "OFF_LINE", "WAIT_DNS", "CONNECTING", "ONLINE", "DISCONNECTING"}
Wait == {"NONE", "LINK_UP", "ON_LINE", "TX_OK", "OFF_LINE", "EVENT"}

Init ==
    /\ SocketInit
    /\ ctl = [c \in Ctrl |-> [state |-> "LINK_OFF", wait |-> "NONE", socketId |-> -1, tag |-> 0,
                              needClose |-> FALSE, newRx |-> FALSE, byName |-> FALSE,
                              nums |-> 0, cnt |-> 0]]
    /\ link \in BOOLEAN
    /\ half = None
    /\ calls = 0
    /\ links = 0

-----------------------------------------------------------------------------
(* What the calls and the state machine do to the sockets and to the       *)
(* network_ctrl_t's; w has both, and the result.                           *)

World == [drv |-> prvlwip, ctl |-> ctl, ok |-> TRUE]

Becomes(w) == prvlwip' = w.drv /\ ctl' = w.ctl

With(w, c, r) == [w EXCEPT !.ctl = [@ EXCEPT ![c] = r]]

(* network_clean_invaild_socket, net_lwip2_socket_clean.  Slot 0 is never  *)
(* in the list of the sockets to keep.                                     *)
Clean(w) ==
    LET valid == {c \in Ctrl : CheckSocket(w.drv, w.ctl[c].socketId, w.ctl[c].tag)}
        keep == {w.ctl[c].socketId : c \in valid} \ {0}
    IN [w EXCEPT !.drv = StartClose(@, Slot \ keep, "close"),
                 !.ctl = [c \in Ctrl |-> IF c \in valid THEN @[c]
                                         ELSE [@[c] EXCEPT !.socketId = -1]]]

(* network_socket_close, then network_socket_force_close if it fails: the  *)
(* slot belongs to another socket by now.                                  *)
Released(w, c) ==
    LET r == w.ctl[c] IN
    IF r.socketId < 0 THEN w
    ELSE IF w.drv.tag[r.socketId] = r.tag
    THEN [w EXCEPT !.drv = StartClose(@, {r.socketId}, "close")]
    ELSE Clean(w)

(* The rest of network_force_close_socket.                                 *)
Forgotten(w, c) ==
    With(w, c, [w.ctl[c] EXCEPT !.needClose = FALSE, !.socketId = -1, !.newRx = FALSE,
                                !.cnt = 0, !.nums = 0, !.wait = "NONE"])

ForceClose(w, c) == Forgotten(Released(w, c), c)

(* network_create_socket and network_socket_connect.  When no slot is free *)
(* the code cleans up and tries once more: that the tcpip thread has freed *)
(* one by then is left to the next connect.                                *)
Created(w, c) ==
    IF Free(w.drv) # {}
    THEN LET k == GenNextSocketId(w.drv)
             d == Open(w.drv, c)
             dials == k \notin d.closing
         IN
         With([w EXCEPT !.drv = d, !.ok = dials], c,
              [w.ctl[c] EXCEPT !.socketId = IF dials THEN k ELSE -1, !.tag = d.socketTag])
    ELSE [Clean(With(w, c, [w.ctl[c] EXCEPT !.socketId = -1, !.tag = 0])) EXCEPT !.ok = FALSE]

(* network_base_connect                                                    *)
(* mutant: the next address is tried on a socket of its own *)
BaseConnect_Leaks(w, c) == Created(With(w, c, [w.ctl[c] EXCEPT !.socketId = -1]), c)
BaseConnect(w, c) ==
    LET v == Released(w, c)
        r == IF w.ctl[c].socketId < 0 THEN w.ctl[c]
             ELSE [w.ctl[c] EXCEPT !.needClose = FALSE, !.socketId = -1]
    IN Created(With(v, c, r), c)

Dialled(w, c) ==
    LET v == BaseConnect(w, c) IN
    IF v.ok THEN With(v, c, [v.ctl[c] EXCEPT !.state = "CONNECTING"]) ELSE v

(* network_prepare_connect                                                 *)
Prepare(w, c) ==
    IF w.ctl[c].byName
    THEN With([w EXCEPT !.drv = Send(@, Query(c))], c, [w.ctl[c] EXCEPT !.state = "WAIT_DNS"])
    ELSE Dialled(w, c)

-----------------------------------------------------------------------------
(* The Lua thread                                                          *)

Lua == half = None /\ UNCHANGED <<callback, queries, link, links>>

Update(c, r) == ctl' = [ctl EXCEPT ![c] = r]

(* network_wait_link_up                                                    *)
LinkUp(c) ==
    /\ Lua
    /\ Update(c, IF link THEN [ctl[c] EXCEPT !.state = "OFF_LINE", !.wait = "NONE"]
                 ELSE [ctl[c] EXCEPT !.state = "LINK_OFF", !.wait = "LINK_UP"])
    /\ UNCHANGED <<prvlwip, lost, half, calls>>

(* network_connect                                                         *)
Connect(c, byName) ==
    LET w == With(World, c, [ctl[c] EXCEPT !.needClose = FALSE, !.byName = byName,
                                           !.wait = "ON_LINE"])
        v == Prepare(w, c)
    IN
    /\ Lua
    /\ ctl[c].socketId < 0
    /\ calls < MaxCalls
    /\ calls' = calls + 1
    /\ \/ ~link /\ Becomes(With(w, c, [w.ctl[c] EXCEPT !.state = "LINK_OFF"]))
       \/ link /\ v.ok /\ Becomes(v)
       \/ link /\ ~v.ok /\ Becomes(With(v, c, [v.ctl[c] EXCEPT !.state = "OFF_LINE",
                                                               !.wait = "NONE"]))
    /\ UNCHANGED <<lost, half>>

(* network_close                                                           *)
Discon(c) ==
    LET w == With(World, c, [ctl[c] EXCEPT !.needClose = FALSE, !.newRx = FALSE])
        k == ctl[c].socketId
        off == ForceClose(w, c)
    IN
    /\ Lua
    /\ \/ /\ k < 0
          /\ Becomes(With(w, c, [w.ctl[c] EXCEPT !.state = "OFF_LINE", !.wait = "NONE"]))
       \/ /\ k >= 0
          /\ ctl[c].state = "ONLINE" /\ CheckSocket(prvlwip, k, ctl[c].tag)
          /\ prvlwip' = StartClose(prvlwip, {k}, "disconnect")
          /\ Update(c, [w.ctl[c] EXCEPT !.state = "DISCONNECTING", !.wait = "OFF_LINE"])
       \/ /\ k >= 0
          /\ ctl[c].state # "ONLINE" \/ ~CheckSocket(prvlwip, k, ctl[c].tag)
          /\ Becomes(With(off, c, [off.ctl[c] EXCEPT !.state = "OFF_LINE"]))
    /\ UNCHANGED <<lost, half, calls>>

(* l_socket_close, which takes no lock: it tests the slot, marks it, sends *)
(* the close and forgets the socket that the network_ctrl_t has by then.   *)
(* When it comes to the mark the slot may be free, or that of another      *)
(* socket; a mark on a free slot stays.  A slot that the network_ctrl_t    *)
(* holds has its tag.                                                      *)
CloseStart(c) ==
    LET k == ctl[c].socketId IN
    /\ Lua
    /\ half' = [ctrl |-> c, slot |-> k,
                step |-> IF CheckSocket(prvlwip, k, ctl[c].tag) THEN "mark" ELSE "end"]
    /\ UNCHANGED <<prvlwip, ctl, lost, calls>>

Closing(step) ==
    /\ half # None /\ half.step = step
    /\ UNCHANGED <<callback, queries, link, calls, links>>

CloseMark ==
    /\ Closing("mark")
    /\ prvlwip' = [prvlwip EXCEPT !.closing = @ \union {half.slot}]
    /\ lost' = lost \union ({half.slot} \ prvlwip.used)
    /\ half' = [half EXCEPT !.step = "send"]
    /\ UNCHANGED ctl

CloseSend ==
    /\ Closing("send")
    /\ prvlwip' = Send(prvlwip, Message("close", half.slot, prvlwip.tag[half.slot]))
    /\ half' = [half EXCEPT !.step = "end"]
    /\ UNCHANGED <<ctl, lost>>

CloseEnd ==
    LET r == ctl[half.ctrl] IN
    /\ Closing("end")
    /\ Becomes(Forgotten(World, half.ctrl))
    /\ lost' = lost \union (IF CheckSocket(prvlwip, r.socketId, r.tag) THEN {r.socketId} ELSE {})
    /\ half' = None

IsOnline(c) == ctl[c].state = "ONLINE" /\ ctl[c].socketId >= 0

(* network_tx, network_base_tx                                             *)
Tx(c) ==
    LET k == ctl[c].socketId IN
    /\ Lua
    /\ IsOnline(c) /\ ~ctl[c].needClose
    /\ calls < MaxCalls
    /\ calls' = calls + 1
    /\ \/ /\ CheckSocket(prvlwip, k, ctl[c].tag)
          /\ prvlwip' = Send(prvlwip, Message("tx", k, ctl[c].tag))
          /\ Update(c, [ctl[c] EXCEPT !.wait = "TX_OK"])
       \/ /\ ~CheckSocket(prvlwip, k, ctl[c].tag)
          /\ Update(c, [ctl[c] EXCEPT !.needClose = TRUE])
          /\ UNCHANGED prvlwip
    /\ UNCHANGED <<lost, half>>

(* network_rx                                                              *)
Rx(c) ==
    /\ Lua
    /\ IsOnline(c) /\ ctl[c].newRx
    /\ Update(c, [ctl[c] EXCEPT !.newRx = FALSE])
    /\ UNCHANGED <<prvlwip, lost, half, calls>>

(* network_wait_event                                                      *)
WaitEvent(c) ==
    /\ Lua
    /\ ctl[c].newRx \/ (IsOnline(c) /\ ~ctl[c].needClose)
    /\ Update(c, [ctl[c] EXCEPT !.wait = "EVENT"])
    /\ UNCHANGED <<prvlwip, lost, half, calls>>

LuaStep ==
    \/ \E c \in Ctrl :
        \/ LinkUp(c) \/ Discon(c) \/ CloseStart(c) \/ Tx(c) \/ Rx(c) \/ WaitEvent(c)
        \/ \E byName \in BOOLEAN : Connect(c, byName)
    \/ CloseMark \/ CloseSend \/ CloseEnd

-----------------------------------------------------------------------------
(* The tcpip thread: network_default_socket_callback and the state machine *)

(* net_lwip2_check_network_ready                                           *)
LinkChanges ==
    /\ Idle
    /\ links < MaxLinks
    /\ links' = links + 1
    /\ link' = ~link
    /\ callback' = [ev |-> IF link THEN "STATE_DOWN" ELSE "STATE_UP", to |-> Ctrl, tag |-> 0,
                    ips |-> 0, passed |-> FALSE]
    /\ UNCHANGED <<prvlwip, queries, lost, ctl, half, calls>>

Told(c) == callback # None /\ c \in callback.to

IsState == callback.ev \in {"STATE_UP", "STATE_DOWN"}

Meant(c) ==
    IF callback.ev = "DNS_RESULT" THEN ctl[c].wait = "ON_LINE" ELSE ctl[c].tag = callback.tag

(* The event is meant for the network_ctrl_t as it is now: the lock is     *)
(* taken later, in network_default_statemachine.                           *)
CheckTag(c) ==
    /\ Told(c) /\ ~IsState /\ ~callback.passed
    /\ callback' = IF Meant(c) THEN [callback EXCEPT !.passed = TRUE] ELSE None
    /\ UNCHANGED <<prvlwip, queries, lost, ctl, link, half, calls, links>>

(* network_default_statemachine: in this state the event has that effect   *)
(* on the sockets and that result.  Unless the result is positive, what    *)
(* was waited for has ended, and is reported.                              *)
Machine(c, state, w, result) ==
    /\ Told(c) /\ (IsState \/ callback.passed)
    /\ ctl[c].state = state
    /\ Becomes(IF result > 0 THEN w ELSE With(w, c, [w.ctl[c] EXCEPT !.wait = "NONE"]))
    /\ callback' = IF callback.to = {c} THEN None ELSE [callback EXCEPT !.to = @ \ {c}]
    /\ UNCHANGED <<queries, lost, link, half, calls, links>>

Moved(c, state) == With(World, c, [ctl[c] EXCEPT !.state = state])

(* network_state_link_off, network_state_off_line                          *)
LinkOff(c) ==
    LET up == Moved(c, "OFF_LINE") IN
    /\ Told(c)
    /\ \/ /\ callback.ev = "STATE_UP" /\ ctl[c].wait = "ON_LINE"
          /\ Machine(c, "LINK_OFF", Prepare(up, c), IF Prepare(up, c).ok THEN 1 ELSE -1)
       \/ /\ callback.ev = "STATE_UP" /\ ctl[c].wait # "ON_LINE"
          /\ Machine(c, "LINK_OFF", up, IF ctl[c].wait = "LINK_UP" THEN 0 ELSE 1)
       \/ /\ callback.ev # "STATE_UP"
          /\ Machine(c, "LINK_OFF", World, 1)

OffLine(c) == Machine(c, "OFF_LINE", World, 1)

GivenUp(c) == ctl[c].needClose \/ ctl[c].wait # "ON_LINE"

(* network_state_wait_dns; the link coming up ends the wait too, and with  *)
(* no port the answer is all that was wanted.                              *)
WaitDns(c) ==
    LET w == With(World, c, [ctl[c] EXCEPT !.nums = callback.ips, !.cnt = 0])
        v == Dialled(w, c)
    IN
    /\ Told(c)
    /\ \/ /\ ~GivenUp(c) /\ callback.ev = "DNS_RESULT" /\ callback.ips > 0
          /\ \/ Machine(c, "WAIT_DNS", v, IF v.ok THEN 1 ELSE -1)
             \/ Machine(c, "WAIT_DNS", With(w, c, [w.ctl[c] EXCEPT !.state = "OFF_LINE"]), 0)
       \/ /\ GivenUp(c) \/ IsState \/ callback.ev = "ERROR"
             \/ (callback.ev = "DNS_RESULT" /\ callback.ips = 0)
          /\ Machine(c, "WAIT_DNS", World, -1)
       \/ /\ ~GivenUp(c) /\ ~IsState /\ callback.ev \notin {"ERROR", "DNS_RESULT"}
          /\ Machine(c, "WAIT_DNS", World, 1)

(* mutants: a close by the peer, or an error, is not looked at *)
Ended_NotRemote == callback.ev \in {"ERROR", "CLOSE_OK"}
Ended_NotError == callback.ev \in {"REMOTE_CLOSE", "CLOSE_OK"}
Ended == callback.ev \in {"ERROR", "REMOTE_CLOSE", "CLOSE_OK"}

(* network_state_connecting: an address after the other is tried.          *)
Connecting(c) ==
    LET r == [ctl[c] EXCEPT !.cnt = @ + 1]
        w == With(World, c, r)
        v == Dialled(w, c)
    IN
    /\ Told(c)
    /\ \/ /\ ~GivenUp(c) /\ Ended /\ ctl[c].byName /\ r.cnt < r.nums
          /\ Machine(c, "CONNECTING", v, IF v.ok THEN 1 ELSE -1)
       \/ /\ ~GivenUp(c) /\ Ended /\ ctl[c].byName /\ r.cnt >= r.nums
          /\ Machine(c, "CONNECTING", w, -1)
       \/ /\ GivenUp(c) \/ IsState \/ (Ended /\ ~ctl[c].byName)
          /\ Machine(c, "CONNECTING", World, -1)
       \/ /\ ~GivenUp(c) /\ callback.ev = "CONNECT_OK"
          /\ Machine(c, "CONNECTING", Moved(c, "ONLINE"), 0)
       \/ /\ ~GivenUp(c) /\ ~IsState /\ ~Ended /\ callback.ev # "CONNECT_OK"
          /\ Machine(c, "CONNECTING", World, 1)

(* network_state_on_line; whether all that was sent is acknowledged is     *)
(* not modelled.                                                           *)
OnLine(c) ==
    LET closing == ctl[c].needClose \/ ctl[c].wait = "OFF_LINE"
        dead == With(World, c, [ctl[c] EXCEPT !.needClose = TRUE])
        fresh == With(World, c, [ctl[c] EXCEPT !.newRx = TRUE])
    IN
    /\ Told(c)
    /\ \/ closing /\ Machine(c, "ONLINE", World, -1)
       \/ /\ ~closing /\ (Ended \/ callback.ev = "STATE_DOWN")
          /\ Machine(c, "ONLINE", dead, -1)
       \/ /\ ~closing /\ callback.ev = "TX_OK" /\ ctl[c].wait = "TX_OK"
          /\ Machine(c, "ONLINE", World, 0)
       \/ /\ ~closing /\ ~Ended /\ callback.ev \notin {"STATE_DOWN", "RX_NEW"}
          /\ Machine(c, "ONLINE", World, 1)
       \/ /\ ~closing /\ callback.ev = "RX_NEW"
          /\ Machine(c, "ONLINE", fresh, IF ctl[c].wait = "TX_OK" THEN 1 ELSE 0)

(* network_state_disconnecting                                             *)
Disconnecting(c) ==
    LET w == ForceClose(World, c)
        off == With(w, c, [w.ctl[c] EXCEPT !.state = "OFF_LINE"])
        wanted == ctl[c].wait = "OFF_LINE"
    IN
    /\ Told(c)
    /\ \/ /\ wanted /\ (Ended \/ callback.ev = "STATE_UP")
          /\ Machine(c, "DISCONNECTING", off, IF Ended THEN 0 ELSE -1)
       \/ /\ ~wanted \/ callback.ev = "STATE_DOWN"
          /\ Machine(c, "DISCONNECTING", World, -1)
       \/ /\ wanted /\ ~Ended /\ ~IsState
          /\ Machine(c, "DISCONNECTING", World, 1)

Handle(c) ==
    \/ CheckTag(c)
    \/ LinkOff(c) \/ OffLine(c) \/ WaitDns(c) \/ Connecting(c) \/ OnLine(c) \/ Disconnecting(c)

Mailbox == CreateNow \/ ConnectNow \/ TxNow \/ DnsNow \/ \E op \in CloseOp : CloseNow(op)

Lwip ==
    \/ Mailbox
    \/ \E k \in Slot : Connected(k) \/ Err(k) \/ RemoteClose(k) \/ Data(k)
    \/ \E c \in Ctrl : DnsAnswer(c)

Next ==
    \/ LuaStep
    \/ LinkChanges
    \/ \E c \in Ctrl : Handle(c)
    \/ Lwip /\ UNCHANGED <<ctl, link, half, calls, links>>

(* The tcpip thread serves its mailbox in order; lwip gives up on a        *)
(* connection, and the DNS client on a query, after some tries; the Lua    *)
(* thread leaves socket.close.                                             *)
Fairness ==
    LET Rest == UNCHANGED <<ctl, link, half, calls, links>> IN
    /\ WF_vars(\E c \in Ctrl : Handle(c))
    /\ WF_vars(CloseMark \/ CloseSend \/ CloseEnd)
    /\ SF_vars(Mailbox /\ Rest)
    /\ \A k \in Slot : SF_vars(prvlwip.pcb[k] = "syn" /\ (Connected(k) \/ Err(k)) /\ Rest)
    /\ \A c \in Ctrl : SF_vars(DnsAnswer(c) /\ Rest)

Spec == Init /\ [][Next]_vars

FairSpec == Spec /\ Fairness

-----------------------------------------------------------------------------
Mine(c, k) == ctl[c].socketId = k /\ ctl[c].tag = prvlwip.tag[k]

(* Every slot in use comes back: it belongs to a connection, or is being   *)
(* closed, or is one of those known to be lost.                            *)
(* (luat_network_adapter.c:427-446, net_lwip2.c:1662-1687, 1826-1853)      *)
SlotsComeBack ==
    \A k \in prvlwip.used :
        \/ k \in lost
        \/ \E c \in Ctrl : Mine(c, k)
        \/ \E i \in DOMAIN prvlwip.mailbox : prvlwip.mailbox[i].op \in CloseOp
                                            /\ prvlwip.mailbox[i].slot = k
        \/ half # None /\ half.step = "send" /\ half.slot = k

Telling(c) == Told(c) /\ ~IsState /\ callback.ev # "DNS_RESULT"

Busy(c) == half # None /\ half.ctrl = c

EndIsReported(c) ==
    LET k == ctl[c].socketId IN
    IsOnline(c) /\ ~ctl[c].needClose /\ ~Busy(c) =>
        /\ CheckSocket(prvlwip, k, ctl[c].tag)
        /\ \/ Telling(c)
           \/ k \notin prvlwip.remoteClose /\ prvlwip.pcb[k] # "none"
           \/ \E i \in DOMAIN prvlwip.mailbox : prvlwip.mailbox[i].op = "create"
                                               /\ prvlwip.mailbox[i].slot = k

(* The script learns of the end of a connection: while it is on line and   *)
(* not to be closed, its socket lives, or its end is being told.           *)
(* (luat_network_adapter.c:865-886, 1121, net_lwip2.c:289-293, 394-406)    *)
DeathIsReported == \A c \in Ctrl : EndIsReported(c)

(* socket.discon ends, unless its slot is lost.                            *)
(* (luat_network_adapter.c:998-1031, net_lwip2.c:1289-1345)                *)
DisconEnds ==
    \A c \in Ctrl : ctl[c].wait = "OFF_LINE" ~> ctl[c].wait # "OFF_LINE" \/ ctl[c].socketId \in lost

(* socket.connect ends, with a connection or without, unless the network   *)
(* is down.  (luat_network_adapter.c:541-786)                              *)
ConnectEnds == \A c \in Ctrl : ctl[c].wait = "ON_LINE" ~> ctl[c].wait # "ON_LINE" \/ ~link
=============================================================================
