# TLA+ models of LuatOS

Specifications of the parts of LuatOS in which order, failure and time matter:

- the Lua scheduler, with the timers and the message bus below it, and directed
  messages between tasks;
- the two threads of the timer engine of the PC port;
- the flash file system pgfs: its checkpoint store, its data log and the
  recovery of both at a mount;
- the remote calls of airlink, those that suspend a coroutine and those that
  block a thread;
- sockets: the network adapter over the lwip adapter.

TLC checks them on small instances, TLAPS proves the most important invariants
for all values of the constants.

To repeat a check: `tlc -config SchedPc.cfg MCSched`; to repeat a proof:
`tlapm LuaSchedProofs.tla`.  `PROJECT.json` lists the runs, the source lines of
every definition ("map"), the hazards with the properties that cover them, and
for each property a mutant of the model that breaks it.

Where the sources are:

| Files | Directory |
|---|---|
| `sys.lua` | `src/script/corelib` |
| `luat_lib_rtos.c`, other `luat_lib_*` of the base | `src/luat/modules` |
| `luat_timer_freertos.c`, `luat_msgbus_freertos.c` | `src/luat/freertos` |
| `luat_timer_pc.c`, `luat_msgbus_pc.c` | `src/bsp/pc/port/rtos` |
| `luat_timer_engine.c` | `src/bsp/pc/port/posix` |
| `pgfs_*` | `src/components/pgfs` |
| `luat_airlink*` | `src/components/airlink/src` |
| `luat_network_adapter.c`, `luat_lib_socket.c` | `src/components/network/adapter` |
| `net_lwip2.c` | `src/components/network/adapter_lwip2` |

## 1. Inventory

### The system

A LuatOS firmware runs one Lua virtual machine in one RTOS task.  `main.lua`
starts tasks (coroutines), subscribes callbacks, starts timers and calls
`sys.run`, which never returns.  Everything else -- hardware timers, drivers,
the network stack, the airlink to a second chip -- runs in other threads and
reaches Lua only through the message bus, a bounded queue of the RTOS that
`rtos.receive` reads.

```
   scripts, libraries ------ sys.wait, publish, timers, sendMsg
          |         \                        |
          |          socket.connect, tx...   |
          |              \            LuaTask scheduler (sys.lua: run, dispatch, safeRun)
          |               \                  | rtos.timer_start/stop   ^ rtos.receive
          |                \                 |                         |
          |          network adapter   luat_lib_rtos.c -> timers --> message bus
          |             |      ^             (engine thread)           ^
          |             v      | callback                              |
          |          lwip adapter, tcpip thread      airlink (answers and time-outs
          |                                          of RPCs), drivers -+
   file API -- vfs -- pgfs (log, file table, GC, checkpoint, FTL) -- flash
```

### The components

| Component | State | Operations | What is hard | What makes it correct |
|---|---|---|---|---|
| LuaTask scheduler (`sys.lua`) | timer pool, arguments, subscribers, queue of published messages, waits of the coroutines | `timerStart/Stop/StopAll`, `publish`, `subscribe`, `wait`, `waitUntil`, `taskInit`, `coresume`, `run` | callbacks and tasks change the tables while `dispatch` and `safeRun` walk them; a wait may end by message, timer, script or error; ids are used again | no task sleeps for ever, none is woken out of a wait it is not in, the tables agree with each other and with the C timers |
| rtos timers and message bus (`luat_lib_rtos.c`, `luat_timer_*`, `luat_msgbus_*`) | timer table, queue of 256 messages (FreeRTOS) or unbounded (PC) | start, stop, expiry, put, receive | the expiry is already on the bus when the timer is stopped; stale pointers; a full bus | each expiry reaches the wait it belongs to or no one |
| PC timer engine (`luat_timer_engine.c`, `luat_timer_pc.c`) | a table of slots, a table of timers, a lock each | start, stop, expire, call back, handle the message | a callback runs without the slots' lock while the timer is stopped, freed and its memory used again | no lock cycle; the tables agree; no slot is started that is gone; a one-shot ends |
| directed messages (`sys.lua`: `taskInitEx`, `sendMsg`, `waitMsg`) | a queue, a time-out flag and a timer per named task | send, wait, clean, delete | the wake-up is a publication of the task's name, counted nowhere; a message races the time-out | a queued message has a wake-up to come; what is taken and wanted is returned |
| pgfs checkpoint (`pgfs_checkpoint.c`) | two slots of two flash blocks, the checkpoint in RAM | load, commit | a power cut or an error at any of six flash operations | the checkpoint in use can always be found again; a commit is atomic |
| pgfs log and recovery (`pgfs_core.c`, `pgfs_vfs_adapter.c`, `pgfs_nand_ftl.c`, `pgfs_ftl_integration.c`) | append-only log, file table, write head in RAM and in flash, count of closes without a checkpoint | `fclose`, `fflush`, batch commit, `umount`, mount with replay | where replay stops; a head stored in a block that is erased first; records of an operation that was cut | what `fclose` acknowledged, and what a checkpoint covers, survives; a batch is atomic; an append touches nothing that a mount would read |
| pgfs allocation and GC (`pgfs_alloc_gc.c`) | block states, victims, wear | pick a victim, move, erase, wrap round | a collection cut short; the log meeting its own tail | live records are never erased |
| airlink RPC (`luat_airlink_rpc.c`, the result table of `luat_airlink.c`) | a counted context per call, a table of 64 slots, a timer or a semaphore per call | call (suspending or blocking), answer, time-out | three threads share the context, two of them count without a lock; answer and time-out cross | the context is there until its last use; a coroutine is resumed once; every call returns |
| airlink link (`luat_airlink.c`) | send queues, sequence numbers, link state | send, receive, retry | a lossy link between two chips that restart independently | commands arrive once and in order, or are reported |
| network adapter (`luat_network_adapter.c`, `luat_lib_socket.c`) | per connection: state, what is waited for, slot and tag, the addresses of its name | connect, discon, close, tx, rx, wait; six states that handle what the tcpip thread tells | two threads; events of an earlier connection; the link or the peer going away in any state; an address after the other is tried | an end is told, every wait ends, no slot stays behind |
| lwip adapter (`net_lwip2.c`) | a table of slots with a tag each, the mailbox of the tcpip thread, lwip's connections | open, connect, send, close; callbacks of lwip | slots are used again while messages without a tag are on their way; lwip ends a connection while it is being closed | a message meets the socket it was sent for; a slot comes back |
| MQTT, HTTP, FTP, WebSocket, SNTP clients | protocol state over a socket | connect, publish, keep alive, reconnect | retries crossing late answers | one connection at a time, acknowledged messages are delivered |
| CMUX, Y-modem | frame and channel states | open, send, receive, abort | retries and resynchronisation | a transfer ends complete or reported |
| file systems, bindings, drivers, UI, codecs, vendored libraries | | | sequential, closed source, hardware or third party | see section 8 |

How they interact: the scheduler calls the timers directly and hears of them by
message; `waitMsg` is built on publish and timers; RPC answers and time-outs
come over the same bus and resume coroutines behind the scheduler's back; both
kinds of RPC share the slots for answers, the airlink task and the Lua task; the
pgfs log relies on the checkpoint for where replay starts; the network adapter
sends the lwip adapter messages and is called back, in the tcpip thread.

`PROJECT.json` "hazards" lists what is hard to test, each at its line, with the
properties that would notice.

## 2. Modules

| Module | Models | Kind |
|---|---|---|
| `LuaSched` | `sys.lua` (timers, publish/subscribe, waits, errors, run) on both ports' timers and message bus | component |
| `LuaSchedFair` | the same with scripts that make a bounded number of calls between two messages, and fairness | liveness |
| `LuaSchedProofs` | type invariant, subscriptions, the snapshot of dispatch | proofs |
| `LuaTimerProofs` | waits and their timers: ownership, early wakes, lost sleepers, residue; timers of callbacks and their arguments | proofs |
| `TimerEngine`, `TimerEngineProofs` | engine thread and Lua thread of the PC port | component, proofs |
| `TaskMsg`, `TaskMsgFair`, `TaskMsgProofs` | directed messages | component, liveness, proofs |
| `AtomicCheckpoint` | what a checkpoint store promises | abstract |
| `PgfsCheckpoint`, `PgfsCheckpointProofs` | the two-slot store; implements `AtomicCheckpoint` | component, refinement, proofs |
| `PgfsLog`, `PgfsLogProofs` | the data log, its stored heads and the replay | component, proofs |
| `RpcYield` | the RPC that suspends its coroutine | component |
| `AirlinkRpc`, `AirlinkRpcProofs` | blocking calls, composed with `RpcYield`, which it implements; the proofs are about both kinds | composition, proofs |
| `LwipSockets` | slots, mailbox and callbacks of the lwip adapter | component |
| `NetSocket`, `NetSocketProofs` | the network adapter and the socket library on top of `LwipSockets` | composition, proofs |
| `MCSched`, `MCSchedFair`, `MCTaskMsg`, `MCPgfsLog`, `MCTimerEngine` | definitions and symmetry for TLC | model checking |

### 2.1 LuaSched

Two kinds of actors interleave: the Lua thread, which runs one thing at a time,
and the timer thread and drivers, which put messages on `bus` at any moment.

| Variable | In the code |
|---|---|
| `taskTimerId`, `msgId` | the counters of `sys.lua:39-43` |
| `timerPool`, `para` | the tables of the same names; one entry per id |
| `timer[id]` | the `luat_timer_t` of that id: idle, running, or expired with its message on the way, and its repeats |
| `bus` | the rtos message queue |
| `subscribers`, `messageQueue` | the tables of the same names |
| `tmpt`, `message` | the snapshot of `dispatch` (`sys.lua:541`) and its message |
| `stack` | what the Lua thread executes; empty in `sys.run` |
| `co[t]` | a coroutine: dead, running or waiting, with the timer and message of its wait; one that has died in a wait keeps the message |
| `vm` | up, failed while the wrapper handles an error, or exit when one has left `sys.run` |

Actions are named for the functions (`TimerAdvStart`, `TimerStop`, `Publish`,
`Subscribe`, `Wait`, `WaitForever`, `TaskInit`, `DispatchTask`,
`ReceiveTaskTimer`, ...).  Between two of them any script does anything:
whatever is on the top of `stack` may make any call, with any callback, message
or argument, return, fail or yield, so the model contains every script that
uses the API.  `MayResume` adds the scripts that resume a waiting task
themselves with `sys.coresume`, as `script/libs/rfa.lua` does.  Times are not
modelled: a running timer may expire at any moment, so every order of expiries,
calls and messages is explored.

`Port` selects between the FreeRTOS and the PC port where they differ: the
bound of the bus, the pointer that travels with a message, and the repeat
count.  `MayFail` lets `rtos.timer_start` refuse (`WaitRefused`, and a start of
a callback's timer) or raise on a timeout that is no integer
(`luat_lib_rtos.c:143`): in `waitUntil` the task is then dead with its pool entry
and its subscription in place (`WaitRaises`, after which the wrapper runs,
`WaitRaised`); in `sys.wait` and `timerStart` this is a refusal followed by an
error.  `ErrPolicy` selects what a failing coroutine does
(`COROUTINE_ERROR_ROLL_BACK`, `..._RESTART`, or only a log entry).

### 2.2 TaskMsg

One named task, its queue and `waitMsg`, at the grain of the places where it
can be interrupted.  Of the published messages only the numbers are kept --
those with the task's name (`named`) and others -- and which comes first is
left open, so every order is covered.  `pc` says where the task is, `inLoop`
that `waitMsg` has subscribed, `timer` and `To` are the time-out.  The start of
the timer may be refused, which `waitMsg` does not look at (`Rearmed`), and its
expiry may find the bus full (`Expire`): the timer is then `"dead"`, and only a
message ends the wait.  The callback
for unwanted messages may itself wait (`CbWaits`), the task may fail anywhere
(`TaskFails`).

### 2.3 PgfsCheckpoint and AtomicCheckpoint

Two slots, A for odd and B for even numbers, each of a checkpoint block and a
superblock.  `EraseCp`, `EraseSb`, `WriteCp`, `WriteSb` are the flash
operations of `pgfs_checkpoint_store_next` in their order; each may fail with
or without having done its work, and `PowerCut` may come between any two (a cut
in the middle of one is the failing operation followed by `PowerCut`).
`MountLoads` is `pgfs_checkpoint_load`: the newer superblock whose checkpoint
is valid, else the other.  `MountRebuilds` formats; it counts from 1, as a load
fails only while no superblock is valid, and leaves the number in RAM at 0 then
(TLC finds no other state, with `OneBlock` or without).  `OneBlock` is flash whose
erase unit contains all four regions: their addresses are constants 4 KiB apart
(`pgfs_internal.h:21-24`).

`AtomicCheckpoint` has no flash: a checkpoint is tried, then reported, or a
failure settles on the committed one or one of those tried since.
`CommitIsAtomic` is `AtomicCheckpoint!Spec` under the mapping `Committed`: the
checkpoint in RAM while mounted, otherwise the one a mount would find.

### 2.4 RpcYield

`luat_airlink_rpc_nb_call_yield` gives the context of a call three references:
of the coroutine, of the slot of the answer, of the timer.  Only the Lua task
releases them.  The airlink task takes the slot (`TakeAnswer`), looks at
`timed_out` (`CopyAnswer`, `DropAnswer`) and puts a message (`PutAnswer`); the
timer task fires (`Fire`) and puts one (`PutTimeout`); the Lua task handles
whichever comes first (`HandleAnswer`, `HandleTimeout`) and then only releases
for the other (`LateMessage`).  `refcnt`, `handled`, `timedOut` are the fields
of the context.  `lost` is a history variable: references whose message found
the bus full, or whose answer was dropped.  `rpc_sync_ctx_release` is
translated without its test for 0 (line 131): a context at 0 has been freed, so
reading its count is already the error that `NoUseAfterFree` looks for, and a
count below 0 makes it visible.  A freed context is used again by a later
call, as the heap would.

In every port `luat_rtos_timer_stop` returns 0, whether the timer is armed or
has fired, so the handler of the answer always releases the reference of the
timer (`StopReleases`, `StopTimer`).  When the time-out is still to come, or when
the coroutine raises (`ResumeReleases`), one reference more is released than
there is (`Overdraw`); the context then stays in the history `overdrawn`, and so
does whatever call has its memory later.  `NeverOverdrawn` claims that this goes
well and is the finding; the other properties speak of the calls that are not
overdrawn (`Sound`), next to those that are.

Parameters: `Lossy` (kinds of messages that may find the bus full), `MayRaise`
(a resumed coroutine may raise), `Reuse` (a bound: whether calls use the memory of
overdrawn contexts again).

### 2.5 AirlinkRpc

The blocking call `luat_airlink_rpc`, next to the calls of `RpcYield`, whose
variables and actions it extends.  A blocking call has two threads: the one that
waits (`Enter`, `Answered` or `Expired`, `Unregister`, `SetLate`) and the
callback in the airlink task (`TakeBlocking`, `CheckLate`, `Signal`).  `point`
says where each is.  Both decrement `count` without a lock, so a decrement is
three steps (`ReadCount`, `WriteCount`, `TestCount`); `freed` counts how often
the context was freed.

The two kinds meet in three places: the table of slots (`Room`), the airlink
task, which has one answer in hand at a time (`AirlinkIsFree`), and the Lua
task, which handles no message while a script is in a blocking call
(`LuaIsBlocked`).  That the suspending calls still behave as `RpcYield` says is
the theorem `ImplementsRpcYield`.

### 2.6 PgfsLog

Flash is `log`, the slots of the data log, each blank, torn, or one part of a
record; `cpTail`, the tail that the last checkpoint recorded; and `ftl`, the
write head in the state block of the flash translation layer, 0 when that is
erased.  The data of a file is the number of the operation that wrote it.

| Variable | In the code |
|---|---|
| `writeAddr`, `prepared` | `data_log_write_addr`, `data_log_prepared_until` |
| `pending`, `nextId` | `pending_checkpoint_writes`, `batch_next_id` |
| `table`, `up` | the file table in RAM, mounted |
| `pc`, `job` | the operation under way and what of it is done |
| `acked`, `covered`, `batches`, `spoilt` | histories: what was acknowledged, what the last checkpoint covers, the batches, whether a record was written where flash was not blank |

An operation starts with `Write` (`fclose` or `fflush`), `CommitBatch` or
`Umount` and goes on in the flash operations of the code: `AppendRecord` (erase
ahead or relocate, then program; `RetryRecord` when the first write fails),
`EraseHead`, `WriteHead` or `HeadFails`, `StoreCheckpoint` or `StoreFails`,
`Finish`.  `PowerCut` may come between any two and inside an append.  `Mount`
replays: `Scan` is one turn of the loop of `pgfs_replay_data_log` -- take a whole
record, or resume at the next header of the block or at the next block --, `Take`
what a record does to the table, `Bound` where the replay ends.  Two guards are
bounds and not in the code: `Room` keeps two blocks free for a close and four for
a batch, and `RetryRecord` retries only where the rest of the operation still
fits behind the second attempt; in the code the log wraps around there.

### 2.7 TimerEngine

The engine thread scans the slots (`Fire`, `EndPass`), waits (`Wake`) and calls
`timer_cb` back without its lock (`Callback`, `Rearm`, `PutMessage`); the Lua
thread starts (`Start`, `StartLock`, `Create`, `Arm`), stops (`Stop`,
`StopLock`, `Delete`, `Free`) and handles messages (`Handle`, `Check`,
`CountDown`).  `epc` and `lpc` are their program points, and say who holds
`timer_lock` and `g_lock`.  `heap` and `live` are the memory of the timers: the
callback keeps an address in a local variable, and reads what another timer put
there, or anything when the block is free (`Seen`).

### 2.8 LwipSockets and NetSocket

`LwipSockets` is the table of slots of `net_lwip2.c`.  `prvlwip` holds for each
slot whether it is in use, marked as closing, dead (`remote_close`), its
connection in lwip, its tag and its owner, and the mailbox of the tcpip thread.
Operators (`Open`, `Send`, `StartClose`, `CloseDone`) are what any thread that
holds the lock of the `network_ctrl_t` does to it; actions are what the tcpip thread does: the messages of the mailbox
(`CreateNow`, `ConnectNow`, `TxNow`, `DnsNow`, `CloseNow`) and the callbacks of
lwip (`Connected`, `Err`, `RemoteClose`, `Data`, `DnsAnswer`).  What it finds it
tells the adapter in `callback`, and does nothing else until that is handled.

`NetSocket` is the adapter.  `ctl[c]` is a `network_ctrl_t`.  The Lua thread
calls (`LinkUp`, `Connect`, `Discon`, `CloseStart` and what follows it, `Tx`, `Rx`,
`WaitEvent`); the state machine (`LinkOff`, `OffLine`, `WaitDns`, `Connecting`,
`OnLine`, `Disconnecting`, one action per state of
`network_default_statemachine`) handles a callback.  Each is one step, as both
hold the lock of the `network_ctrl_t` -- with the exceptions the code makes:

- `socket.close` takes no lock (`luat_lib_socket.c:603`).  It goes in four steps:
  `CloseStart` tests the slot, `CloseMark` marks it, `CloseSend` sends the close,
  `CloseEnd` forgets the socket that the `network_ctrl_t` has by then; `half` is
  where it is.  The tcpip thread may handle events between any two of them:
  close the same socket, so that a second close is sent, which finds nothing
  (`FindsNothing`); free the slot, so that the mark falls on a free slot and is
  never reset, or on the next socket; open another socket, which is forgotten.
  The other way round no step of Lua falls into a handler: the tcpip thread has
  a higher priority than the Lua thread (`luat_rtos_lwip.c:291`) and does not block
  there, so a handler is one step.
- The tag of an event is compared before the lock is taken (`CheckTag`).
- `Connect` (`luat_network_adapter.c:2203`), `Tx` and `Rx` (2467, 2595) and
  `WaitEvent` (2716-2725) test their guards before they take the lock, and are one
  step here all the same: a handler in between, which may end the connection or
  open a socket for an earlier call, is left out.  What they do under the lock then
  is what they may do just before it: no socket is forgotten by it.

The link may change at any moment (`LinkChanges`).  `lost` is a history: slots
that no close will free, for one of the reasons the code has (section 7).

There is one connection (`OneConnection`, an assumption of `LwipSockets`, which
the theorems use).  Several share the table without a common lock: two threads may
find the same free slot (`gen_next_socket_id`, `net_lwip2.c:1662`), and the list of
the sockets to keep may be old when the rest is closed
(`luat_network_adapter.c:1835-1851`).  These races are outside the model, and
nothing is claimed of several connections.

## 3. Runs

| Run | Instance | What it shows |
|---|---|---|
| `sched_pc` | two tasks, a callback, drivers; PC port; starts not refused | the timers, waits, arguments and snapshot of the scheduler agree; nobody is woken early |
| `sched_failing` | two tasks, FreeRTOS port with a bus of one that drops expiries, counted and endless repeats, starts refused or raising at any time, two C timers, ids wrapping round, scripts that resume waiting tasks, failing tasks only logged | timers have owners and subscriptions match waits, whatever fails |
| `sched_live` | one task, bounded scripts, fair | every timed wait ends; a published message ends the waits for it |
| `timer_engine` | two ids, two blocks of memory, two slots, counts 0, 2 and endless | the tables agree, no freed slot is started, one-shots end, no lock cycle keeps them from it |
| `taskmsg_cb_waits` | a callback that waits, failing tasks | a wait without limit is never timed out by another's timer |
| `taskmsg_live` | a callback that does not wait, fair | no wake-up, message or time limit is lost; waits end |
| `pgfs_checkpoint` | two values, five commits, 4 KiB erase blocks | the checkpoint in use can be found at every moment; commits are atomic |
| `pgfs_log` | three files, three operations, two power cuts, a failure | what a checkpoint covers survives; what was acknowledged survives while there is a stored head; batches are atomic; an append touches nothing a mount reads |
| `pgfs_batch_ids` | two batches, one power cut | *finding*: a cut batch is applied by a later one |
| `airlink_rpc` | two suspending and one blocking call, two slots, answers lost on a full bus, coroutines that raise | contexts of suspended calls that are not overdrawn are freed after their last use, what leaks is what was lost, coroutines are resumed once; contexts of blocking calls are there until their last use; calls of both kinds return |
| `rpc_yield_stop` | two suspending calls, nothing lost, nothing raised | *finding*: the time-out handler finds its context freed |
| `net_socket` | one connection, two slots, two addresses, two calls, one change of the link, `socket.close` step by step | messages meet their socket, slots come back, ends are told, connect and discon end |

Some properties hold of an exact part of the behaviours, named in their
comments:

- `CheckpointedSurvives`, `AckedSurvives` and `BatchIsAtomic` leave out the
  histories in which the code has written a record over old data (`spoilt`); the
  last two also the states without a stored head (`ftl = 0`).
- `TimedWaitIsArmed` and `TimedWaitMsgEnds` leave out the waits whose timer is
  `"dead"`.
- `NoUseAfterFree`, `OnlyLostRefsLeak`, `ResumedOnce` and `CallReturns` leave out
  the contexts that are `overdrawn`.
- `MessagesMeetTheirSocket` allows a second close that finds nothing
  (`FindsNothing`); `SlotsComeBack` and `DisconEnds` leave out the slots in
  `lost`, and `DeathIsReported` a connection that `socket.close` is busy with.

Section 7 says what happens there.

### Bounds, and why they are enough

- *Tasks, callbacks, messages.*  One of each is symmetric to the next except
  where two compete: two tasks wait for one message (the snapshot), a callback
  runs before a task.  Two tasks and a callback give all pairs.
- *Ids.*  `TaskIdMax` is 0x1FFFFF in the code.  Three or four ids let a stale
  expiry, a live timer and a new one coexist; with `MayWrap` the counter goes
  round and finds ids in use.  Without it the model stops below the
  wrap-around, which the code reaches after two million waits.
- *Bus and queues.*  `BusCap` 1 or 2 makes both orders of two messages and the
  full bus happen; `QueueCap` bounds how much is published in one turn.  In
  `TaskMsg` three messages are one more than the message taken and the message
  wanted.  These caps are guards of the model, except where the FreeRTOS bus
  drops.
- *`MaxCalls`* (liveness of the scheduler): calls of scripts between two
  messages; see section 4.
- *Timer engine.*  With two ids, blocks and slots one timer can be at hand in
  each thread, or two lie in the same block one after the other.  That a start
  finds the tables full takes more starts than the bound has; in the scheduler it
  is a start that is refused (`MayFail`, `Slots`).  `MaxStarts` 2 is the second timer in a block that was
  freed.  408 000 states.
- *`MaxSeq` 5*: the slots alternate with period two; five commits cover a
  first store, one in each slot over an old one, and failures between.
- *Log.*  Records of one or two slots in blocks of two end before, at and
  beyond the end of a block; five blocks hold three operations, the last of
  them a batch, and a relocation.  Checkpoints are stored at every second close
  (`BatchCloses`, 8 in the code), so that acknowledged files with and without a
  checkpoint occur.  The second power cut comes after a recovery, where what
  the first left is met again.  2.8 million states.  With four operations and
  one cut (8.4 million) nothing else was found.
- *Calls and slots* (`AirlinkRpc`): a call uses nothing of another but the
  slots (64 in the code), the airlink task and the Lua task.  One blocking and
  two suspending calls on two slots give a full table, an airlink task that is
  busy, and a Lua task that is blocked.  The run loses answers, not time-outs: a
  call whose time-out is lost too need not return.  Nor does it use memory again
  that has been overdrawn (`Reuse`), as a call placed there has no fate of its own.
  The theorems hold with both.
- *Sockets.*  Two slots let a new socket be open while the old one is being
  closed, and be full.  Two addresses of a name give a next address to try.
  One change of the link reaches every state from both sides, as it starts up
  or down.  786 000 states.
- *Symmetry* is used in safety runs only.

### Deadlock

Checked except where the program may really stop: when every context has been
leaked by lost messages (`RpcYield`, `AirlinkRpc`), or when the bounds on starts,
calls or changes of the link are used up, all is at rest and nothing is owed
(`TimerEngine`, `NetSocket`); there liveness properties say that nobody waits.

## 4. Fairness

- `LuaSchedFair`: weak fairness of the Lua thread -- it is a task of the RTOS
  and every callback returns -- and of every running timer.  Nothing is assumed
  of drivers.  A script that publishes from its own subscribers for ever
  starves `rtos.receive` in the real system too (`sys.lua:530-558` drains the
  queue first), so the liveness properties are stated of scripts that make at
  most `MaxCalls` calls between two messages.
- `TaskMsgFair`: the same, and strong fairness of the publication of the task's
  name and of the timer's message: bus and queue are first in, first out, and
  the model keeps only numbers.
- `TimerEngine`: strong fairness of both threads, as each needs a mutex that
  the other releases again and again.  POSIX does not promise that such a mutex
  is got; its implementations, with sections this short and a thread that
  sleeps between, do in practice.  Deadlines come.  Nothing obliges
  Lua to start or stop a timer.
- `RpcYield`, `AirlinkRpc`: the airlink task goes on, timers fire, semaphores
  expire; strong fairness of the Lua task's handlers, which take turns with
  blocking calls on a bus that is first in, first out.  That an answer comes, or
  that anyone calls, is not assumed: `CallReturns` and `BlockingReturns` rest on
  the time-outs alone.
- `NetSocket`: the state machine runs, `socket.close` ends; strong fairness of the
  mailbox, which is served in order between callbacks of lwip, and of an outcome for
  each connection attempt and each query: lwip and the DNS client give up after a
  number of tries.  No answer, no data and no close by the peer is assumed.

## 5. What is proved

For all values of the constants, under the assumptions named in the modules
(`BoundsAssumption`, `NamesAssumption`, `MsgAssumption`,
`CheckpointAssumption`, `CallAssumption`, `BlockingAssumption`,
`EngineAssumption`, `SocketAssumption`, `NetAssumption`, `LogAssumption`, which
say only what kind of value a constant is):

| Theorem | States | Further assumption |
|---|---|---|
| `LuaSchedProofs!TypeCorrect` | `TypeOK` | |
| `LuaSchedProofs!SubscriptionsCorrect` | a task is subscribed exactly to the message of the wait that it is in, or has died in | |
| `LuaSchedProofs!SnapshotCorrect` | dispatch resumes only tasks in a wait for its message, or dead in one | `~MayResume` |
| `LuaTimerProofs!TimersAlwaysOwned` | every C timer has an entry in the pool | |
| `LuaTimerProofs!SleepersAreArmed` | a task that waits with a timeout has its timer, or its expiry on the bus | `Lossless`: the PC port, ids do not wrap |
| `LuaTimerProofs!NeverWokenEarly` | a task is woken only for its message or by the timer of this wait | `~MayResume`; on FreeRTOS, ids do not wrap |
| `LuaTimerProofs!NothingLeftBehind` | nothing of a wait that has ended is left in the pool | `NothingRefused`: `~MayFail`, more slots than ids |
| `LuaTimerProofs!ArgumentsAreOwned` | arguments of a callback belong to a timer, or to the call that drops them | |
| `LuaTimerProofs!PairsAreUnique` | a callback and its arguments name one timer | `NothingRefused` |
| `TimerEngineProofs!TypeCorrect` | `TypeOK` | |
| `TimerEngineProofs!TablesAlwaysAgree` | the tables of the engine and of the port name the same allocated timers | |
| `TimerEngineProofs!RearmsAlwaysLive` | the engine starts no slot that has been deleted | |
| `TaskMsgProofs!TypeCorrect` | `TypeOK` | |
| `TaskMsgProofs!UntimedStaysOpen` | no timer ends a wait without limit | |
| `TaskMsgProofs!TimerOfThisWait` | a timer or time-out is of the wait the task is in | `~TaskFails` |
| `TaskMsgProofs!TimedStaysArmed` | a wait with a limit has its timer, or its end on the way, unless the start was refused or the expiry dropped | `~CbWaits` |
| `TaskMsgProofs!NoLostWakeUp` | a queued message has a wake-up to come; the time-out counts only on an empty queue | `~CbWaits` |
| `TaskMsgProofs!NoLostMessage` | a wanted message that is taken is returned | `~CbWaits` |
| `PgfsCheckpointProofs!TypeCorrect` | `TypeOK` | `~OneBlock` |
| `PgfsCheckpointProofs!NeverLost` | a mount finds the checkpoint in use or one tried since | `~OneBlock` |
| `PgfsCheckpointProofs!Refinement` | `PgfsCheckpoint` implements `AtomicCheckpoint` | `~OneBlock` |
| `PgfsLogProofs!LogIsTyped` | `TypeOK` | |
| `PgfsLogProofs!BehindTheBoundOnly` | no step erases or overwrites a record that a mount would replay | `OffsetRange = PerBlock` |
| `PgfsLogProofs!WhatIsCoveredSurvives` | a mount finds what the last checkpoint covered, or something newer | `OffsetRange = PerBlock`, `MaxBatches <= 1` |
| `PgfsLogProofs!WhatIsAckedSurvives` | so it does with what was acknowledged, while the head is stored | `OffsetRange = PerBlock`, `MaxBatches <= 1` |
| `PgfsLogProofs!BatchesAreAtomic` | a mount finds a batch whole or not at all, while the head is stored | `OffsetRange = PerBlock`, `MaxBatches <= 1` |
| `AirlinkRpcProofs!FreedAfterLastUse` | no use after free, no double free, of a context that was not overdrawn | |
| `AirlinkRpcProofs!LeaksAreLosses` | what remains is what was lost, of such a context | |
| `AirlinkRpcProofs!ResumedOutOfItsCall` | a coroutine is resumed once per call, of such calls | |
| `AirlinkRpcProofs!TypeCorrect` | `TypeOK`, slots not over-booked | |
| `AirlinkRpcProofs!ImplementsRpcYield` | next to blocking calls the others behave as `RpcYield` says | |
| `AirlinkRpcProofs!YieldFreedAfterLastUse` | so their contexts, unless overdrawn, are freed after the last use here too | |
| `AirlinkRpcProofs!ContextIsThere` | no thread of a blocking call uses a freed context | |
| `AirlinkRpcProofs!SlotsAreShared` | `AirlinkTypeOK`: both kinds together never get more slots than there are | |
| `NetSocketProofs!MessagesFindTheirSocket` | a message in the mailbox names the socket it was sent for, or is a close that finds nothing | `OneConnection` |
| `NetSocketProofs!SlotsReturn` | a slot in use belongs to the connection, is being closed, or is known to be lost | `OneConnection` |
| `NetSocketProofs!DeathIsTold` | a connection on line has a live socket, or its end is being told, unless `socket.close` is busy with it | `OneConnection` |

Each further assumption but the last is needed: with the opposite, the run of a
finding, or the note of a hazard, violates the property.  `OneConnection` is what
the model of the sockets covers (section 2.8).  The theorems
about calls assume nothing of timers and coroutines.

The arguments:

- *Scheduler.*  `SubscribersAreWaiting` is not inductive alone: a task may
  subscribe in a wait only because it is running, and being on the stack must
  imply that (`StackIsRunning`, with each task there once).  A task that goes on
  or ends has no message left in its record; one that dies in a wait keeps it.
  `WaitInv` is their conjunction with the types and, unless scripts resume tasks,
  the snapshot.
- *Waits and their timers.*  A wait and its timer are linked by the id alone.  A
  live timer belongs to the wait its task is in (`LiveIsWaited`), and that wait
  holds the pool entry and the timer until either is handled or stopped (`Armed`);
  an id whose message is on the bus does not run again, since sys.wait starts
  one-shots and takes no id in flight (`NotYetAgain`, the bound `InFlight`), so
  the message that resumes a task is that of an expired timer.  Id 0 is the
  exception (`ZeroUnused`).  A step that only ends a wait keeps all of it
  (`LeavePart`), one that leaves task timers alone too (`FramePart`).
- *Timers of callbacks.*  Arguments lie in the pool from the start of a timer to
  the return of its last call, which drops them by id (`Cleared`): an id with
  arguments has an entry or such a call on the stack, never both (`ParaPart`).
  A start stops the timer that has the same callback and arguments first; that
  it finds one at most is the invariant itself.
- *Timer engine.*  Whether the timer in the hand of the Lua thread is in the
  tables follows from its program point (`AtHand`), and one thread at most
  holds `timer_lock` (`OneHolder`); so the entry that the callback finds under
  the lock cannot be deleted before its slot is started.
- *Directed messages.*  `QueuedIsNotified` counts publications against queued
  messages; `LoopInv` says where the subscription can be, `TimeUpInv` that once
  the time-out has been set and published nothing else runs before the task.
  `WaitInv` adds where the task is subscribed and that a timed wait has its timer
  or its time is up, `OwnTimer` that outside a timed wait nothing of one is left.
- *Checkpoint.*  The slot of the checkpoint in use is whole (`Holds`), the other
  slot is older, being tried, or refers to nothing (`Behind`); a number being
  stored is the next one and so of the other parity (`TriedAreNext`); the
  superblock of a slot is blank before its checkpoint is written (`StoreOK`).
- *Data log.*  The replay is a recursive function; that a property holds of all
  its turns is shown with the least number for which it fails (`Count`,
  `AllTurns`).  A position is `Reached` when some turn of the replay stands there
  behind a record, and `At` is what it has found by then; both depend only on
  the log below it (`PathSame`).  `ReachInv` says that the tail, the stored head
  and the head in RAM are reached and in this order, so what is erased or
  written lies behind both bounds.  What a later replay reads behind a bound it
  did not read before are leftovers of a cut: `ShapeInv` says how a block is
  filled -- from its start, torn slots last --, and `Grows` that a write adds one
  record at most.  `FoundInv` then says that a leftover in the block of a bound is
  not older than what is found at the bound (`Newer`), that records of a batch are
  of one batch (`Batches`), and what is found at the three positions (`Kept`,
  `Known`) and by the operation under way (`Written`, `JobInv`).  `AppendFinds` is
  the heart: however the replay gets from the old head to the new record, it
  loses nothing and finds the record.  `AtomInv` adds, for batches, that each of
  the three positions is `Settled`: the table found there holds all or nothing of
  a batch, and what a replay would read behind it in its block is in order
  (`Orderly`) -- a commit there has all the records of its batch before it, so that
  reading on tears no batch (`AppendAtomic`).  Whoever appends or is cut short adds
  to this only at the old head (`Behind`), where the commit is written last.
  Offsets that are cut off put a bound where no record ends, and a second batch
  may share its id with leftovers of the first: the two assumptions, each of
  which a finding needs violated.
- *Suspending calls.*  `RefsCounted`: the count is one each for the coroutine,
  the answer and the time-out as long as anyone holds them, plus the lost ones.
  A step takes one away only if the answer is in one place at a time, and the
  time-out too (`OnePlace`), and if the coroutine waits until a message has been
  handled (`HandledOnce`).  All of it is said of the contexts in `Sound`, next to
  whatever the overdrawn ones do.  The stop of a timer that is through releases
  a reference nobody holds: a time-out that neither is to come nor was handled had
  been lost, and this makes it good (`LostCounted`).
- *Blocking calls.*  As long as both threads hold their reference the count is
  2, so the first to write leaves 1; as long as one holds it the count is 1 and
  the other finds no 0 to free it for (`CountOfHolders`).  What the last one
  writes does not matter any more.  `ImplementsRpcYield` maps every step of a
  blocking call to a stutter.
- *Sockets.*  A message needs no tag because after the first close of a socket
  its slot gets closes only, and only a close frees the slot (`ClosesLast`).  A
  second close may still be in the mailbox when the slot is given away: it then
  stands before the create of the next socket (`CreatesOnce`), and a slot without
  one is clear (`FreeIsClear`), so that it finds nothing (`Harmless`).  `Good` says
  that of a table and its mailbox; one lemma per operation of the lwip adapter
  keeps it, one per composed operation of the network adapter, one per action.
- *Slots and ends.*  A marked slot has its close in the mailbox, or on its way from
  `socket.close`, or is lost, and so is a slot that the close would pass over,
  unless its create is still to come (`Tended`); a slot that the connection does not
  hold leaves in the same way, and the one it holds has its tag (`Owned`).  A
  connection that counts on being told (`Watched`: on line, or about to be) holds
  a socket that lives, or the event in hand is its end and has its tag (`Guard`).
  `NetInv` is the conjunction; `Guard` is not claimed between the steps of a
  `socket.close`, which ends by giving the socket up.

## 6. Only model-checked

- Liveness (`TimedWaitEnds`, `PublishedWakes`, `TimedWaitMsgEnds`,
  `WantedArrives`, `OneShotEnds`, `CallReturns`, `BlockingReturns`, `DisconEnds`,
  `ConnectEnds`): fairness and ENABLED are out of the prover's reach.

## 7. Findings

- *A finished time-out and a stop that always succeeds*
  (`luat_airlink_rpc.c:261`, run `rpc_yield_stop`).  The handler of an answer
  relies on `luat_rtos_timer_stop` to fail when the timer has fired; every port
  returns 0.  When the time-out is already on the bus, the context is freed
  under it.
- *The ids of batches* (`pgfs_core.c:517`, run `pgfs_batch_ids`).  They start at
  1 again at every mount.  The records of a batch that was cut before its
  commit stay in the log, and the commit of the next batch with id 1 applies them
  at the following mount, over files closed since: "if `fclose` returns
  success, durability is guaranteed" (`DESIGN.md:18-19`) does not hold.

Met while modelling, without a run of their own.  Those that the models contain
come back when a constant is changed as said:

| Where | What | How to see it |
|---|---|---|
| `sys.lua:541` | a script that resumes a waiting task, as `rfa.lua` does, leaves it in the snapshot of dispatch, which resumes it out of a later wait | `SchedPc.cfg` with `MayResume = TRUE`, `TaskIdMax = 3`, `MsgIdMax = 5`, `BusCap = 1`: `SnapshotIsWaiting`, and without it `NoEarlyWake` |
| `luat_timer_freertos.c:44` | a full bus drops the expiry a task waits for | `SchedFailing.cfg` with `MayFail`, `MayWrap`, `MayResume = FALSE`: `BlockedTaskIsArmed` |
| `luat_lib_rtos.c:95` | the expiry of task timer id 0 is thrown away on the PC port | `SchedPc.cfg` with `MayWrap = TRUE`: `BlockedTaskIsArmed` |
| `sys.lua:845-858` | a callback that waits takes the wake-up of the next message, which is thrown away with the time-out | `TaskMsgLive.cfg` with `CbWaits = TRUE`: `QueuedIsNotified`, and without it `WantedIsReturned` |
| `pgfs_nand_ftl.c:380` | the block of the head is erased, then written: a cut in between loses what was acknowledged since the last checkpoint | `AckedSurvives` without `ftl # 0` |
| `pgfs_core.c:1203` | a record that does not start at a block may run on into one that has not been erased | `AckedSurvives` without `~spoilt` |
| `luat_lib_rtos.c:99` | the message of id 0 is resolved through freed memory on FreeRTOS, and may wake a task out of another wait | `SchedFailing.cfg` with `MayResume = FALSE`: `NoEarlyWake` |
| `sys.lua:181` | a refused wait keeps its pool entry | `SchedFailing.cfg` with `MayWrap`, `MayResume = FALSE`: `NoWaitResidue` |
| `sys.lua:374` | the entry of a refused timer stays in the pool; the next `timerStop` of its callback may match that one, and the running timer goes on beside a new one, against "callback and arguments identify a timer uniquely" (352-353) | `SchedPc.cfg` with `MayFail = TRUE`, one task, `TaskIdMax = 2`: `UniqueTimers` |
| `pgfs_checkpoint.c:293` | the regions of both slots are 4 KiB apart; where the erase unit is larger they share one, and the erase at the start of a store wipes the checkpoint in use | `PgfsCheckpoint.cfg` with `OneBlock = TRUE`: `Recoverable` |
| `pgfs_ftl_integration.c:166` | the offset in a block is stored in 16 bits; with the erase blocks of 128 KiB that `DESIGN.md:88` names, a head in the upper half is stored too low, and the next mount stops there | `PgfsLog.cfg` with `OffsetRange = 1`: `AckedSurvives` |
| `luat_lib_rtos.c:143` | a timeout that is no integer raises in `waitUntil` after the task has subscribed: the dead task stays subscribed, and every later publication of the message fails to resume it and runs the wrapper again | `SubscribersAreWaiting` with `Blocked(t)` required |
| `sys.lua:812` | `waitMsg` ignores a refused start, and a full bus drops the expiry: the wait with a limit has none | `TimedWaitMsgEnds` without the exception for `"dead"` |
| `luat_airlink_rpc.c:300` | a coroutine that raises after its call releases its reference twice | `NoUseAfterFree` without `Overdraw` for `n > 1` |
| `luat_airlink_rpc.c:215` | an answer that meets the time-out leaks its context | `lost` in `OnlyLostRefsLeak` |
| `luat_airlink_rpc.c:132` | the count decremented by two threads: the context of a blocking call may leak, or be freed twice after its last use | `freed` in `TestCount` |
| `net_lwip2.c:488` | a connection that lwip ends between `socket.discon` and its message leaves a slot that nobody frees, and a discon that does not end | `SlotsComeBack`, `DisconEnds` without `lost` |
| `luat_lib_socket.c:603` | `socket.close` takes no lock: a socket that is opened before its end is forgotten | `SlotsComeBack` without `lost` |
| `net_lwip2.c:1831` | test, mark and close of a slot are three steps without a lock: a close by the tcpip thread in between is sent twice, and when it has been served the mark falls on a free slot, where nothing resets it (`create`, 1689-1720): the next socket there cannot be connected | `MessagesMeetTheirSocket` without `FindsNothing`; `SlotsComeBack` without `lost` |
| `luat_network_adapter.c:1121` | the tag is compared before the lock is taken, and a DNS answer has none: an event of the last connection is taken for this one | `CheckTag` |
| `luat_network_adapter.c:710` | the link coming up while a name is asked for, or a connection tried, fails the connect | `WaitDns`, `Connecting` with a state event |

Others lie outside the models: `remove` writes no record, so a removed file
comes back when the log is replayed (`pgfs_core.c:1040`); the replay frees its two
buffers when it meets certain bad records, and goes on using them
(`pgfs_core.c:2210-2211`, 2220-2221, 2243-2244, 2251-2252; `Scan` goes on cleanly);
a timeout that is a multiple of 2^32 ms leaves a dangling entry
(`luat_timer_pc.c:81`); the callback of `luat_rtos_timer_pc.c` reads its timer after
the user's callback; two threads that open sockets at one moment may get one slot
(`net_lwip2.c:1662`); slot 0 is never among the sockets to keep, so a connect that
finds no slot closes the healthy socket of another connection there
(`net_lwip2.c:2001`), and the list of those to keep may be old when the rest is
closed (`luat_network_adapter.c:1835-1851`); the address in a connect message points
into the `network_ctrl_t` (`net_lwip2.c:1735`); a message of an earlier
`libnet.connect` may answer the next one; a task that fails repeatedly postpones the
reboot meant for it (`sys.lua:120`); two waiters of one task name take each other's
messages (`sys.lua:814`).

## 8. Not modelled, and why

- Closed or third-party code: BSP implementations of io_queue, lwip, mbedtls,
  gmssl, sqlite3, lvgl, flashdb, lfs and the codecs.
- Sequential code without state worth the name (bindings, the statem
  interpreter, the file system dispatch, fonts and graphics), which unit tests
  reach.
- `sysplus.lua`, the older copy of directed messages; `sys.taskCB`, which
  nothing calls; `luat_airlink_rpc_cleanup_dead_yields`, likewise.
- In the modelled components: the text of errors and logs; times (any order of
  expiries instead); memory that runs out, except where a start may be refused;
  several waiters of one task name; an RPC coroutine that is resumed by someone
  else or collected as garbage while it waits.
- In the data log: the wrap-around and the collector (no operation starts in
  the last two blocks, and a write is tried again only where the rest of the
  operation fits), `remove` and directories, the second failed write of an
  append, the read-only mount, a failing read at a mount.
- In the sockets: several connections and what they do to each other, memory that
  runs out in a send on a live socket (`net_lwip2.c:1966`), TLS, UDP, servers, the results as messages to Lua, the
  allocation of `network_ctrl_t`s, waits inside the calls of C clients, how much
  of what was sent is acknowledged, the contents of data.
- In the timer engine: the stand-alone `luat_rtos_timer`, periodic slots and the
  shutdown; a function pointer read from freed memory.

The components without a module are the larger part of the repository by far,
and most of it is third-party code, data (fonts) and bindings; the modelled parts
are those in which several threads, failures or restarts meet.

## 9. Plan

Done, in this order: `LuaSched`, `TaskMsg`, `PgfsCheckpoint` on
`AtomicCheckpoint`, `RpcYield`, with their proofs; then `PgfsLog`, `TimerEngine`,
`AirlinkRpc`, `LwipSockets` and `NetSocket`, with their proofs, and
`LuaTimerProofs`.

1. `NetSocket`: the results as messages, and the waits of `libnet.lua` on them;
   TLS and UDP; servers.
2. `PgfsGc`: victims, moves and the wrap-around, on the log of `PgfsLog`.
3. The airlink link, two chips and a lossy line, with `AirlinkRpc` on top.
4. MQTT on `NetSocket`: keep-alive and reconnect.
5. An abstract timer service that `TimerEngine` implements and `LuaSched` uses.
6. CMUX and Y-modem.
