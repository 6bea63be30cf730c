# A TLA+ verification project for the CAN/Modbus gateway board

The repository is the firmware of a board (STM32F407, RT-Thread) that stands
between a CAN bus and an RS485 line: it takes commands from CAN, turns them into
Modbus RTU transactions with motor drives and power supplies, and sends the
results back on CAN. It holds the application (`applications/`), the drivers of the
board (`libraries/`, `board/`) and the RT-Thread kernel with its components
(`rt-thread/`). This project models the path of a frame: the application's
threads, the CAN device framework and the bxCAN driver beneath it, the kernel
objects they wait on, and the memory and the mutexes those rest on.

Contents

1. [Inventory](#1-inventory)
2. [Modules](#2-modules)
3. [Runs](#3-runs)
4. [Bounds](#4-bounds)
5. [Fairness and deadlock](#5-fairness-and-deadlock)
6. [Proofs](#6-proofs)
7. [Findings](#7-findings)
8. [What is abstracted, and what is not modelled](#8-what-is-abstracted-and-what-is-not-modelled)
9. [Plan](#9-plan)

## 1. Inventory

```
               interrupt            threads                     thread
 CAN  --> FIFO0/1 --> uselist --> can_rx_thread --> can_rx_queue --> md_m_send --> RS485
 bus  <-- mailbox <-- send box <-- can_tx_thread <-- can_tx_queue <--'   (UART)    slaves
                                                        ^-- main (heartbeat)
```

| component | state | operations | hard behaviour | what makes it correct |
|---|---|---|---|---|
| application threads (`applications/*.c`) | `heartTime`, the two message queues, the current request, uninitialised locals of the handlers | `main` loop, `can_rx_thread`, `can_tx_thread`, `send_thread_entry` (the thread `md_m_send`), `handle_*`, `modbus_*_till_recv` | answers lost, late, damaged or refused; full queues; a position in two registers; a port that does not open | each producer's frames in order; a reply only for a request fully issued; an echo only after the write happened; reads answered |
| CAN reception (`user_can.c`, `can.c`, `drv_can.c`) | controller FIFO and overrun flag, `freelist`, `uselist`, `freenumbers`, `rx_sem`, `rxmsg` | `_can_rx_isr`, `rt_hw_can_isr`, `can_rx_call`, `_can_int_rx`, `userCANInitialize` | the interrupt between the reader's critical sections; overwriting an unread node; frames before the callback is set | nodes conserved; no lost wake-up; order kept; every loss counted |
| CAN transmission (`can.c`, `drv_can.c`, `completion_up.c`) | send boxes, their results and completions, `tx_fifo->sem`, mailboxes, RQCP/TXOK | `_can_int_tx`, `_can_sendmsg`, `_can_tx_isr`, `_can_sce_isr`, `rt_completion_*` | completion before the wait, two handlers for one mailbox, register read-modify-write | a box has one holder; the result is the one of this message; every write returns |
| kernel wait (`thread.c`, `scheduler_comm.c`, `timer.c`) | suspension, thread timer and its flag, error code | `rt_thread_suspend_to_list`, `rt_sched_thread_ready`, `_timer_check`, `_thread_timeout` | the window between deactivating a timer and calling its function; state left from one wait to the next | the time-out function finds the thread suspended; a thread sleeps on one list only |
| semaphore (`ipc.c`) | value, maximum, suspend list | `rt_sem_take`, `rt_sem_trytake`, `rt_sem_release`, reset and limit commands | release from interrupts against time-outs | tokens accounted for |
| message queue (`ipc.c`) | node pool, queue, `entry`, two suspend lists | `rt_mq_send`, `rt_mq_send_wait`, `rt_mq_urgent`, `rt_mq_recv` | message copied outside the critical sections; several senders, receivers and handlers | a bounded buffer; no lost wake-up |
| mutex (`ipc.c`) | owner, hold count, ceiling, kept priority, sorted waiters; each thread's priority | `rt_mutex_take`, `rt_mutex_release`, `rt_mutex_setprioceiling`, time-out of a waiter | inheritance along chains of owners, and undoing it when a waiter leaves | one owner; waiters in order; no inversion; a raised priority ends with its reason |
| event (`ipc.c`) | set, suspend list, request of each waiter | `rt_event_send`, `rt_event_recv` (AND, OR, CLEAR), reset | one send satisfies several waiters, some of which clear | every waiter judged by the same set; nobody sleeps beside its flags |
| mailbox (`ipc.c`) | ring, offsets, `entry`, two suspend lists | `rt_mb_send`, `rt_mb_send_wait`, `rt_mb_urgent`, `rt_mb_recv`, reset | resumed sender finds the box full again; time-outs used up | a bounded buffer; nobody sleeps beside a mail or a free word |
| completion (`completion_up.c`, `completion_comm.c`) | one word: waiting thread, or done | `rt_completion_wait*`, `rt_completion_done` | done at the moment the waiter times out | no completion lost or used twice |
| small-memory heap (`mem.c`) | block headers, `lfree`, `used` | `rt_smem_alloc`, `_realloc`, `_free`, behind `rt_malloc`, `rt_realloc`, `rt_free` | splitting and joining in every order | blocks tile the memory; data kept; free memory always found |
| scheduler (`scheduler_up.c`) | ready table, lock nesting | schedule, yield, time slice | priority, starvation | highest ready priority runs |
| memory pools, other heaps (`mempool.c`, `memheap.c`, `slab.c`) | block lists | alloc/free | waiting for blocks | not on the path of a frame |
| serial device (`components/drivers/serial`) | receive FIFO indices | ISR put, read | overrun of a full ring | bytes in order |
| RS485 and Modbus packages | receive FIFO, slave addresses | `rs485_send_then_recv`, `agile_modbus_*` | time-outs, stale answers | not in the repository: external |
| flash command, HAL, CMSIS, CubeMX output | - | - | - | not modelled |

How the parts interact: interrupt handlers call `rt_hw_can_isr`, which calls the
device's `rx_indicate` callback or `rt_completion_done`; the callback releases
`rx_sem`; the threads talk only through the two queues; `md_m_send` does not wait on
its queue but polls `can_rx_queue.entry`. Every wait of a thread ends in the kernel
wait, whose time-outs come from the tick interrupt. `rt_can_open` takes its boxes and
nodes from the heap (`can.c:283`, `315`), whose lock is a mutex (`kservice.c:652-690`).

## 2. Modules

| module | models | extends / instantiates |
|---|---|---|
| `Protocol` | the frame, the receive filter, the table of CAN command to Modbus transactions, the reply (`protcol.h`, `modbus_to_can_handle.c`, dispatch of `user_modbus.c`) | |
| `Gateway` | the application's four threads, both queues as bounded sequences, the RS485 line and slaves | `Protocol` |
| `CanRx` | controller FIFO to `can_rx_queue` | |
| `CanTx` | `rt_can_write` to the mailboxes and back | |
| `ThreadList` | a suspend list, and the removal of threads from anywhere in it | |
| `ThreadWait` | suspend, resume, time-out of one thread | `ThreadList` |
| `Semaphore`, `Event`, `Mailbox`, `Completion` | one kernel object each | `ThreadWait` |
| `Ipc` | the four of them used by the same threads and handlers | `ThreadWait`; instantiates the four |
| `MessageBuffer` | what a message queue promises (abstract) | |
| `MsgQueue` | `rt_mq_*`, implements `MessageBuffer` | `ThreadWait`; `MessageBuffer` through `INSTANCE ... WITH` |
| `Mutex` | `rt_mutex_*` with priority inheritance | `ThreadList` |
| `Heap` | `rt_smem_*` | |
| `SeqLemmas` | what the list operations do to the range of a list | `ThreadList` |
| `CanRx_proofs`, `CanTx_proofs`, `Gateway_proofs`, `Ipc_proofs`, `MsgQueue_proofs`, `Mutex_proofs` | the theorems about the module of that name | that module, `SeqLemmas` |
| `Heap_proofs` | the theorems about `Heap` | `Heap` |
| `MCGateway`, `MCCanRx`, `MCCanTx`, `MCIpc`, `MCSemaphore`, `MCMsgQueue`, `MCMutex`, `MCHeap` | values of constants for TLC | the module of that name |

Each module also holds, right before an operator, its *faulty variants*: the same
operator with a plausible bug. No specification uses them. `PROJECT.json` pairs
each property with the variant that TLC finds it violated by, which shows that the
property says something about the code.

### Gateway

| TLA+ | code |
|---|---|
| `MainModbusInit`, `MainBeat` | `userModbusInitialize` (returns early when `rs485_connect` fails), the loop of `main` |
| `CanRxFrame` | one turn of `can_rx_thread`: read, filter, `rt_mq_send` |
| `TxTake`, `TxWrite` | one turn of `can_tx_thread`: `rt_mq_recv`, `rt_device_write` |
| `MdTake` | `send_thread_entry`: `entry > 0`, `rt_mq_recv`, dispatch; a request with an empty plan is dropped |
| `MdSend`, `MdReceive`, `MdTimeout`, `MdError` | the two halves of `rs485_send_then_recv` in `modbus_send_till_recv`, `modbus_read16t_till_recv` and `handle_power_read`, with its three outcomes (a positive, zero or negative length) |
| `MdReply` | the `rt_mq_send` that ends a handler |
| `Plan`, `ReplyFrame` (Protocol) | the tables in `handle_ls_write`, `handle_ls_read`, `handle_power_read`, `handle_motor6000_write` |
| `Serve`, `Lose`, `Noise`, `Move` | external: a slave executes and answers, or refuses, and its answer or refusal may be damaged on the way; the line loses a request or its answer, or carries bytes nobody sent; the motor moves |

A command is at most two transactions, and between any two of them every other
thread, slave and fault may step in. The receive call returns *all* the FIFO holds:
an answer that came after the time-out is found by the next transaction. What a
failed read leaves in the buffer is a nondeterministic word (`Garbage`) when the
buffer is an uninitialised local. `heeded` and `misled` are history variables: the
reads that took an answer, and the transactions for whose answer the code took bytes with a
refusal in them, damaged or not, another transaction's answer, or noise. The
code cannot tell; the properties have to.

### CanRx

`RxIsr`/`RxIsrOverrun` are the two passes of `_can_rx_isr` through `rt_hw_can_isr`
(`HwCanIsr`); `StoreFree`, `StoreOldest`, `StoreNowhere` are its three ways to get
a node. The reader's turn is cut at its critical sections: `SemTake`, `ReadPop`
(`can.c:91-105`), `ReadCopy` (interrupts enabled), `ReadGiveBack`
(`can.c:109-115`), `Filter`. The interrupt may come between any two. `SetIndicate` and
`StartThread` are the order of `userCANInitialize`, in which the interrupt is
enabled before the callback is set. The set of nodes is a variable that never changes, so
that one run takes several numbers of them.

### CanTx

The writer is cut at its critical sections (`TakeSem`, `PopBox`, `InitBox`,
`SendMsg`, `Wait`, `Collect`, `ReleaseSem`); a handler is one step. `ClearRqcp` is
what `SET_BIT(TSR, RQCPx)` does to a register whose RQCP bits are cleared by writing
one: it clears all that are set, and TXOK with them. The controller
(`Transmit`) is external: success, missing acknowledgement, or another error.

### ThreadWait, and the objects on it

`SuspendWith`, `ReadyOrFail`, `ReadyAll`, `TimerExpires` and `ThreadTimeout` are
`rt_thread_suspend_to_list` (with the timer started), `rt_sched_thread_ready` of one thread and of
each thread of a list, the deactivation in `_timer_check`, and `_thread_timeout`. Between the last two
`_timer_check` has interrupts enabled (`timer.c:527`): no thread runs, other handlers do.
In that window `rt_sched_thread_ready` cannot stop the timer, so a
release does not resume the thread. The objects use these
operators at each place the code calls the functions.

- `Semaphore`: `Take` up to the sleep, `Resume` after `rt_schedule`, `Release`, and the
  commands `Reset` and `SetLimit`, which resume all waiters with an error. `tokens` and
  `lost` are history variables: the tokens given by whatever returned `RT_EOK`, less those taken, and the releases
  among them that found the first waiter's timer just expiring and resumed nobody.
- `Event`: a flag is a member of a set. `Send` judges all waiters by the set as it is with the new
  flags and clears afterwards what those with CLEAR received.
- `Mailbox`: the ring with its two offsets; `Post` is a send on a mailbox with room, from a thread
  or a handler, urgent or not; `SendFull` and `SendAgain` are the wait of
  `rt_mb_send_wait` and what follows it, with part of the time-out used up. `swallowed` counts the mails in
  the box whose send resumed nobody for the same reason; `MsgQueue` has the same count of its messages.
- `Completion`: the word is a thread and a flag. `Resume` decides, as the code does, by comparing the
  word with what it was before the wait, not by the thread's error.
- `Ipc`: each thread may call any of the four objects. What they share is the thread
  itself: `ttmr`, `active` and `error` are left by the wait on one object as the wait on the next finds
  them, and a time-out takes the thread off whatever list it is on.

In `MsgQueue` a send is `SendCall`, then `SendAlloc` or `SendFull`, then `SendLink`;
a receive is `RecvCall`, then `RecvUnlink` or `RecvEmpty`, then `RecvFree`; `Resume`
is the code after `rt_schedule`, which ends the call on an error and otherwise tries
again with what is left of the time-out. The refinement mapping reads the abstract
buffer off the nodes: `buf` is the data of the nodes in `queue`, `fetched` the data of
the nodes receivers have unlinked but not yet copied and freed, `seen` the
messages ever linked. `SendLink` implements `Put`, `RecvUnlink` `Fetch`, `RecvFree`
`Deliver`; every other step is a stutter. It would break if a node were freed
before it is copied, shared by two senders, or linked at the wrong end.

### Mutex

A mutex is used by threads only and under the scheduler lock, so that a call is one step up to the
point where it sleeps: `TakeAgain`, `TakeFree`, `TakeWait`, then `ResumeOwner` or `ResumeTimedOut`;
`ReleaseOne`, `ReleaseLast`; `SetPrioCeiling`. `Timeout` is the tick handler, which takes the
waiter off the list and repairs no priority: the waiter does when it next runs. `Updated` is the loop of
`_thread_update_priority` along the chain of owners; the code's has no bound, the model's is two rounds per
thread, and `UpdatedSettles` proves that the loop has ended by then. Priorities matter here, so a thread
may call only when no thread of a higher priority is on its way out of `rt_mutex_take` (`CanRun`).

### Heap

The headers are a function from addresses to records, in units of 8 bytes. `Alloc`, `Freed`, `Split`,
`PlugForward` and `PlugBackward` are the code's functions on it; `Malloc`, `Free` and
the three outcomes of `rt_smem_realloc` are the actions. `cell` remembers what was written
last to each unit of memory, so that a header over a caller's data, or the reverse, shows.

## 3. Runs

Passing runs; states are distinct states.

| run | instance | checks | shows |
|---|---|---|---|
| `gw_safe` | 2 of 6 kinds of frames (a command the handlers drop, a position write, a position read, an alarm read, a power read, a filtered frame), 1 heartbeat, `can_rx_queue` of 1 and `can_tx_queue` of 2, all seven faults up to two in a behaviour, connect may fail, the motor moves across a 16-bit carry | `TypeOK`, `BusOrder`, `RepliesAnswer`, `EchoUnlessMisled`, `NoLoneLowHalf`, `ReadsHonest`, `ReadsAnswered`, `RequestsServed`, `TxDrains` | whatever goes wrong on the line, per-producer order holds on the bus; replies belong to requests fully issued; an echo is truthful, and the low word of a position is never written without its high word, unless a refusal (damaged or not), a stray answer or noise stood in; a read that took its own answer reports what registers held; reads are answered unless `can_tx_queue` fills up, and no request blocks the gateway. 604 000 states |
| `rx_safe` | 1, 2 and 3 nodes, controller FIFO of 3, 6 frames, one filtered | `TypeOK`, `NodesConserved`, `NoStranded`, `QueuedInOrder`, `LossReported`, `CatchesUp` | the interrupt never harms the reader between its critical sections, and with two nodes or more nothing is lost unseen. 57 000 states |
| `tx_safe` | 2 writers, 3 writes each, 1 box, the HAL may refuse | `TypeOK`, `BoxesConserved`, `ResultTruthful`, `EveryWriteReturns` | as the board is configured, a write returns, with the result of its own message. 31 000 states |
| `ipc_safe` | 2 threads and the handlers on a semaphore, an event of two flags, a mailbox of two words and a completion | `TypeOK`, `SleepersListed`, `TokensAccounted`, `EventsHeard`, `MailboxIsBuffer`, `MailHeard`, `CompletionsKept` | each object keeps its promise whatever the wait on another has left in the thread, with time-outs at every moment; what a wake-up that meets an expiring timer costs is counted, and nothing else is lost. 1 606 000 states |
| `mq_safe` | 1 sender that waits for ever, 2 receivers with time-outs, an urgent handler, 2 nodes, 3 messages | `NodesConserved`, `NoLostWakeup`, `ImplementsBuffer`, `SleepersServed` | the node pool is conserved, the queue is the bounded buffer, and no thread sleeps beside a message or a node it could have, but for as many messages as were sent to a receiver whose timer was just expiring. 181 000 states |
| `mutex_safe` | 4 threads of 4 priorities, 2 mutexes, 2 ceilings, time-outs of the two most urgent | `TypeOK`, `HandedOver`, `Sorted`, `NoInversion`, `MutexPrioOfHead`, `BoostEnds` | hand-over, the order of the waiters, inheritance along the chain, and the end of it. 445 000 states |
| `heap_safe` | 16 units (128 bytes) and its headers, 3 blocks, 5 sizes | `Tiled`, `BlocksOwned`, `DataKept`, `FailsOnlyWhenFull` | every sequence of `rt_malloc`, `rt_realloc` and `rt_free` keeps the headers whole, the callers' data in place, and all free memory in sight. 192 000 states |

Runs that end in a violation, each a finding (section 7): `gw_echo`
(`EchoMeansWritten`), `rx_stale` (`NoFrameTwice`), `tx_boxes` (`EveryWriteReturns`),
`mutex_stale` (`NoBoostLeft`), `sem_assert` (`TimeoutFindsSuspended`).

Several properties carry an exception, and each exception is a behaviour of the code:

- `NoStranded` and `CatchesUp` leave out the `unannounced` frames, those that arrived before the
  callback was set;
- `LossReported` needs two nodes: with one in the reader's hands
  the interrupt drops the new frame without counting it (`can.c:794-812`). The board has more;
- a send that meets the first receiver's timer just expiring resumes nobody, and the next receiver is not
  looked at (`ipc.c:3545`). `NoLostWakeup` and `MailHeard` count these messages (`swallowed`), and
  hold for all but as many; `SleepersServed` claims nothing of receivers while there is one;
- a release that does so returns `RT_EOK` and its token is gone (`ipc.c:715-720`). `TokensAccounted` counts
  these (`lost`), and says that no token is lost otherwise;
- `EventsHeard` excepts the waiter whose time-out function is about to run: its flags are cleared,
  and yet it times out;
- `CompletionsKept` needs no such exception: a completion survives the same race, for the waiter looks at
  the word and not at its error;
- `BoostEnds` excepts steps while a waiter has timed out and not run, which `mutex_stale` shows to
  be where a raised priority can get stuck.

## 4. Bounds

Every bound is a constant named in the module that uses it, and only guards
actions of the environment: `MaxFrames`, `MaxBeats`, `MaxMoves`, `MaxFaults` (Gateway),
`MaxFrames` (CanRx), `MaxWrites` (CanTx), `MaxSends` (MsgQueue), `MaxMails` (Mailbox), `MaxLost`
(Semaphore: the releases that resume nobody), `Blocks` (Heap).

- *Gateway*: two requests are what it takes for one to wait while the other
  is in hand, for an answer of the first to arrive during the second, and, with a
  heartbeat, for `can_tx_queue` to be full. `can_rx_queue` of one is full as soon as a
  request waits. Two faults let an answer of the first transaction come late and
  then another be lost or damaged, or a refusal be damaged while noise comes in. Noise comes while `md_m_send`
  waits for an answer, and the motor moves while a position is asked for: at other times neither can be told from
  one that comes then, for the FIFO keeps the noise and nobody looks at the motor. No handler keeps anything from one request to
  the next but the line. The motor starts at 65535, so one
  move carries from one position register into the other.
- *CanRx*: six frames fill up to three nodes, the controller's FIFO of three, and
  overrun it, so that every way of losing a frame occurs, also one after the other;
  one node is where the interrupt finds neither a free nor a used one. `SemMax` 4 lets the semaphore saturate.
- *CanTx*: three writes of two writers reuse the box in every order, with stale
  completions of an earlier write possible.
- *Ipc*: two threads, so that one can wait on each object while the other or a handler uses it, and
  two can wait on the same one. The semaphore starts at 0 with a maximum of 1, so that releases
  without a waiter reach it; reset gives 1. One release that resumes
  nobody shows what it leaves behind; `sem_assert` allows two. Two flags, and two requests: both flags, then cleared; one of them,
  kept. Three mails are what it takes for the mailbox of two to fill, for a sender to be woken by
  a free word and to find it taken again by a handler; that it then sends nothing is `MailboxBuffers`, for every
  number of mails. The semaphore and the completion are waited for in all three
  ways, the event not or with a time-out, the mailbox with a time-out, whose
  remainder may be nothing. The threads are symmetric.
- *MsgQueue*: two nodes give a queue with an order and a full pool; three messages fill it
  and make a sender wait. `EntryMax` is not below the pool's size, as on the
  board; the code links a message before it compares `entry` with the maximum, and only a
  pool above it could show that.
- *Mutex*: two mutexes are the shortest chain of owners, three threads the fewest in
  which a chain has an end that waits; the fourth puts two waiters on one list. Both ceilings lie between
  priorities. `HoldMax` 2 is reached.
- *Heap*: three blocks of one to nine units in sixteen leave, join and fill gaps on either
  side of each other; nine does not fit beside another large one, so that allocation fails both for lack of
  memory and for lack of a gap. A block's name is interchangeable with another's (symmetry).

## 5. Fairness and deadlock

`CHECK_DEADLOCK FALSE` is in every configuration, because the systems may stop: the
environment's actions are bounded, and a thread that waits for ever with nothing
more to come is how these systems rest. That nothing stops too early is what the
liveness properties say, and, for the kernel objects, the invariants about who may
be asleep.

- *Gateway*: weak fairness of `md_m_send`, of `can_tx_thread`, of the slaves and of the start-up in
  `main`. `main`, `can_rx_thread` and `can_tx_thread` have higher priorities than `md_m_send` but
  block on a delay, a semaphore or a queue in each turn, so a ready thread gets
  the processor in the end; a receive call has a time-out, and a slave answers or
  does not (`Lose`). No fairness of `CanRx`, `Move`, `Noise` or `MainBeat`: nobody has to send.
- *CanRx*: weak fairness of the interrupt (a pending one is served), of the start-up
  sequence and of the reader. None of `Arrive`.
- *CanTx*: weak fairness of each writer, of each handler and of the
  controller's attempt at each mailbox. The last one is an assumption on the bus: with
  a controller in bus-off a write does not return, for the wait has no time-out.
- *MsgQueue*: strong fairness of each caller inside a call, since the tick handler
  disables the threads for a moment and again for another timer; a
  ready thread is one that is enabled again and again. Weak fairness of the time-out
  function once its timer was deactivated. Whether calls are made, and whether
  timers expire, is left open.
- *Ipc*, *Mutex* and *Heap* state safety only.

## 6. Proofs

Every theorem is about `Spec` and all values of the constants that satisfy the module's
assumptions.

### Receive path (`CanRx_proofs`)

For every set of nodes, every depth of the controller's FIFO, every semaphore maximum, every set of
unwanted frames and every number of frames. The assumptions: there is at least one node; the
semaphore can count that many; the controller's FIFO has a place; the zeroed message is not wanted.

- `TypeCorrect`: `[]TypeOK`. `TypeOK` is not inductive: `ReadGiveBack` appends `held`, which is a
  node only while the reader copies. The invariant is `TypeInv`, which is
  `TypeOK` and `ReaderHolds`.
- `NodesAreConserved`: `[]NodesConserved`. The property says that `freenumbers`
  is at most the number of nodes, which needs counting. The
  invariant `NodesInv` adds that the lengths of the two lists and the node in
  hand add up to the number of nodes (`NodesAddUp`), which each step keeps by
  arithmetic alone; the bound follows without any cardinality of a range.
- `NoLostWakeup`: `[]NoStranded`. When the reader is not blocked nothing in
  `NoStranded` says how many tokens there are, so it is not inductive either. `TokensCoverFrames`
  is: the tokens, plus one for a reader that is awake and about to read, cover the unread frames except the
  unannounced ones, and a blocked reader leaves no token. It needs `NodesInv`, for
  `rx_sem` stops counting at its maximum: the frames never outnumber the nodes,
  which is why the assumption that the semaphore can count the nodes is there.

- `FramesAreInOrder`: `[]QueuedInOrder`. `FramesInv` lines up every frame there is: those queued, the one the
  reader read last, the one in its hands, those in `uselist`, those in the controller (`ReadSorted`,
  `WaitingSorted`). Storing a frame is a shift of the frames in `uselist` by one place or none (`Shifted`), and
  leaves the node in the reader's hands alone, which is what `NodesInv` is needed for. That the reader queues no
  frame twice while none is overwritten rests on the tokens: each stands for a frame until
  then (`TokensAreFrames`), so the reader finds `uselist` empty only afterwards.
- `LossesAreReported`: `[]LossReported`. The property is inductive but for one fact: between copying a frame and
  giving its node back the reader has the frame in `rxmsg` too (`CopyInNode`). The assumption of two
  nodes is used in `SomeNode`: with one, which the reader holds, a frame that comes is dropped uncounted.

The interrupt's lemmas (`HwCanIsrType`, `HwCanIsrReader`, `HwCanIsrNodes`, `HwCanIsrCovers`)
are stated once and used for both of its passes.

### Transmit path (`CanTx_proofs`)

For any finite set of writers, any number of writes and one to three boxes.

- `TypeCorrect` and `BoxesAreConserved`: `[]TypeOK` and `[]BoxesConserved`, from the one invariant
  `BoxesInv`. That a writer which has the semaphore finds a box follows from `SemCounts`: the length of
  `freelist` is what the semaphore counts plus the writers that have taken it and not yet a box, or given back a
  box and not yet the semaphore. It needs the queue of the semaphore without repetitions (`SemQueue`)
  and that a completion's waiter sleeps on the box it holds (`WaiterSleeps`), because both the release and
  the interrupt move another thread's program counter.
- `ResultsAreTruthful`: `[]ResultTruthful`. `TruthInv` follows one message through the mailbox: it is
  not on the bus before it is sent (`UnsentBefore`), a full mailbox holds the message of the box's
  holder, who waits (`MailPending`), a flag that is set tells the outcome of that message (`RqcpPending`),
  and a result once stored is true (`ResultsHonest`). The theorem holds for several boxes too, where writes may
  sleep for ever (finding 3): what is lost there is the completion, never the truth.

### Message queue (`MsgQueue_proofs`)

For any senders, receivers, handlers, ways of waiting, pool, and number of messages; the one assumption
that matters is that `EntryMax` is not below the size of the pool.

- `NodesAreConserved`: `[]NodesConserved`. The invariant `NodesInv` adds the types of the
  lists. That `entry` never meets `RT_MQ_ENTRY_MAX`, when a message would stay linked and uncounted, follows
  from the lists without repetitions and the node in the sender's hand.
- `QueueImplementsBuffer`: `Spec => ImplementsBuffer`, the refinement of `MessageBuffer`. The steps are
  simulated one by one under `BufferInv`: `NodesInv`, the numbers of messages in
  hand are fresh and differ (`Fresh`), and a queued or unlinked node is filled with a message that
  was linked (`Filled`). The threads' states and timers play no part: whoever is asleep, the
  messages are safe.
- `WakeupsAreNotLost`: `[]NoLostWakeup`. `WakeInv` adds to `NodesInv` and the property what holds of the callers
  (`SleepInv`): the two suspend lists hold exactly the suspended callers, each once (`Listed`); only threads
  receive, and handlers never wait (`Roles`); a timer that was set runs until the wait ends or its function is about
  to run (`TimersRun`). Each step changes the left and the right side of an inequality by
  one, or resumes the head of a list. A receive resumes a sender without exception, for a thread makes
  it and no timer is expiring while threads run (`FirstWakes`); a send may come from a handler in that moment, and
  resumes nobody: `swallowed` counts these messages while they are queued, and the theorem holds for all but as many. Every send counts and resumes, since `entry` is below its maximum (`LinkedRange`).
- `TypeCorrect`: `[]TypeOK`, from the invariants of the other theorems.

### Semaphore, event, mailbox and completion (`Ipc_proofs`)

For any finite set of threads, any flags and requests, any size of the mailbox, any limits of the semaphore, and the
interrupt handlers between any two steps. The theorems rest on one invariant, `IInv` (`InductiveInvariant`):

- `ThreadsInv`: the types of the threads' variables, `TimersRun`, and a suspended thread is at one of the five
  places where one sleeps. `TimersRun` is what the hazard of `sched_flag_ttmr_set` is about: were the flag kept from an
  earlier wait, a thread waiting for ever could not be resumed (`WhoCanReady`).
- one invariant per object (`SemInv`, `EvInv`, `MailInv`, `CompInv`), which speaks only of the threads that sleep
  at the labels of that object, through `Listed` (they are on its list) and `Awake` (they were resumed and have not run).

An operation of one object may change no thread that sleeps at another: that is `Within(labels)`, and the lemmas
`SemElsewhere`, `EvElsewhere`, `MailElsewhere` and `CompElsewhere` say that each invariant survives it. So each action is
proved once, for its own object. The steps all objects share are two: `ExpireKeeps` and `TimeoutKeeps`, which takes the
thread off whatever list it is on. From `IInv` follow `TypeCorrect`, `ListsHoldSleepers`, `TokensAreAccounted`,
`MailIsHeard` and `CompletionsAreKept`; `EventsAreHeard` and `MailboxBuffers` are about steps, from the same
invariant. `MailboxBuffers` is an action property: each step of the ring is one of a bounded buffer, or leaves it as it is.

- The semaphore: `TokensAreAccounted` counts every release that returned `RT_EOK`. Those which found the first
  waiter's timer expiring are in `lost`, and only those: every other token is in the value, handed or taken.

- The event: a send resumes the satisfied waiters, and those that clear do so after the last was judged. The
  invariant says that who sleeps is not satisfied, except while its time-out function is about to run.
- The mailbox: `RingInv` says that the offsets are `entry` apart, modulo the size; the mapping reads the buffer off
  the ring from `outOff` on, which a send extends at its end, an urgent send at its front, and a receive shortens.
  `MailIsHeard` holds for all mails but `swallowed` many, those whose send resumed nobody.
- The completion: `owed` counts what the word says, and a thread that comes back awake while the word still
  holds it has an error.

The proofs take a thread out of the middle of a list with `Without`, whose definition says which places are kept, and
`SeqLemmas` proves that it keeps the other threads in order, each once (`WithoutList`, from `NthMember`). With
`SelectSeq`, which is recursive, that would need induction over data. `MCIpc` has TLC check that the two agree.

### Application (`Gateway_proofs`)

- `BusIsOrdered`: `[]BusOrder`, for every set of frames, both capacities, every set of faults and all
  bounds. `OrderInv` says that the path from `can_tx_queue` over `can_tx_thread` to the bus is sorted per
  producer (`PathSorted`), that heartbeats on it are numbered up to `beat` and replies up to the number of
  frames received (`Counted`), that the requests in `can_rx_queue` are sorted and come after the one in
  hand (`RequestsSorted`), and that each reply on the path answers a request before all of those
  (`RepliesBefore`). The contents of the frames play no part, so that their types are not needed.
- `RepliesDoAnswer`, `EchoesAreExplained` and `LowHalfNeverAlone`: `[]RepliesAnswer`,
  `[]EchoUnlessMisled` and `[]NoLoneLowHalf`, as generally. What a reply says depends on what happened
  several steps and two actors earlier, so `TraceInv` follows each transaction from the request to the
  reply: a request on the line and an answer in the FIFO that is not noise belong to a transaction some received frame
  asks for (`WireTraced`, `FifoTraced`), a write whose answer is no refusal, damaged or not, was executed, and whatever was sent,
  executed or answered comes after the earlier transactions of its request are past (`Covered`): every write
  among them executed, or ended by an answer that misled. `HandTraced` says the same of the request in hand
  and counts what it has issued; `RepliesTraced` of the replies on the path. The step that needs it is
  `MdReceiveTraced`: an answer that is the transaction's own, no refusal and no noise, was put into the FIFO by the slave
  that executed the write. `PlanShape` and `ReplyHeader` are what is needed of the handlers' tables; the rest
  follows from `OrderInv`, without which a reply could still be waiting for a transaction to be issued.
- `TypeCorrect`: `[]TypeOK`. The two invariants above place the request in hand in `got`, so that its frame and
  the tables' entries have their types (`HandTyped`, `PlanTyped`); a reply is built from one
  outcome per transaction that is past (`ValsCounted`): a word read or, where the read failed, the uninitialised word
  or the error number that the code hands on in its place.
- `ReadsAreHonest`: `[]ReadsHonest`. `HonestInv`: an undamaged answer in the FIFO carries what its register may
  read (`FifoHonest`), and the words read in hand, or those a reply was built from, do so where the
  transaction took its own answer (`Faithful`). It needs that no transaction of a request still to be
  read is marked as heeded (`HeededBefore`), or an uninitialised word could pass for one that was.
  That each half belongs to a position held is kept as the motor moves because the positions held only become more
  (`ValuesStay`).

`SeqLemmas` proves what appending, taking the head and putting in front do to the range of a list
without repetitions.

### Heap (`Heap_proofs`)

For memory of every `Size`, every set of `Sizes` that callers ask for and any number of blocks; `SizeAssumption` is
the only assumption.

- `HeapIsTiled`, `BlocksAreOwned`, `DataIsKept`, `FailsOnlyWhenNoRoom`: `[]Tiled`, `[]BlocksOwned`,
  `[]DataKept` and `[]FailsOnlyWhenFull`, all from one invariant, `IInv`, for none of them is inductive by itself.
  It has three layers. `Sound`: the chain of headers is whole in both directions and no header is written over.
  `Good`: besides, `lfree` is the lowest free block (`LowestFree`), no two free blocks touch (`Apart`), and `used`
  counts the units of the blocks in use (`Counted`). `Served`: each caller has a block in use large enough, which
  holds what was written to it, and no block is in use without a caller.
- The lemmas follow the code. A block cut in two (`Split`) and two joined leave the chain sound and
  every block in use as it was (`SameUse`); so the two halves of `plug_holes` may assume that only the freed block
  touches a free one, and leave none that do. From these come one lemma per function of the code, allocation, release and shrinking,
  which says that the heap stays good and which blocks in use have changed; only then do the callers come in, action by
  action.
- That `rt_smem_alloc` fails only when there is no room needs all of `Good`: below `lfree` nothing is free, or the search
  would pass it by; and a gap between two blocks in use is one free block, or the search would see it in pieces.
- `used` is compared with the number of units in the blocks in use, as a set, and not with the sum of their sizes,
  which would need induction over the set of blocks. The two say the same of blocks that do not
  overlap.

### Mutex (`Mutex_proofs`)

For any finite sets of threads and mutexes, any initial priorities and ceilings, chains of owners of any length, and
circles of them too: threads that take two mutexes in opposite orders wait for one another for ever, and the loop of
`_thread_update_priority` goes round.

- The loop comes first. `LoopInv` says that between two rounds all lists of waiters are in order, except the one of the
  thread whose priority has just changed, which is so without that thread; that every owner heeds its mutexes
  (`Heeded`: it runs at least at the priority kept in each); and that nobody is boosted who was not. `FollowKeeps` proves
  it of a round. What is left in the end is `Settled`, provided the loop ends: `RunStops`.
- `RunStops` proves that it does, within two rounds per thread. If it did not, the walk along the owners would come back
  to a thread it has met (`ComesRound`, by the pigeonhole principle) and go round that circle once more. A round
  passes on the priority of the thread before, or one that does not depend on it (`RoundsCompared`). Each thread's
  priority has changed between the two times round, or the loop would have ended there; so the more urgent of the two
  was passed on each time, the same number all the way round, and where the circle closes nothing has changed
  (`NoChangeAllRound`).
  The state after n rounds is a recursive function; `UpdatedIsRun` says so without induction over data, for the
  invariant is carried from one round to the next by a least counterexample (`LeastOf`, `Climb`).
- `UpdatedSettles` is the summary of the two, and all the proofs of the actions use of the loop.
- `IInv` is: the types, where each thread is (`Places`), the counts (`Counted`), and that all is `Settled` now.
  `Heeded` is what makes it inductive. `NoInversion` by itself is not: a release lowers the owner by comparing with
  the priority kept in the mutex, not with the waiters'. From `IInv` follow `TypeCorrect`, `HandOverIsSound`,
  `WaitersStaySorted`, `PrioritiesAreInherited` and `MutexPrioIsHeads`; `BoostsEnd` is about steps, and each
  action's lemma (`Keeps`) proves it along with the invariant. The exception is `ResumeTimedOut`, of which finding 4
  tells.

Only model-checked: the liveness properties (`ReadsAnswered`, `RequestsServed`, `TxDrains`, `CatchesUp`,
`EveryWriteReturns`, `SleepersServed`), which are out of the prover's reach as is all that needs `ENABLED`. Every other
property of a passing run is a theorem.

## 7. Findings

1. `gw_echo`. `modbus_to_can_handle.c:152` echoes the command "if the Modbus write
   succeeded". `modbus_send_till_recv` (`user_modbus.c:170`) counts any answer as success:
   a slave that refuses the write with an exception is echoed too; a damaged refusal, a late answer and noise
   pass in the same way, and `EchoUnlessMisled` says that nothing else does.
2. `rx_stale`. When a node is overwritten the callback runs all the same, so `rx_sem` holds more tokens
   than there are frames. `can_rx_thread` ignores the length `rt_device_read` returns and
   queues its previous frame once more: a command is executed twice.
3. `tx_boxes`. `_can_tx_isr` ends with a read-modify-write of the TSR that clears all completion flags
   (`drv_can.c:787`), where its comment speaks of one. With more than one send box a
   completion is lost and the writer sleeps for ever. The board uses one box, where `tx_safe` shows
   that it does not happen.
4. `mutex_stale`. A thread can keep an inherited priority after it has released every mutex, against
   `ipc.c:844`. `low` owns `m2`. `mid` owns `m1` and waits for `m2` with a time-out, and `low` is raised to 5, the
   priority of `mid`. The time is up; before `mid` runs, `high` takes `m1` and raises `mid` to 3. `mid` comes back
   and compares its own priority, 3, with that of `low`, 5: they differ, so it updates nothing but the priority kept
   in `m2`, which becomes 0xff (`ipc.c:1478-1493`). `low` releases `m2`, compares 5 with 0xff, and
   leaves its priority alone.
5. `sem_assert`. The assertion of `_thread_timeout` (`thread.c:123`) does not hold when two handlers release between
   the deactivation of a timer and its function.

The models also show, when the properties are stated without their conditions:

- a position read in two transactions may be one the motor never had
  (`modbus_to_can_handle.c:36-38`), which is why `ReadsHonest` speaks of each half;
- a read without an answer is reported with an uninitialised word
  (`user_modbus.c:212`, `235`), which is why `ReadsHonest` has the condition `Answered`;
- an answer that comes after the time-out of its transaction is taken as that of the next one, of
  another register or command (`user_modbus.c:225`), which is why `NoLoneLowHalf`, `EchoUnlessMisled` and
  `ReadsHonest` have `misled`;
- `rt_sem_release` resumes the first waiter, its comment says (`ipc.c:686-687`), or increments the value. It does not
  look at whether `rt_susp_list_dequeue` resumed anybody (`ipc.c:715-720`): when the waiter's timer has just been
  deactivated, nobody is, the value stays as it was, and the release returns `RT_EOK` all the same. This is the token
  `TokensAccounted` counts in `lost`;
- a motor 6000 command never passes the receive filter (`user_can.c:56` against
  `user_modbus.c:45`);
- a frame that arrives before the callback is set stays unread until later ones push it out
  (`user_can.c:143-149`);
- a mutex's ceiling is given to a thread that takes the mutex free, not to one it is handed to
  (`ipc.c:1659`), which is why no property says that an owner runs at the ceiling;
- `rt_realloc` to a size that is only a little smaller allocates a new block, and may fail, though the
  old one has room (`mem.c:480`).

## 8. What is abstracted, and what is not modelled

- Time. Delays and time-outs are steps that may happen; no property is about durations.
- Priorities, but for `Mutex`. Any ready thread may run next, which includes what the scheduler picks.
- A frame's bytes are two 16-bit words and four header bytes; only the values the
  handlers branch on or report are told apart.
- `agile_modbus` and `rs485` are external packages, not in the repository: they are
  modelled from their uses. CRC and framing are the outcome "accepted or not". That
  `handle_power_read` passes an array of one for two registers, and that the context
  buffers of `md_m_send` live on the dead stack of `userModbusInitialize`, is undefined
  behaviour whose effects the model does not follow (see the hazards).
- In `CanTx` an interrupt handler is one step, which one processor and equal interrupt
  priorities justify; in `CanRx` the two passes of the handler are steps, because a frame may
  arrive in between.
- In `Gateway` the queues are bounded sequences. `MsgQueue` checks that the kernel's queue
  is one, and its refinement is proved.
- In `Ipc`, assignments to `thread->error` that nothing reads after a wait are left out, and so is the error
  number of `rt_completion_wakeup_by_errno`, which only the ktime timers pass, and those are not configured.
  A second waiter of a completion is stopped by the code's assertion, and by the guard here.
- In `Heap` a call is one step, for the lock of the heap is held throughout; the peak usage and the
  tracing of owners are left out. Sizes are natural numbers, in units of 8 bytes: that `RT_ALIGN` of a size near
  2^32 wraps to a small one (`mem.c:286`, `417`) is outside the model. A `rt_realloc` that fails changes nothing and
  is no step of its own.
- Not modelled: closing devices, private mode and hardware filters of CAN; detaching and
  deleting kernel objects, which end the object (deleting a thread from another one, moreover, leaves the mutexes
  it has taken owned by it, `thread.c:158`); resetting a message queue; priority-ordered suspend lists other than the mutex's;
  `rt_mutex_drop_thread`; the soft timer thread; the scheduler; memory pools; the serial device; the shell and its flash
  command; vendored and generated code, which is by far the largest part of the repository and is register access,
  tables and other boards' drivers. The reasons are in the components of `PROJECT.json`.

## 9. Plan

Done, in the order of what matters most for the board: Gateway, CanRx, CanTx,
ThreadWait, Semaphore, MsgQueue with its abstract specification, the proofs about CanRx; then Mutex, Heap,
Event, Mailbox, Completion and their composition, and the proofs about CanTx, MsgQueue, Gateway, Ipc, Heap and Mutex.

What is left, to model:

1. An abstract specification of the gateway as a service (a request is accepted or dropped, then answered at
   most once), implemented by `Gateway`, and `Gateway`'s queues replaced by `MessageBuffer`.
2. The serial receive FIFO: the ring's indices and the full flag against a reader, as a
   refinement of a bounded sequence that drops its oldest byte.
3. The scheduler (ready table, yield, lock nesting) with priorities, under which the busy loop of
   `md_m_send` starves whatever has a lower one; memory pools with waiting threads.
4. Detaching and deleting objects with waiting threads.

To prove: the refinement and the invariants of whatever is added; of what there is, all but the liveness properties
is proved.
