------------------------------ MODULE MsgQueue ------------------------------
(***************************************************************************)
(* The message queue of the kernel (rt-thread/src/ipc.c), which the two    *)
(* CAN queues of the application are: rt_mq_send, rt_mq_send_wait and      *)
(* rt_mq_urgent (from threads and interrupt handlers), rt_mq_recv.         *)
(*                                                                         *)
(* The messages live in nodes of the pool given to rt_mq_init.  A send     *)
(* takes a node off msg_queue_free in one critical section, fills it with  *)
(* interrupts enabled, and links it into the queue in another; a receive   *)
(* unlinks the head in one, copies, and frees the node in another.  Other  *)
(* callers come in between.                                                *)
(*                                                                         *)
(* A message is its number in the order of the sends, and whether it is    *)
(* urgent; linked and delivered are history variables, the messages ever   *)
(* linked into the queue and those ever returned by rt_mq_recv.  swallowed *)
(* counts the messages in the queue whose wake-up was lost.                *)
(***************************************************************************)
EXTENDS ThreadWait

CONSTANTS
  Senders, Receivers,  \* the threads that send and that receive
  Isrs, IsrUrgent,     \* interrupt handlers that send; whether urgently
  SendModes, RecvModes,  \* how threads wait: "no", "timed", "forever"
  Pool, NoNode,        \* the nodes; no node
  EntryMax,            \* RT_MQ_ENTRY_MAX
  MaxSends             \* bound: messages sent in a behaviour

Procs == Threads \cup Isrs

ASSUME RolesAssumption ==
  /\ Threads = Senders \cup Receivers /\ Senders \cap Receivers = {}
  /\ Isrs \cap Threads = {} /\ IsrUrgent \in BOOLEAN
ASSUME ModesAssumption ==
  SendModes \cup RecvModes \subseteq {"no", "timed", "forever"}
ASSUME PoolAssumption ==
  /\ IsFiniteSet(Pool) /\ NoNode \notin Pool
  /\ EntryMax \in Nat /\ Cardinality(Pool) <= EntryMax /\ MaxSends \in Nat

VARIABLES
  free,             \* msg_queue_free, a stack of nodes
  queue, entry,     \* msg_queue_head .. msg_queue_tail, and entry
  recvWait, sendWait,   \* parent.suspend_thread, suspend_sender_thread
  data,             \* the message in a node
  pc, node, msg, mode,  \* of each caller
  sends, linked, delivered,
  swallowed         \* history: messages in the queue that missed their receiver

mqVars  == << free, queue, entry, recvWait, sendWait, data >>
callers == << pc, node, msg, mode >>
history == << sends, linked, delivered, swallowed >>
vars == << waitVars, mqVars, callers, history >>

Message == [n : 1..MaxSends, urgent : BOOLEAN]
NoMessage == [n |-> 0, urgent |-> FALSE]

Init ==
  /\ WaitInit
  /\ free \in Bijection(1..Cardinality(Pool), Pool)
  /\ queue = << >> /\ entry = 0 /\ recvWait = << >> /\ sendWait = << >>
  /\ data = [n \in Pool |-> NoMessage]
  /\ pc = [p \in Procs |-> "idle"] /\ node = [p \in Procs |-> NoNode]
  /\ msg = [p \in Procs |-> NoMessage] /\ mode = [p \in Procs |-> "no"]
  /\ sends = 0 /\ linked = {} /\ delivered = {} /\ swallowed = 0

(* Threads run only while no interrupt handler does; the handlers do not   *)
(* interrupt each other.                                                   *)
CanRun(p) ==
  IF p \in Threads THEN expiring = NoThread /\ \A i \in Isrs : pc[i] = "idle"
                   ELSE \A i \in Isrs \ {p} : pc[i] = "idle"

Goto(p, l) == pc' = [pc EXCEPT ![p] = l]

(* The call returns, and its locals are gone.                              *)
Return(p) ==
  /\ Goto(p, "idle")
  /\ node' = [node EXCEPT ![p] = NoNode] /\ msg' = [msg EXCEPT ![p] = NoMessage]
  /\ mode' = [mode EXCEPT ![p] = "no"]

-----------------------------------------------------------------------------
(* _rt_mq_send_wait, and rt_mq_urgent by the handlers with IsrUrgent.      *)
SendCall(p, m) ==
  /\ CanRun(p) /\ pc[p] = "idle"
  /\ p \in Senders \/ (p \in Isrs /\ m = "no")
  /\ sends < MaxSends
  /\ sends' = sends + 1
  /\ msg' = [msg EXCEPT ![p] = [n |-> sends', urgent |-> p \in Isrs /\ IsrUrgent]]
  /\ mode' = [mode EXCEPT ![p] = m]
  /\ Goto(p, "send")
  /\ UNCHANGED << waitVars, mqVars, node, linked, delivered, swallowed >>

(* Faulty variant: the node stays on msg_queue_free.                       *)
SendAllocShared(p) ==
  /\ CanRun(p) /\ pc[p] = "send" /\ free # << >>
  /\ node' = [node EXCEPT ![p] = Head(free)]
  /\ Goto(p, "link")
  /\ UNCHANGED << waitVars, mqVars, msg, mode, history >>

SendAlloc(p) ==
  /\ CanRun(p) /\ pc[p] = "send" /\ free # << >>
  /\ node' = [node EXCEPT ![p] = Head(free)]
  /\ free' = Tail(free)
  /\ Goto(p, "link")
  /\ UNCHANGED << waitVars, queue, entry, recvWait, sendWait, data, msg, mode, history >>

(* -RT_EFULL at once, or suspended until a receiver frees a node.          *)
SendFull(p) ==
  /\ CanRun(p) /\ pc[p] = "send" /\ free = << >>
  /\ IF mode[p] = "no"
       THEN Return(p) /\ UNCHANGED << waitVars, sendWait >>
       ELSE /\ Suspend(p, mode[p] = "timed")
            /\ sendWait' = Append(sendWait, p)
            /\ Goto(p, "sendAsleep")
            /\ UNCHANGED << node, msg, mode >>
  /\ UNCHANGED << free, queue, entry, recvWait, data, history >>

(* Faulty variant: the newest message goes first.                          *)
SendLinkAtHead(p) ==
  /\ CanRun(p) /\ pc[p] = "link"
  /\ data' = [data EXCEPT ![node[p]] = msg[p]]
  /\ queue' = << node[p] >> \o queue
  /\ linked' = linked \cup {msg[p]}
  /\ entry' = entry + 1
  /\ DequeueEffect(recvWait) /\ recvWait' = Dequeued(recvWait)
  /\ Return(p)
  /\ UNCHANGED << free, sendWait, sends, delivered, swallowed >>

(* The node is filled and linked, entry counted (up to RT_MQ_ENTRY_MAX),   *)
(* and the first suspended receiver resumed.                               *)
SendLink(p) ==
  /\ CanRun(p) /\ pc[p] = "link"
  /\ data' = [data EXCEPT ![node[p]] = msg[p]]
  /\ queue' = IF msg[p].urgent THEN << node[p] >> \o queue ELSE Append(queue, node[p])
  /\ linked' = linked \cup {msg[p]}
  /\ IF entry < EntryMax
       THEN /\ entry' = entry + 1
            /\ DequeueEffect(recvWait) /\ recvWait' = Dequeued(recvWait)
            /\ swallowed' = IF Missed(recvWait) THEN swallowed + 1 ELSE swallowed
       ELSE UNCHANGED << entry, waitVars, recvWait, swallowed >>
  /\ Return(p)
  /\ UNCHANGED << free, sendWait, sends, delivered >>

(* _rt_mq_recv.                                                            *)
RecvCall(p, m) ==
  /\ CanRun(p) /\ pc[p] = "idle" /\ p \in Receivers
  /\ mode' = [mode EXCEPT ![p] = m]
  /\ Goto(p, "recv")
  /\ UNCHANGED << waitVars, mqVars, node, msg, history >>

RecvUnlink(p) ==
  /\ CanRun(p) /\ pc[p] = "recv" /\ entry > 0
  /\ node' = [node EXCEPT ![p] = Head(queue)]
  /\ queue' = Tail(queue)
  /\ entry' = entry - 1
  /\ swallowed' = IF swallowed < entry THEN swallowed ELSE entry'
  /\ Goto(p, "free")
  /\ UNCHANGED << waitVars, free, recvWait, sendWait, data, msg, mode,
                  sends, linked, delivered >>

RecvEmpty(p) ==
  /\ CanRun(p) /\ pc[p] = "recv" /\ entry = 0
  /\ IF mode[p] = "no"
       THEN Return(p) /\ UNCHANGED << waitVars, recvWait >>
       ELSE /\ Suspend(p, mode[p] = "timed")
            /\ recvWait' = Append(recvWait, p)
            /\ Goto(p, "recvAsleep")
            /\ UNCHANGED << node, msg, mode >>
  /\ UNCHANGED << free, queue, entry, sendWait, data, history >>

(* Faulty variant: no sender is resumed.                                   *)
RecvFreeResumesNone(p) ==
  /\ CanRun(p) /\ pc[p] = "free"
  /\ free' = << node[p] >> \o free
  /\ delivered' = delivered \cup {data[node[p]]}
  /\ Return(p)
  /\ UNCHANGED << waitVars, queue, entry, recvWait, sendWait, data, sends, linked, swallowed >>

(* The message copied, its node is freed and the first suspended sender    *)
(* resumed.                                                                *)
RecvFree(p) ==
  /\ CanRun(p) /\ pc[p] = "free"
  /\ free' = << node[p] >> \o free
  /\ DequeueEffect(sendWait) /\ sendWait' = Dequeued(sendWait)
  /\ delivered' = delivered \cup {data[node[p]]}
  /\ Return(p)
  /\ UNCHANGED << queue, entry, recvWait, data, sends, linked, swallowed >>

(* Back from rt_schedule: an error ends the call; otherwise it tries again *)
(* with what is left of its time-out, possibly nothing.                    *)
Retry == [sendAsleep |-> "send", recvAsleep |-> "recv"]

(* Faulty variant: the call ends, resumed or timed out.                    *)
ResumeGivesUp(p, m) ==
  /\ p \in Threads /\ CanRun(p) /\ pc[p] \in DOMAIN Retry /\ ~suspended[p]
  /\ m = mode[p] \/ (mode[p] = "timed" /\ m = "no")
  /\ Return(p)
  /\ UNCHANGED << waitVars, mqVars, history >>

Resume(p, m) ==
  /\ p \in Threads /\ CanRun(p) /\ pc[p] \in DOMAIN Retry /\ ~suspended[p]
  /\ m = mode[p] \/ (mode[p] = "timed" /\ m = "no")
  /\ IF error[p] = "OK"
       THEN /\ mode' = [mode EXCEPT ![p] = m]
            /\ Goto(p, Retry[pc[p]])
            /\ UNCHANGED << node, msg >>
       ELSE Return(p)
  /\ UNCHANGED << waitVars, mqVars, history >>

Timeout(t) ==
  /\ ThreadTimeout(t)
  /\ recvWait' = Without(recvWait, {t}) /\ sendWait' = Without(sendWait, {t})
  /\ UNCHANGED << free, queue, entry, data, callers, history >>

Expire(t) == TimerExpires(t) /\ UNCHANGED << mqVars, callers, history >>

-----------------------------------------------------------------------------
(* A call once begun; which calls are made is up to the callers.           *)
InCall(p) == \/ SendAlloc(p) \/ SendFull(p) \/ SendLink(p)
             \/ RecvUnlink(p) \/ RecvEmpty(p) \/ RecvFree(p)
             \/ \E m \in {"no", "timed", "forever"} : Resume(p, m)
Begin(p)  == \/ \E m \in SendModes \cup {"no"} : SendCall(p, m)
             \/ \E m \in RecvModes : RecvCall(p, m)

Next == \/ \E p \in Procs : Begin(p) \/ InCall(p)
        \/ \E t \in Threads : Expire(t) \/ Timeout(t)

(* A thread that is ready again and again gets the processor in the end:   *)
(* the tick handler only holds it up (expiring # NoThread) for a moment.   *)
Fairness == /\ \A p \in Procs : SF_vars(InCall(p))
            /\ \A t \in Threads : WF_vars(Timeout(t))

Spec == Init /\ [][Next]_vars
LiveSpec == Spec /\ Fairness

-----------------------------------------------------------------------------
(* Properties.                                                             *)

(* Every variable stays within its type.                                   *)
TypeOK ==
  /\ WaitTypeOK
  /\ free \in Seq(Pool) /\ queue \in Seq(Pool) /\ entry \in Nat
  /\ recvWait \in Seq(Threads) /\ sendWait \in Seq(Threads)
  /\ data \in [Pool -> Message \cup {NoMessage}]
  /\ pc \in [Procs -> {"idle", "send", "link", "sendAsleep",
                       "recv", "free", "recvAsleep"}]
  /\ node \in [Procs -> Pool \cup {NoNode}] 
  /\ msg \in [Procs -> Message \cup {NoMessage}]
  /\ mode \in [Procs -> {"no", "timed", "forever"}]
  /\ sends \in Nat /\ linked \subseteq Message /\ delivered \subseteq Message
  /\ swallowed \in 0..entry

InHand(p) == pc[p] \in {"link", "free"}

(* Every node of the pool is in exactly one place: free, in the queue, or  *)
(* in the hands of one caller between its two critical sections; entry     *)
(* counts the queue, so that a receiver that sees entry > 0 finds a head   *)
(* (ipc.c:3792, 3858).                                                     *)
NodesConserved ==
  /\ IsInjective(free) /\ IsInjective(queue)
  /\ Range(free) \cap Range(queue) = {}
  /\ \A p \in Procs : InHand(p) => /\ node[p] \in Pool
                                   /\ node[p] \notin Range(free) \cup Range(queue)
  /\ \A p, q \in Procs : InHand(p) /\ InHand(q) /\ node[p] = node[q] => p = q
  /\ \A n \in Pool : \/ n \in Range(free) \cup Range(queue)
                     \/ \E p \in Procs : InHand(p) /\ node[p] = n
  /\ entry = Len(queue)

(* The queue is the promised buffer: messages come out in the order they   *)
(* went in, urgent ones first, none lost, doubled or read from a node that *)
(* has been filled again.                                                  *)
Abs == INSTANCE MessageBuffer WITH
         Messages <- Message, Urgent <- {m \in Message : m.urgent},
         Cap <- Cardinality(Pool),
         buf <- [i \in 1..Len(queue) |-> data[queue[i]]],
         fetched <- {data[node[p]] : p \in {q \in Procs : pc[q] = "free"}},
         seen <- linked
ImplementsBuffer == Abs!Spec

(* "If there is a thread suspended on the messagequeue, the thread will be *)
(* resumed" (ipc.c:3588).  The code does so except when an interrupt       *)
(* handler sends just as the time-out function of the first receiver is    *)
(* about to run: that send resumes nobody.  So while receivers are         *)
(* suspended, every message in the queue has a resumed receiver, or one    *)
(* about to look, to fetch it, but for as many messages as missed theirs   *)
(* so; these wait until a receiver comes by.  Suspended senders are        *)
(* resumed by threads, and no free node lacks its sender.                  *)
Looking(l, a) == {p \in Threads : \/ pc[p] = l
                                  \/ pc[p] = a /\ ~suspended[p] /\ error[p] = "OK"}
NoLostWakeup ==
  /\ recvWait # << >> =>
       entry <= Cardinality(Looking("recv", "recvAsleep")) + swallowed
  /\ sendWait # << >> => Len(free) <= Cardinality(Looking("send", "sendAsleep"))

(* A message in the queue does not stay there while a receiver sleeps,     *)
(* unless one in the queue missed its receiver; nor does a node stay free  *)
(* while a sender sleeps, unless the assertion of _thread_timeout has      *)
(* stopped the system.                                                     *)
SleepersServed ==
  /\ (entry > 0 /\ recvWait # << >>) ~> (entry = 0 \/ recvWait = << >> \/ swallowed > 0)
  /\ (free # << >> /\ sendWait # << >>) ~> (free = << >> \/ sendWait = << >>
                                         \/ ~TimeoutFindsSuspended)
=============================================================================
