--------------------------- MODULE MsgQueue_proofs ---------------------------
(***************************************************************************)
(* Proofs about the message queue, for every set of threads, of interrupt  *)
(* handlers and of nodes: a node is in one place, the queue is the buffer  *)
(* of MessageBuffer, and a message with receivers asleep has one coming.   *)
(***************************************************************************)
EXTENDS MsgQueue, SeqLemmas, FiniteSetTheorems

-----------------------------------------------------------------------------
(* What the steps of ThreadWait do to the threads, from what holds of      *)
(* their timers, as in Ipc_proofs.                                         *)

(* A timer that was set for a wait runs as long as the wait lasts, but for *)
(* the one whose time-out function is about to run, which does not.        *)
TimersRun ==
  /\ \A t \in Threads : suspended[t] /\ ttmr[t] => active[t] \/ expiring = t
  /\ expiring # NoThread => ~active[expiring]

WaitInv == WaitTypeOK /\ TimersRun

(* The threads of W are resumed, and no other thread starts or stops       *)
(* waiting; whoever hears of it has the error err.                         *)
Wakes(W, notified, err) ==
  /\ WaitInv' /\ expiring' = expiring
  /\ \A u \in Threads : /\ suspended'[u] <=> suspended[u] /\ u \notin W
                        /\ error'[u] = IF u \in notified THEN err ELSE error[u]

LEMMA WaitInitially == WaitInit => WaitInv
  BY ThreadsAssumption DEF WaitInit, WaitInv, WaitTypeOK, TimersRun

LEMMA WaitUnchanged == WaitInv /\ UNCHANGED waitVars => WaitInv'
  BY DEF WaitInv, WaitTypeOK, TimersRun, waitVars

LEMMA SuspendStep ==
  ASSUME WaitInv, expiring = NoThread, NEW t \in Threads, NEW timed \in BOOLEAN,
         NEW err \in {"OK", "EINTR", "ETIMEOUT", "ERROR"}, SuspendWith(t, timed, err)
  PROVE  /\ WaitInv' /\ expiring' = NoThread
         /\ \A u \in Threads : /\ suspended'[u] <=> suspended[u] \/ u = t
                               /\ error'[u] = IF u = t THEN err ELSE error[u]
<1>1. WaitTypeOK'
  BY DEF WaitInv, WaitTypeOK, SuspendWith
<1>2. ASSUME NEW u \in Threads
      PROVE  /\ suspended'[u] = (suspended[u] \/ u = t)
             /\ error'[u] = IF u = t THEN err ELSE error[u]
             /\ ttmr'[u] = IF u = t THEN timed ELSE ttmr[u]
             /\ active'[u] = IF u = t THEN timed ELSE active[u]
  BY DEF WaitInv, WaitTypeOK, SuspendWith
<1>3. TimersRun'
  BY <1>2, <1>1 DEF WaitInv, TimersRun, SuspendWith, WaitTypeOK
<1> QED
  BY <1>1, <1>2, <1>3 DEF WaitInv, SuspendWith

(* A suspended thread cannot be resumed exactly while its time-out         *)
(* function is about to run, and nobody has tried yet.                     *)
LEMMA WhoCanReady ==
  ASSUME WaitInv, NEW t \in Threads, suspended[t]
  PROVE  CanReady(t) <=> ~(expiring = t /\ ttmr[t])
  BY ThreadsAssumption DEF WaitInv, TimersRun, CanReady

(* An attempt to resume the first thread of a list of suspended threads.   *)
FirstResumed(list) == IF list # << >> /\ CanReady(Head(list)) THEN {Head(list)} ELSE {}

LEMMA DequeueStep ==
  ASSUME WaitInv, NEW list \in Seq(Threads), IsInjective(list), DequeueEffect(list),
         \A t \in Range(list) : suspended[t]
  PROVE  /\ Wakes(FirstResumed(list), FirstResumed(list), "OK")
         /\ Dequeued(list) \in Seq(Threads) /\ IsInjective(Dequeued(list))
         /\ Range(Dequeued(list)) = Range(list) \ FirstResumed(list)
         /\ FirstResumed(list) = {} => Dequeued(list) = list
         /\ list # << >> =>
              /\ Head(list) \in Range(list)
              /\ FirstResumed(list) = {} => expiring = Head(list) /\ ttmr[expiring]
              /\ FirstResumed(list) # {} => /\ FirstResumed(list) = {Head(list)}
                                            /\ ~(expiring = Head(list) /\ ttmr[expiring])
                                            /\ Dequeued(list) # list
<1>1. CASE list = << >>
  <2>1. FirstResumed(list) = {} /\ Dequeued(list) = list /\ UNCHANGED waitVars
    BY <1>1 DEF FirstResumed, Dequeued, DequeueEffect
  <2> QED
    BY <2>1, <1>1, WaitUnchanged DEF Wakes, waitVars
<1>2. CASE list # << >>
  <2> DEFINE h == Head(list)
  <2>1. h \in Threads /\ h \in Range(list) /\ suspended[h]
    BY <1>2, HeadTailProperties, TailRange
  <2>2. CanReady(h) <=> ~(expiring = h /\ ttmr[h])
    BY <2>1, WhoCanReady
  <2>3. ReadyOrFail(h)
    BY <1>2 DEF DequeueEffect
  <2> HIDE DEF h
  <2>4. CASE CanReady(h)
    <3>1. FirstResumed(list) = {h} /\ Dequeued(list) = Tail(list)
      BY <2>4, <1>2 DEF FirstResumed, Dequeued, h
    <3>2. /\ Tail(list) \in Seq(Threads) /\ IsInjective(Tail(list)) /\ Tail(list) # list
          /\ Range(Tail(list)) = Range(list) \ {h}
      BY <1>2, TailRange, HeadTailProperties DEF h
    <3>3. WaitTypeOK'
      BY <2>1, <2>3, <2>4 DEF WaitInv, WaitTypeOK, ReadyOrFail
    <3>4. ASSUME NEW u \in Threads
          PROVE  /\ suspended'[u] = (suspended[u] /\ u # h)
                 /\ error'[u] = IF u = h THEN "OK" ELSE error[u]
                 /\ ttmr'[u] = (ttmr[u] /\ u # h)
                 /\ active'[u] = (active[u] /\ u # h)
      BY <2>1, <2>3, <2>4 DEF WaitInv, WaitTypeOK, ReadyOrFail
    <3>5. expiring' = expiring
      BY <2>3 DEF ReadyOrFail
    <3>6. TimersRun'
      BY <3>4, <3>5 DEF WaitInv, WaitTypeOK, TimersRun
    <3> QED
      BY <3>1, <3>2, <3>3, <3>4, <3>5, <3>6, <2>1, <2>2, <2>4 DEF Wakes, WaitInv, h
  <2>5. CASE ~CanReady(h)
    <3>1. FirstResumed(list) = {} /\ Dequeued(list) = list
      BY <2>5, <1>2 DEF FirstResumed, Dequeued, h
    <3>2. /\ UNCHANGED << suspended, active, error, expiring >>
          /\ ttmr' = [ttmr EXCEPT ![h] = FALSE]
      BY <2>1, <2>3, <2>5 DEF ReadyOrFail, WaitInv, WaitTypeOK
    <3>3. WaitInv'
      BY <2>1, <3>2 DEF WaitInv, WaitTypeOK, TimersRun
    <3> QED
      BY <3>1, <3>2, <3>3, <2>1, <2>2, <2>5 DEF Wakes, h
  <2> QED
    BY <2>4, <2>5
<1> QED
  BY <1>1, <1>2

LEMMA ExpireStep ==
  ASSUME WaitInv, NEW t \in Threads, TimerExpires(t)
  PROVE  WaitInv' /\ UNCHANGED << suspended, error >>
  BY ThreadsAssumption DEF WaitInv, WaitTypeOK, TimersRun, TimerExpires

LEMMA TimeoutStep ==
  ASSUME WaitInv, NEW t \in Threads, ThreadTimeout(t)
  PROVE  /\ WaitInv' /\ expiring = t /\ expiring' = NoThread
         /\ \A u \in Threads : /\ suspended'[u] <=> suspended[u] /\ u # t
                               /\ error'[u] = IF u = t THEN "ETIMEOUT" ELSE error[u]
<1>1. WaitTypeOK'
  BY DEF WaitInv, WaitTypeOK, ThreadTimeout
<1>2. \A u \in Threads : /\ suspended'[u] = (suspended[u] /\ u # t)
                         /\ error'[u] = IF u = t THEN "ETIMEOUT" ELSE error[u]
  BY DEF WaitInv, WaitTypeOK, ThreadTimeout
<1>3. TimersRun'
  BY <1>2, ThreadsAssumption DEF WaitInv, TimersRun, ThreadTimeout
<1> QED
  BY <1>1, <1>2, <1>3 DEF WaitInv, ThreadTimeout

-----------------------------------------------------------------------------
(* The pool.                                                               *)

LEMMA PoolFacts ==
  /\ IsFiniteSet(Pool) /\ NoNode \notin Pool
  /\ Cardinality(Pool) \in Nat /\ Cardinality(Pool) <= EntryMax
  /\ EntryMax \in Nat /\ MaxSends \in Nat /\ Threads \subseteq Procs /\ Isrs \subseteq Procs
  BY PoolAssumption, FS_CardinalityType DEF Procs

-----------------------------------------------------------------------------
(* The nodes.                                                              *)

ListTypes ==
  /\ free \in Seq(Pool) /\ queue \in Seq(Pool)
  /\ pc \in [Procs -> {"idle", "send", "link", "sendAsleep",
                       "recv", "free", "recvAsleep"}]
  /\ node \in [Procs -> Pool \cup {NoNode}]
  /\ msg \in [Procs -> Message \cup {NoMessage}]
  /\ data \in [Pool -> Message \cup {NoMessage}]
  /\ sends \in Nat

NodesInv == ListTypes /\ NodesConserved

(* A step of caller p that touches neither a node nor a message: it enters *)
(* a call, sleeps, or ends its call.                                       *)
Quiet(p) ==
  /\ \A q \in Procs \ {p} : pc'[q] = pc[q] /\ node'[q] = node[q] /\ msg'[q] = msg[q]
  /\ ~InHand(p) /\ ~InHand(p)'
  /\ pc'[p] \in {"send", "sendAsleep"} =>
       pc[p] \in {"send", "sendAsleep"} /\ msg'[p] = msg[p]
  /\ pc' \in [Procs -> {"idle", "send", "link", "sendAsleep", "recv", "free", "recvAsleep"}]
  /\ node' \in [Procs -> Pool \cup {NoNode}]
  /\ msg' \in [Procs -> Message \cup {NoMessage}]
  /\ UNCHANGED << free, queue, entry, data, history >>

LEMMA QuietSteps ==
  ASSUME ListTypes, NEW p \in Procs,
         \/ SendFull(p) \/ RecvEmpty(p)
         \/ \E m \in RecvModes : RecvCall(p, m)
         \/ \E m \in {"no", "timed", "forever"} : Resume(p, m)
  PROVE  Quiet(p)
<1> USE DEF ListTypes, Quiet, InHand, Goto, Return
<1>1. CASE SendFull(p)
  BY <1>1 DEF SendFull, history
<1>2. CASE RecvEmpty(p)
  BY <1>2 DEF RecvEmpty, history
<1>3. CASE \E m \in RecvModes : RecvCall(p, m)
  BY <1>3 DEF RecvCall, mqVars, history
<1>4. ASSUME NEW m \in {"no", "timed", "forever"}, Resume(p, m) PROVE Quiet(p)
  <2>1. pc[p] \in {"sendAsleep", "recvAsleep"} /\ UNCHANGED << free, queue, entry, data, history >>
    BY <1>4 DEF Resume, Retry, mqVars, history
  <2>2. CASE error[p] = "OK"
    <3>1. /\ pc' = [pc EXCEPT ![p] = IF pc[p] = "sendAsleep" THEN "send" ELSE "recv"]
          /\ UNCHANGED << node, msg >>
      BY <1>4, <2>1, <2>2 DEF Resume, Retry
    <3> QED
      BY <2>1, <3>1
  <2>3. CASE error[p] # "OK"
    <3>1. Return(p)
      BY <1>4, <2>3 DEF Resume
    <3> QED
      BY <2>1, <3>1
  <2> QED
    BY <2>2, <2>3
<1> QED
  BY <1>1, <1>2, <1>3, <1>4

LEMMA QuietKeepsNodes ==
  ASSUME NodesInv, NEW p \in Procs, Quiet(p)
  PROVE  NodesInv'
<1> USE DEF NodesInv
<1>1. \A q \in Procs : (InHand(q)' <=> InHand(q)) /\ (InHand(q) => node'[q] = node[q])
  BY DEF Quiet, InHand
<1>2. ListTypes'
  BY DEF Quiet, ListTypes, history
<1>3. NodesConserved'
  BY <1>1 DEF Quiet, NodesConserved
<1> QED
  BY <1>2, <1>3

LEMMA NodesInit == Init => NodesInv
<1> SUFFICES ASSUME Init PROVE NodesInv
  OBVIOUS
<1>1. /\ free \in [1..Cardinality(Pool) -> Pool] /\ IsInjective(free)
      /\ \A n \in Pool : \E i \in 1..Cardinality(Pool) : free[i] = n
  BY DEF Init, Bijection, Injection, Surjection
<1>2. free \in Seq(Pool) /\ Len(free) = Cardinality(Pool)
  BY <1>1, PoolFacts, SeqDef, LenProperties
<1>3. \A n \in Pool : n \in Range(free)
  BY <1>1, <1>2, InRange
<1>4. queue = << >> /\ queue \in Seq(Pool) /\ Range(queue) = {} /\ IsInjective(queue)
      /\ entry = Len(queue)
  BY DEF Init, Range, IsInjective
<1>5. \A p \in Procs : ~InHand(p)
  BY DEF Init, InHand
<1>6. ListTypes
  BY <1>2, <1>4 DEF Init, ListTypes
<1>7. NodesConserved
  BY <1>1, <1>3, <1>4, <1>5 DEF NodesConserved
<1> QED
  BY <1>6, <1>7 DEF NodesInv

(* A queue that lacks a node of the pool is shorter than the pool.         *)
LEMMA ShortQueue ==
  ASSUME NEW s \in Seq(Pool), IsInjective(s)
  PROVE  /\ Len(s) \in Nat /\ Len(s) <= Cardinality(Pool)
         /\ \A n \in Pool : n \notin Range(s) => Len(s) < Cardinality(Pool)
<1>1. Len(s) \in Nat /\ s \in [1..Len(s) -> Pool]
  BY LenProperties
<1>2. s \in Injection(1..Len(s), Pool)
  BY <1>1 DEF Injection
<1>3. Cardinality(1..Len(s)) = Len(s)
  BY <1>1, FS_Interval
<1>4. /\ Len(s) <= Cardinality(Pool)
      /\ Len(s) = Cardinality(Pool) <=> s \in Surjection(1..Len(s), Pool)
  BY <1>2, <1>3, PoolFacts, FS_Injection
<1>5. ASSUME NEW n \in Pool, n \notin Range(s) PROVE Len(s) # Cardinality(Pool)
  BY <1>4, <1>5, InRange DEF Surjection
<1> QED
  BY <1>1, <1>4, <1>5, PoolFacts

(* The call begins with a message of its own.                              *)
LEMMA SendCallKeepsNodes ==
  ASSUME NodesInv, NEW p \in Procs, NEW m, SendCall(p, m)
  PROVE  NodesInv'
<1> USE DEF NodesInv, SendCall, Goto, mqVars
<1>1. /\ pc' \in [Procs -> {"idle", "send", "link", "sendAsleep", "recv", "free", "recvAsleep"}]
      /\ \A q \in Procs : InHand(q)' <=> InHand(q)
  BY DEF ListTypes, InHand
<1>2. msg' \in [Procs -> Message \cup {NoMessage}] /\ sends' \in Nat
  <2>1. sends' \in 1..MaxSends /\ sends' \in Nat
    BY PoolFacts DEF ListTypes
  <2>2. PICK u \in BOOLEAN : msg' = [msg EXCEPT ![p] = [n |-> sends', urgent |-> u]]
    OBVIOUS
  <2>3. [n |-> sends', urgent |-> u] \in Message
    BY <2>1 DEF Message
  <2> QED
    BY <2>1, <2>2, <2>3 DEF ListTypes
<1>3. ListTypes'
  BY <1>1, <1>2 DEF ListTypes
<1>4. NodesConserved'
  BY <1>1 DEF NodesConserved
<1> QED
  BY <1>3, <1>4

(* A node leaves msg_queue_free for the hands of a sender.                 *)
LEMMA SendAllocKeepsNodes ==
  ASSUME NodesInv, NEW p \in Procs, SendAlloc(p)
  PROVE  NodesInv'
<1> USE DEF NodesInv, SendAlloc, Goto, history
<1>1. /\ free' \in Seq(Pool) /\ Head(free) \in Pool
      /\ Head(free) \in Range(free) /\ Range(free) = Range(free') \cup {Head(free)}
      /\ IsInjective(free') /\ Head(free) \notin Range(free')
  BY HeadTailProperties, TailRange DEF ListTypes, NodesConserved
<1>2. /\ \A q \in Procs \ {p} : pc'[q] = pc[q] /\ node'[q] = node[q]
      /\ pc[p] = "send" /\ pc'[p] = "link" /\ node'[p] = Head(free)
  BY DEF ListTypes
<1>3. \A q \in Procs \ {p} : InHand(q)' <=> InHand(q)
  BY <1>2 DEF InHand
<1>4. ~InHand(p) /\ InHand(p)'
  BY <1>2 DEF InHand
<1>5. ListTypes'
  BY <1>1 DEF ListTypes
<1>6. NodesConserved'
  BY <1>1, <1>2, <1>3, <1>4 DEF NodesConserved
<1> QED
  BY <1>5, <1>6

(* The sender's node is linked at one end of the queue.                    *)
LEMMA LinkedRange ==
  ASSUME NodesInv, NEW p \in Procs, SendLink(p)
  PROVE  /\ node[p] \in Pool /\ node[p] \notin Range(queue)
         /\ queue' \in Seq(Pool) /\ Len(queue') = Len(queue) + 1
         /\ Range(queue') = Range(queue) \cup {node[p]} /\ IsInjective(queue')
         /\ Len(queue) < Cardinality(Pool) /\ entry < EntryMax /\ entry' = entry + 1
<1> USE DEF NodesInv, SendLink
<1>1. /\ node[p] \in Pool /\ node[p] \notin Range(queue)
      /\ queue \in Seq(Pool) /\ IsInjective(queue)
  BY DEF NodesConserved, InHand, ListTypes
<1>2. /\ queue' \in Seq(Pool) /\ Len(queue') = Len(queue) + 1
      /\ Range(queue') = Range(queue) \cup {node[p]} /\ IsInjective(queue')
  <2>1. CASE msg[p].urgent
    BY <1>1, <2>1, PrependRange
  <2>2. CASE ~msg[p].urgent
    BY <1>1, <2>2, AppendRange, AppendProperties
  <2> QED
    BY <2>1, <2>2
<1>3. Len(queue) < Cardinality(Pool) /\ Len(queue) \in Nat
  BY <1>1, ShortQueue
<1>4. entry < EntryMax
  BY <1>3, PoolFacts DEF NodesConserved
<1> QED
  BY <1>1, <1>2, <1>3, <1>4

LEMMA SendLinkKeepsNodes ==
  ASSUME NodesInv, NEW p \in Procs, SendLink(p)
  PROVE  NodesInv'
<1> USE DEF NodesInv, SendLink, Goto, Return
<1>1. /\ node[p] \in Pool /\ node[p] \notin Range(queue)
      /\ queue' \in Seq(Pool) /\ Len(queue') = Len(queue) + 1
      /\ Range(queue') = Range(queue) \cup {node[p]} /\ IsInjective(queue')
      /\ entry' = entry + 1
  BY LinkedRange
<1>2. /\ \A q \in Procs \ {p} : pc'[q] = pc[q] /\ node'[q] = node[q]
      /\ pc[p] = "link" /\ pc'[p] = "idle"
  BY DEF ListTypes
<1>3. \A q \in Procs \ {p} : InHand(q)' <=> InHand(q)
  BY <1>2 DEF InHand
<1>4. InHand(p) /\ ~InHand(p)' /\ node[p] \notin Range(free)
  BY <1>2 DEF InHand, NodesConserved
<1>5. ListTypes'
  BY <1>1 DEF ListTypes
<1>6. entry' = Len(queue') /\ UNCHANGED free
  BY <1>1 DEF NodesConserved
<1>7. \A n \in Pool : \/ n \in Range(free) \cup Range(queue')
                      \/ \E q \in Procs : InHand(q)' /\ node'[q] = n
  BY <1>1, <1>2, <1>3 DEF NodesConserved
<1>8. Range(free) \cap Range(queue') = {}
  BY <1>1, <1>2, <1>3, <1>4 DEF NodesConserved
<1>9. \A q \in Procs : InHand(q)' => /\ node'[q] \in Pool
                                     /\ node'[q] \notin Range(free) \cup Range(queue')
  BY <1>1, <1>2, <1>3, <1>4 DEF NodesConserved
<1>10. \A q, r \in Procs : InHand(q)' /\ InHand(r)' /\ node'[q] = node'[r] => q = r
  BY <1>1, <1>2, <1>3, <1>4 DEF NodesConserved
<1>11. NodesConserved'
  BY <1>1, <1>6, <1>7, <1>8, <1>9, <1>10 DEF NodesConserved
<1> QED
  BY <1>5, <1>11

(* A node leaves the head of the queue for the hands of a receiver: there  *)
(* is one, for entry counts them.                                          *)
LEMMA UnlinkedRange ==
  ASSUME NodesInv, NEW p \in Procs, RecvUnlink(p)
  PROVE  /\ queue # << >> /\ queue' \in Seq(Pool) /\ Len(queue') = Len(queue) - 1
         /\ Head(queue) \in Pool /\ Head(queue) \in Range(queue)
         /\ Range(queue) = Range(queue') \cup {Head(queue)}
         /\ IsInjective(queue') /\ Head(queue) \notin Range(queue')
<1>1. queue \in Seq(Pool) /\ Len(queue) > 0 /\ IsInjective(queue)
  BY DEF NodesInv, ListTypes, NodesConserved, RecvUnlink
<1>2. queue # << >>
  BY <1>1, EmptySeq
<1> QED
  BY <1>1, <1>2, HeadTailProperties, TailRange DEF RecvUnlink

LEMMA RecvUnlinkKeepsNodes ==
  ASSUME NodesInv, NEW p \in Procs, RecvUnlink(p)
  PROVE  NodesInv'
<1> USE DEF NodesInv, RecvUnlink, Goto, history
<1>1. /\ queue # << >> /\ queue' \in Seq(Pool) /\ Len(queue') = Len(queue) - 1
      /\ Head(queue) \in Pool /\ Head(queue) \in Range(queue)
      /\ Range(queue) = Range(queue') \cup {Head(queue)}
      /\ IsInjective(queue') /\ Head(queue) \notin Range(queue')
  BY UnlinkedRange
<1>2. /\ \A q \in Procs \ {p} : pc'[q] = pc[q] /\ node'[q] = node[q]
      /\ pc[p] = "recv" /\ pc'[p] = "free" /\ node'[p] = Head(queue)
  BY DEF ListTypes
<1>3. \A q \in Procs \ {p} : InHand(q)' <=> InHand(q)
  BY <1>2 DEF InHand
<1>4. ~InHand(p) /\ InHand(p)'
  BY <1>2 DEF InHand
<1>5. ListTypes'
  BY <1>1 DEF ListTypes
<1>6. entry' = Len(queue')
  BY <1>1 DEF NodesConserved
<1>7. \A n \in Pool : \/ n \in Range(free) \cup Range(queue')
                      \/ \E q \in Procs : InHand(q)' /\ node'[q] = n
  BY <1>1, <1>2, <1>3, <1>4 DEF NodesConserved
<1>8. Range(free) \cap Range(queue') = {}
  BY <1>1, <1>2, <1>3, <1>4 DEF NodesConserved
<1>9. \A q \in Procs : InHand(q)' => /\ node'[q] \in Pool
                                     /\ node'[q] \notin Range(free) \cup Range(queue')
  BY <1>1, <1>2, <1>3, <1>4 DEF NodesConserved
<1>10. \A q, r \in Procs : InHand(q)' /\ InHand(r)' /\ node'[q] = node'[r] => q = r
  BY <1>1, <1>2, <1>3, <1>4 DEF NodesConserved
<1>11. NodesConserved'
  BY <1>1, <1>6, <1>7, <1>8, <1>9, <1>10 DEF NodesConserved
<1> QED
  BY <1>5, <1>11

(* The receiver's node goes back to the head of msg_queue_free.            *)
LEMMA RecvFreeKeepsNodes ==
  ASSUME NodesInv, NEW p \in Procs, RecvFree(p)
  PROVE  NodesInv'
<1> USE DEF NodesInv
<1>1. /\ node[p] \in Pool /\ node[p] \notin Range(free) \cup Range(queue)
      /\ free \in Seq(Pool) /\ IsInjective(free) /\ Range(free) \cap Range(queue) = {}
  BY DEF NodesConserved, InHand, ListTypes, RecvFree
<1>2. /\ free' \in Seq(Pool) /\ Range(free') = Range(free) \cup {node[p]}
      /\ IsInjective(free')
  BY <1>1, PrependRange DEF RecvFree
<1>3. /\ \A q \in Procs \ {p} : pc'[q] = pc[q] /\ node'[q] = node[q]
      /\ pc[p] = "free" /\ pc'[p] = "idle"
  BY DEF ListTypes, RecvFree, Goto, Return
<1>4. \A q \in Procs \ {p} : InHand(q)' <=> InHand(q)
  BY <1>3 DEF InHand
<1>5. InHand(p) /\ ~InHand(p)'
  BY <1>3 DEF InHand
<1>6. ListTypes'
  BY <1>2 DEF ListTypes, RecvFree, Goto, Return
<1>7. \A n \in Pool : \/ n \in Range(free') \cup Range(queue)
                      \/ \E q \in Procs : InHand(q)' /\ node'[q] = n
  BY <1>2, <1>3, <1>4 DEF NodesConserved
<1>8. Range(free') \cap Range(queue) = {}
  BY <1>1, <1>2
<1>9. \A q \in Procs : InHand(q)' => /\ node'[q] \in Pool
                                     /\ node'[q] \notin Range(free') \cup Range(queue)
  BY <1>2, <1>3, <1>4, <1>5 DEF NodesConserved
<1>10. \A q, r \in Procs : InHand(q)' /\ InHand(r)' /\ node'[q] = node'[r] => q = r
  BY <1>3, <1>4, <1>5 DEF NodesConserved
<1>11. UNCHANGED << queue, entry >>
  BY DEF RecvFree
<1>12. NodesConserved'
  BY <1>2, <1>7, <1>8, <1>9, <1>10, <1>11 DEF NodesConserved
<1> QED
  BY <1>6, <1>12

LEMMA NodesStep == NodesInv /\ [Next]_vars => NodesInv'
<1> SUFFICES ASSUME NodesInv, [Next]_vars PROVE NodesInv'
  OBVIOUS
<1>1. ASSUME NEW p \in Procs, Begin(p) PROVE NodesInv'
  BY <1>1, SendCallKeepsNodes, QuietSteps, QuietKeepsNodes DEF Begin, NodesInv
<1>2. ASSUME NEW p \in Procs, InCall(p) PROVE NodesInv'
  BY <1>2, SendAllocKeepsNodes, SendLinkKeepsNodes, RecvUnlinkKeepsNodes, RecvFreeKeepsNodes,
     QuietSteps, QuietKeepsNodes DEF InCall, NodesInv
<1>3. CASE \/ \E t \in Threads : Expire(t) \/ Timeout(t)
           \/ UNCHANGED vars
  <2>1. UNCHANGED << free, queue, entry, data, pc, node, msg, sends >>
    BY <1>3 DEF Expire, Timeout, vars, mqVars, callers, history
  <2> QED
    BY <2>1 DEF NodesInv, ListTypes, NodesConserved, InHand
<1> QED
  BY <1>1, <1>2, <1>3 DEF Next

(* A node is free, queued or in one caller's hands, whatever the           *)
(* interleaving of senders, receivers, handlers and time-outs; entry       *)
(* counts the queue.                                                       *)
THEOREM NodesAreConserved == Spec => []NodesConserved
<1>1. NodesInv => NodesConserved
  BY DEF NodesInv
<1> QED
  BY <1>1, NodesInit, NodesStep, PTL DEF Spec

-----------------------------------------------------------------------------
(* The buffer.                                                             *)

Busy(p) == pc[p] \in {"send", "link", "sendAsleep"}

(* The message of a call under way is its own and not linked yet.          *)
Fresh ==
  /\ \A p \in Procs : Busy(p) => /\ msg[p] \in Message /\ msg[p].n <= sends
                                 /\ msg[p] \notin linked
  /\ \A p, q \in Procs : Busy(p) /\ Busy(q) /\ msg[p] = msg[q] => p = q
  /\ linked \subseteq Message /\ \A m \in linked : m.n <= sends

(* The nodes whose messages are yet to be delivered hold a message each.   *)
Inside == Range(queue) \cup {node[p] : p \in {q \in Procs : pc[q] = "free"}}
Filled ==
  /\ \A n \in Inside : data[n] \in linked
  /\ \A n, k \in Inside : data[n] = data[k] => n = k

BufferInv == NodesInv /\ Fresh /\ Filled

(* The messages of a list of nodes, and what the list operations do to     *)
(* them.                                                                   *)
Contents(s, d) == [i \in 1..Len(s) |-> d[s[i]]]

LEMMA ContentsSeq ==
  ASSUME NEW s \in Seq(Pool), NEW d, \A n \in Range(s) : d[n] \in Message
  PROVE  /\ Contents(s, d) \in Seq(Message) /\ Len(Contents(s, d)) = Len(s)
         /\ \A i \in 1..Len(s) : Contents(s, d)[i] = d[s[i]]
<1>1. \A i \in 1..Len(s) : d[s[i]] \in Message
  BY InRange
<1>2. Len(s) \in Nat /\ Contents(s, d) \in [1..Len(s) -> Message]
  BY <1>1, LenProperties DEF Contents
<1>3. Contents(s, d) \in Seq(Message)
  BY <1>2, SeqDef
<1>4. Len(Contents(s, d)) = Len(s)
  BY <1>2, <1>3, LenProperties
<1> QED
  BY <1>3, <1>4 DEF Contents

LEMMA ContentsAppend ==
  ASSUME NEW s \in Seq(Pool), NEW n \in Pool, NEW d, NEW e,
         \A k \in Range(s) : d[k] \in Message /\ e[k] = d[k], e[n] \in Message
  PROVE  /\ Contents(Append(s, n), e) = Append(Contents(s, d), e[n])
         /\ Contents(<< n >> \o s, e) = << e[n] >> \o Contents(s, d)
<1> DEFINE c == Contents(s, d)
<1>1. c \in Seq(Message) /\ Len(c) = Len(s) /\ Len(s) \in Nat
      /\ \A i \in 1..Len(s) : c[i] = d[s[i]]
  BY ContentsSeq, LenProperties
<1>2. \A i \in 1..Len(s) : s[i] \in Range(s)
  BY InRange
<1> HIDE DEF c
<1>3. Contents(Append(s, n), e) = Append(c, e[n])
  <2> DEFINE t == Append(s, n)
  <2>1. /\ t \in Seq(Pool) /\ Len(t) = Len(s) + 1 /\ Range(t) = Range(s) \cup {n}
        /\ \A i \in 1..Len(s) : t[i] = s[i]
        /\ t[Len(s) + 1] = n
    BY AppendProperties, AppendRange
  <2>2. /\ Append(c, e[n]) \in Seq(Message) /\ Len(Append(c, e[n])) = Len(s) + 1
        /\ \A i \in 1..Len(s) : Append(c, e[n])[i] = c[i]
        /\ Append(c, e[n])[Len(s) + 1] = e[n]
    BY <1>1, AppendProperties
  <2> HIDE DEF t
  <2>3. /\ Contents(t, e) \in Seq(Message) /\ Len(Contents(t, e)) = Len(t)
        /\ \A i \in 1..Len(t) : Contents(t, e)[i] = e[t[i]]
    BY <2>1, ContentsSeq
  <2>4. ASSUME NEW i \in 1..Len(s) + 1 PROVE Contents(t, e)[i] = Append(c, e[n])[i]
    <3>1. CASE i \in 1..Len(s)
      BY <3>1, <2>1, <2>2, <2>3, <1>1, <1>2
    <3>2. CASE i = Len(s) + 1
      BY <3>2, <2>1, <2>2, <2>3
    <3> QED
      BY <3>1, <3>2, <1>1
  <2>5. Contents(t, e) = Append(c, e[n])
    BY <2>1, <2>2, <2>3, <2>4, SeqEqual
  <2> QED
    BY <2>5 DEF t
<1>4. Contents(<< n >> \o s, e) = << e[n] >> \o c
  <2> DEFINE t == << n >> \o s
             u == << e[n] >> \o c
  <2>1. /\ t \in Seq(Pool) /\ Len(t) = Len(s) + 1 /\ Range(t) = Range(s) \cup {n}
        /\ \A i \in 1..Len(s) : t[i + 1] = s[i]
        /\ t[1] = n
    BY PrependRange
  <2>2. /\ u \in Seq(Message) /\ Len(u) = Len(s) + 1
        /\ \A i \in 1..Len(s) : u[i + 1] = c[i]
        /\ u[1] = e[n]
    BY <1>1, PrependRange
  <2> HIDE DEF t, u
  <2>3. /\ Contents(t, e) \in Seq(Message) /\ Len(Contents(t, e)) = Len(t)
        /\ \A i \in 1..Len(t) : Contents(t, e)[i] = e[t[i]]
    BY <2>1, ContentsSeq
  <2>4. ASSUME NEW i \in 1..Len(s) + 1 PROVE Contents(t, e)[i] = u[i]
    <3>1. CASE i = 1
      BY <3>1, <2>1, <2>2, <2>3
    <3>2. CASE i # 1
      <4>1. PICK j \in 1..Len(s) : i = j + 1
        <5>1. i - 1 \in 1..Len(s) /\ i = (i - 1) + 1
          BY <3>2, <1>1
        <5> QED
          BY <5>1
      <4>2. Contents(t, e)[i] = e[s[j]] /\ u[i] = c[j]
        BY <4>1, <2>1, <2>2, <2>3
      <4> QED
        BY <4>2, <1>1, <1>2
    <3> QED
      BY <3>1, <3>2
  <2>5. Contents(t, e) = u
    BY <2>1, <2>2, <2>3, <2>4, SeqEqual
  <2> QED
    BY <2>5 DEF t, u
<1> QED
  BY <1>3, <1>4 DEF c

LEMMA ContentsTail ==
  ASSUME NEW s \in Seq(Pool), s # << >>, NEW d, \A k \in Range(s) : d[k] \in Message
  PROVE  /\ Contents(s, d) # << >> /\ Head(Contents(s, d)) = d[Head(s)]
         /\ Contents(Tail(s), d) = Tail(Contents(s, d))
<1> DEFINE c == Contents(s, d)
           t == Tail(s)
<1>1. /\ c \in Seq(Message) /\ Len(c) = Len(s)
      /\ \A i \in 1..Len(s) : c[i] = d[s[i]]
  BY ContentsSeq
<1>2. Len(s) \in Nat \ {0}
  BY EmptySeq
<1> HIDE DEF c
<1>3. c # << >> /\ Head(c) = d[Head(s)]
  BY <1>1, <1>2, EmptySeq
<1>4. /\ t \in Seq(Pool) /\ Len(t) = Len(s) - 1 /\ \A i \in 1..Len(t) : t[i] = s[i + 1]
      /\ Range(s) = Range(t) \cup {Head(s)}
  BY HeadTailProperties, TailRange
<1>5. /\ Tail(c) \in Seq(Message) /\ Len(Tail(c)) = Len(s) - 1
      /\ \A i \in 1..Len(Tail(c)) : Tail(c)[i] = c[i + 1]
  BY <1>1, <1>3, HeadTailProperties
<1> HIDE DEF t
<1>6. /\ Contents(t, d) \in Seq(Message) /\ Len(Contents(t, d)) = Len(t)
      /\ \A i \in 1..Len(t) : Contents(t, d)[i] = d[t[i]]
  BY <1>4, ContentsSeq
<1>7. ASSUME NEW i \in 1..Len(t) PROVE Contents(t, d)[i] = Tail(c)[i]
  <2>1. i + 1 \in 1..Len(s)
    BY <1>2, <1>4
  <2> QED
    BY <2>1, <1>1, <1>4, <1>5, <1>6
<1>8. Contents(t, d) = Tail(c)
  BY <1>4, <1>5, <1>6, <1>7, SeqEqual
<1> QED
  BY <1>3, <1>8 DEF c, t

(* The mapping of ImplementsBuffer.                                        *)
Buf == Contents(queue, data)
InTransit == {q \in Procs : pc[q] = "free"}
Fetched == {data[node[p]] : p \in InTransit}

LEMMA InsidePool ==
  ASSUME BufferInv
  PROVE  /\ Inside \subseteq Pool /\ \A n \in Inside : data[n] \in Message
         /\ \A q \in InTransit : node[q] \in Inside /\ node[q] \notin Range(queue)
         /\ Range(queue) \subseteq Inside
<1>1. Range(queue) \subseteq Pool
  BY InRange DEF BufferInv, NodesInv, ListTypes
<1>2. \A q \in InTransit : node[q] \in Pool /\ node[q] \notin Range(queue)
  BY DEF BufferInv, NodesInv, NodesConserved, InHand, InTransit
<1> QED
  BY <1>1, <1>2 DEF Inside, InTransit, BufferInv, Filled, Fresh

(* Nothing the buffer is made of changes.                                  *)
LEMMA QuietKeepsBuffer ==
  ASSUME BufferInv, NEW p \in Procs, Quiet(p)
  PROVE  Fresh' /\ Filled' /\ UNCHANGED << Buf, Fetched, delivered, linked >>
<1> USE DEF BufferInv, Quiet, history
<1>1. \A q \in Procs : /\ (pc'[q] = "free" <=> pc[q] = "free")
                       /\ (pc[q] = "free" => node'[q] = node[q])
                       /\ (Busy(q)' => Busy(q) /\ msg'[q] = msg[q])
  BY DEF InHand, Busy
<1>2. Fresh'
  BY <1>1 DEF Fresh
<1>3. InTransit' = InTransit /\ Inside' = Inside /\ Fetched' = Fetched
  BY <1>1 DEF InTransit, Inside, Fetched
<1>4. Filled'
  BY <1>3 DEF Filled
<1> QED
  BY <1>2, <1>3, <1>4 DEF Buf, Contents

LEMMA SendCallKeepsBuffer ==
  ASSUME BufferInv, NEW p \in Procs, NEW m, SendCall(p, m)
  PROVE  Fresh' /\ Filled' /\ UNCHANGED << Buf, Fetched, delivered, linked >>
<1> USE DEF BufferInv, SendCall, Goto, mqVars
<1>1. sends' \in 1..MaxSends /\ sends \in Nat /\ sends' = sends + 1
  BY PoolFacts DEF NodesInv, ListTypes
<1>2. PICK u \in BOOLEAN : msg' = [msg EXCEPT ![p] = [n |-> sends', urgent |-> u]]
  OBVIOUS
<1>3. msg'[p] \in Message /\ msg'[p].n = sends + 1 /\ \A q \in Procs \ {p} : msg'[q] = msg[q]
  BY <1>1, <1>2 DEF Message, NodesInv, ListTypes
<1>4. /\ pc[p] = "idle" /\ pc'[p] = "send" /\ \A q \in Procs \ {p} : pc'[q] = pc[q]
  BY DEF NodesInv, ListTypes
<1>5. \A m1 \in Message : m1.n \in Nat
  BY PoolFacts DEF Message
<1>6. \A m1 \in Message : m1.n <= sends => m1.n <= sends' /\ m1 # msg'[p]
  BY <1>1, <1>3, <1>5
<1>7. msg'[p].n <= sends' /\ msg'[p] \notin linked
  BY <1>1, <1>3, <1>5, <1>6 DEF Fresh
<1>8. \A q \in Procs \ {p} : Busy(q)' <=> Busy(q)
  BY <1>4 DEF Busy
<1>9. Fresh'
  BY <1>3, <1>6, <1>7, <1>8 DEF Fresh
<1>10. InTransit' = InTransit /\ Inside' = Inside /\ Fetched' = Fetched
  BY <1>4 DEF InTransit, Inside, Fetched
<1>11. Filled'
  BY <1>10 DEF Filled
<1> QED
  BY <1>9, <1>10, <1>11 DEF Buf, Contents

LEMMA SendAllocKeepsBuffer ==
  ASSUME BufferInv, NEW p \in Procs, SendAlloc(p)
  PROVE  Fresh' /\ Filled' /\ UNCHANGED << Buf, Fetched, delivered, linked >>
<1> USE DEF BufferInv, SendAlloc, Goto, history
<1>1. /\ pc[p] = "send" /\ pc'[p] = "link"
      /\ \A q \in Procs \ {p} : pc'[q] = pc[q] /\ node'[q] = node[q]
  BY DEF NodesInv, ListTypes
<1>2. \A q \in Procs : Busy(q)' <=> Busy(q)
  BY <1>1 DEF Busy
<1>3. Fresh'
  BY <1>2 DEF Fresh
<1>4. InTransit' = InTransit /\ p \notin InTransit
  BY <1>1 DEF InTransit
<1>5. Inside' = Inside /\ Fetched' = Fetched
  BY <1>1, <1>4 DEF InTransit, Inside, Fetched
<1>6. Filled'
  BY <1>5 DEF Filled
<1> QED
  BY <1>3, <1>5, <1>6 DEF Buf, Contents

(* Linking a node puts its message in the buffer: a new one, for which     *)
(* there is room.                                                          *)
LEMMA SendLinkPuts ==
  ASSUME BufferInv, NEW p \in Procs, SendLink(p)
  PROVE  /\ Fresh' /\ Filled'
         /\ msg[p] \in Message \ linked /\ Len(Buf) < Cardinality(Pool)
         /\ linked' = linked \cup {msg[p]}
         /\ Buf' = IF msg[p].urgent THEN << msg[p] >> \o Buf ELSE Append(Buf, msg[p])
         /\ UNCHANGED << Fetched, delivered >>
<1> USE DEF BufferInv, SendLink, Goto, Return
<1>1. /\ node[p] \in Pool /\ node[p] \notin Range(queue) /\ Len(queue) < Cardinality(Pool)
      /\ Range(queue') = Range(queue) \cup {node[p]} /\ queue \in Seq(Pool)
  BY LinkedRange DEF NodesInv, ListTypes
<1>2. /\ pc[p] = "link" /\ pc'[p] = "idle"
      /\ \A q \in Procs \ {p} : pc'[q] = pc[q] /\ node'[q] = node[q] /\ msg'[q] = msg[q]
  BY DEF NodesInv, ListTypes
<1>3. msg[p] \in Message /\ msg[p].n <= sends /\ msg[p] \notin linked
  BY <1>2 DEF Fresh, Busy
<1>4. data'[node[p]] = msg[p] /\ \A n \in Pool : n # node[p] => data'[n] = data[n]
  BY <1>1 DEF NodesInv, ListTypes
<1>5. \A q \in Procs \ {p} : Busy(q)' <=> Busy(q)
  BY <1>2 DEF Busy
<1>6. Busy(p) /\ ~Busy(p)'
  BY <1>2 DEF Busy
<1>7. Fresh'
  BY <1>2, <1>3, <1>5, <1>6 DEF Fresh
<1>8. InTransit' = InTransit /\ p \notin InTransit
  BY <1>2 DEF InTransit
<1>9. \A q \in InTransit : node[q] # node[p] /\ node[q] \in Pool /\ node'[q] = node[q]
  BY <1>2 DEF NodesInv, NodesConserved, InHand, InTransit
<1>10. Fetched' = Fetched
  BY <1>4, <1>8, <1>9 DEF Fetched
<1>11. Inside' = Inside \cup {node[p]} /\ node[p] \notin Inside
  BY <1>1, <1>8, <1>9 DEF Inside, InTransit
<1>12. \A n \in Inside : data'[n] = data[n] /\ data[n] \in linked
  BY <1>4, <1>11, InsidePool DEF Filled
<1>13. Filled'
  BY <1>3, <1>4, <1>11, <1>12 DEF Filled
<1>14. \A n \in Range(queue) : data[n] \in Message /\ data'[n] = data[n]
  BY <1>12, InsidePool
<1>15. Len(Buf) = Len(queue)
  BY <1>1, <1>14, ContentsSeq DEF Buf
<1>16. /\ Contents(Append(queue, node[p]), data') = Append(Buf, msg[p])
       /\ Contents(<< node[p] >> \o queue, data') = << msg[p] >> \o Buf
  <2> DEFINE e == data'
  <2>1. e[node[p]] \in Message /\ \A k \in Range(queue) : data[k] \in Message /\ e[k] = data[k]
    BY <1>3, <1>4, <1>14
  <2>2. queue \in Seq(Pool) /\ node[p] \in Pool
    BY <1>1
  <2> HIDE DEF e
  <2>3. /\ Contents(Append(queue, node[p]), e) = Append(Contents(queue, data), e[node[p]])
        /\ Contents(<< node[p] >> \o queue, e) = << e[node[p]] >> \o Contents(queue, data)
    BY <2>1, <2>2, ContentsAppend
  <2>4. e[node[p]] = msg[p]
    BY <1>4 DEF e
  <2> QED
    BY <2>3, <2>4 DEF e, Buf
<1>17. Buf' = IF msg[p].urgent THEN << msg[p] >> \o Buf ELSE Append(Buf, msg[p])
  BY <1>16 DEF Buf
<1> QED
  BY <1>1, <1>3, <1>7, <1>10, <1>13, <1>15, <1>17

(* Unlinking the head fetches the first message.                           *)
LEMMA RecvUnlinkFetches ==
  ASSUME BufferInv, NEW p \in Procs, RecvUnlink(p)
  PROVE  /\ Fresh' /\ Filled'
         /\ Buf # << >> /\ Buf' = Tail(Buf) /\ Fetched' = Fetched \cup {Head(Buf)}
         /\ UNCHANGED << delivered, linked >>
<1> USE DEF BufferInv, RecvUnlink, Goto, history
<1>1. /\ queue # << >> /\ queue \in Seq(Pool) /\ Head(queue) \in Range(queue)
      /\ Range(queue) = Range(queue') \cup {Head(queue)}
  BY UnlinkedRange DEF NodesInv, ListTypes
<1>2. /\ pc[p] = "recv" /\ pc'[p] = "free" /\ node'[p] = Head(queue)
      /\ \A q \in Procs \ {p} : pc'[q] = pc[q] /\ node'[q] = node[q]
  BY DEF NodesInv, ListTypes
<1>3. \A q \in Procs : Busy(q)' <=> Busy(q)
  BY <1>2 DEF Busy
<1>4. Fresh'
  BY <1>3 DEF Fresh
<1>5. InTransit' = InTransit \cup {p} /\ p \notin InTransit
  BY <1>2 DEF InTransit
<1>6. \A q \in InTransit : node'[q] = node[q]
  BY <1>2, <1>5 DEF InTransit
<1>7. Inside' = Inside
  <2>1. Inside = Range(queue) \cup {node[q] : q \in InTransit}
    BY DEF Inside, InTransit
  <2>2. Inside' = Range(queue') \cup {node'[q] : q \in InTransit'}
    BY DEF Inside, InTransit
  <2> QED
    BY <2>1, <2>2, <1>1, <1>2, <1>5, <1>6
<1>8. Filled'
  BY <1>7 DEF Filled
<1>9. Fetched' = Fetched \cup {data[Head(queue)]}
  BY <1>2, <1>5, <1>6 DEF Fetched
<1>10. \A n \in Range(queue) : data[n] \in Message
  BY InsidePool
<1>11. /\ Buf # << >> /\ Head(Buf) = data[Head(queue)]
       /\ Contents(Tail(queue), data) = Tail(Buf)
  BY <1>1, <1>10, ContentsTail DEF Buf
<1>12. Buf' = Tail(Buf)
  BY <1>11 DEF Buf
<1> QED
  BY <1>4, <1>8, <1>9, <1>11, <1>12

(* Freeing the node delivers its message, which no other node holds.       *)
LEMMA RecvFreeDelivers ==
  ASSUME BufferInv, NEW p \in Procs, RecvFree(p)
  PROVE  /\ Fresh' /\ Filled'
         /\ data[node[p]] \in Fetched \cap Message
         /\ Fetched' = Fetched \ {data[node[p]]}
         /\ delivered' = delivered \cup {data[node[p]]}
         /\ UNCHANGED << Buf, linked >>
<1> USE DEF BufferInv, RecvFree, Goto, Return
<1>1. /\ pc[p] = "free" /\ pc'[p] = "idle"
      /\ \A q \in Procs \ {p} : pc'[q] = pc[q] /\ node'[q] = node[q] /\ msg'[q] = msg[q]
  BY DEF NodesInv, ListTypes
<1>2. \A q \in Procs : Busy(q)' => Busy(q) /\ msg'[q] = msg[q]
  BY <1>1 DEF Busy
<1>3. Fresh'
  BY <1>2 DEF Fresh
<1>4. p \in InTransit /\ InTransit' = InTransit \ {p}
  BY <1>1 DEF InTransit
<1>5. \A q \in InTransit : q # p => node'[q] = node[q] /\ node[q] # node[p]
  BY <1>1, <1>4 DEF NodesInv, NodesConserved, InHand, InTransit
<1>6. Inside' \subseteq Inside
  <2>1. Inside = Range(queue) \cup {node[q] : q \in InTransit}
    BY DEF Inside, InTransit
  <2>2. Inside' = Range(queue) \cup {node'[q] : q \in InTransit'}
    BY DEF Inside, InTransit
  <2> QED
    BY <2>1, <2>2, <1>4, <1>5
<1>7. Filled'
  BY <1>6 DEF Filled
<1>8. \A q \in InTransit : q # p => data[node[q]] # data[node[p]]
  BY <1>4, <1>5, InsidePool DEF Filled
<1>9. Fetched' = {data[node[q]] : q \in InTransit \ {p}}
  BY <1>4, <1>5 DEF Fetched
<1>10. Fetched' = Fetched \ {data[node[p]]}
  BY <1>4, <1>8, <1>9 DEF Fetched
<1>11. data[node[p]] \in Fetched \cap Message
  BY <1>4, InsidePool DEF Fetched
<1> QED
  BY <1>3, <1>7, <1>10, <1>11 DEF Buf, Contents

LEMMA BufferInit == Init => BufferInv /\ Abs!Init
<1> SUFFICES ASSUME Init PROVE BufferInv /\ Abs!Init
  OBVIOUS
<1>1. NodesInv
  BY NodesInit
<1>2. queue = << >> /\ Range(queue) = {} /\ Len(queue) = 0 /\ linked = {} /\ delivered = {}
  BY DEF Init, Range
<1>3. \A p \in Procs : pc[p] = "idle"
  BY DEF Init
<1>4. Fresh /\ Filled
  BY <1>2, <1>3 DEF Fresh, Filled, Busy, Inside
<1>5. [i \in 1..Len(queue) |-> data[queue[i]]] = << >>
  BY <1>2
<1>6. {data[node[p]] : p \in {q \in Procs : pc[q] = "free"}} = {}
  BY <1>3
<1>7. Abs!Init
  BY <1>2, <1>5, <1>6 DEF Abs!Init
<1> QED
  BY <1>1, <1>4, <1>7 DEF BufferInv

LEMMA BufferStep == BufferInv /\ [Next]_vars => BufferInv' /\ [Abs!Next]_Abs!vars
<1> SUFFICES ASSUME BufferInv, [Next]_vars PROVE Fresh' /\ Filled' /\ [Abs!Next]_Abs!vars
  BY NodesStep DEF BufferInv
<1>1. ASSUME Fresh' /\ Filled' /\ UNCHANGED << Buf, Fetched, delivered, linked >>
      PROVE  Fresh' /\ Filled' /\ [Abs!Next]_Abs!vars
  BY <1>1 DEF Abs!vars, Buf, Fetched, Contents, InTransit
<1>2. ASSUME NEW p \in Procs, Begin(p)
      PROVE  Fresh' /\ Filled' /\ [Abs!Next]_Abs!vars
  <2>1. Fresh' /\ Filled' /\ UNCHANGED << Buf, Fetched, delivered, linked >>
    BY <1>2, SendCallKeepsBuffer, QuietSteps, QuietKeepsBuffer DEF Begin, BufferInv, NodesInv
  <2> QED
    BY <2>1, <1>1
<1>3. ASSUME NEW p \in Procs, SendLink(p)
      PROVE  Fresh' /\ Filled' /\ [Abs!Next]_Abs!vars
  <2>1. Fresh' /\ Filled'
    BY <1>3, SendLinkPuts
  <2>2. PICK m \in Message : m = msg[p]
    BY <1>3, SendLinkPuts
  <2>3. m \in {k \in Message : k.urgent} <=> m.urgent
    OBVIOUS
  <2>4. Abs!Put(m)
    BY <1>3, <2>2, <2>3, SendLinkPuts DEF Abs!Put, Buf, Fetched, Contents, InTransit
  <2>5. Abs!Next
    BY <2>4 DEF Abs!Next
  <2> QED
    BY <2>1, <2>5
<1>4. ASSUME NEW p \in Procs, RecvUnlink(p)
      PROVE  Fresh' /\ Filled' /\ [Abs!Next]_Abs!vars
  <2>1. Fresh' /\ Filled'
    BY <1>4, RecvUnlinkFetches
  <2>2. Abs!Fetch
    BY <1>4, RecvUnlinkFetches DEF Abs!Fetch, Buf, Fetched, Contents, InTransit
  <2>3. Abs!Next
    BY <2>2 DEF Abs!Next
  <2> QED
    BY <2>1, <2>3
<1>5. ASSUME NEW p \in Procs, RecvFree(p)
      PROVE  Fresh' /\ Filled' /\ [Abs!Next]_Abs!vars
  <2>1. Fresh' /\ Filled'
    BY <1>5, RecvFreeDelivers
  <2>2. PICK m \in Message : m = data[node[p]]
    BY <1>5, RecvFreeDelivers
  <2>3. Abs!Deliver(m)
    BY <1>5, <2>2, RecvFreeDelivers DEF Abs!Deliver, Buf, Fetched, Contents, InTransit
  <2>4. Abs!Next
    BY <2>3 DEF Abs!Next
  <2> QED
    BY <2>1, <2>4
<1>6. ASSUME NEW p \in Procs, InCall(p)
      PROVE  Fresh' /\ Filled' /\ [Abs!Next]_Abs!vars
  <2>1. CASE SendLink(p) \/ RecvUnlink(p) \/ RecvFree(p)
    BY <2>1, <1>3, <1>4, <1>5
  <2>2. CASE ~(SendLink(p) \/ RecvUnlink(p) \/ RecvFree(p))
    <3>1. Fresh' /\ Filled' /\ UNCHANGED << Buf, Fetched, delivered, linked >>
      BY <1>6, <2>2, SendAllocKeepsBuffer, QuietSteps, QuietKeepsBuffer
         DEF InCall, BufferInv, NodesInv
    <3> QED
      BY <3>1, <1>1
  <2> QED
    BY <2>1, <2>2
<1>7. CASE \/ \E t \in Threads : Expire(t) \/ Timeout(t)
           \/ UNCHANGED vars
  <2>1. UNCHANGED << queue, data, pc, node, msg, sends, linked, delivered >>
    BY <1>7 DEF Expire, Timeout, vars, mqVars, callers, history
  <2>2. Fresh' /\ Filled' /\ UNCHANGED << Buf, Fetched, delivered, linked >>
    BY <2>1 DEF BufferInv, Fresh, Filled, Busy, Inside, Buf, Contents, Fetched, InTransit
  <2> QED
    BY <2>2, <1>1
<1> QED
  BY <1>2, <1>6, <1>7 DEF Next

(* The queue implements the buffer: for every set of callers and of nodes, *)
(* what senders, receivers and handlers do to the nodes in two critical    *)
(* sections is to the caller one Put, and one Fetch and one Deliver.       *)
THEOREM QueueImplementsBuffer == Spec => ImplementsBuffer
  BY BufferInit, BufferStep, PTL DEF Spec, ImplementsBuffer, Abs!Spec

-----------------------------------------------------------------------------
(* The callers that sleep at a, in rt_mq_recv or in rt_mq_send_wait, and   *)
(* those that will look for a message, or a node, at l.                    *)
Asleep == {"recvAsleep", "sendAsleep"}

Sleeps(u, a)   == pc[u] = a /\ suspended[u]
Looks(u, l, a) == pc[u] = l \/ (pc[u] = a /\ ~suspended[u] /\ error[u] = "OK")

(* The list L holds the threads that are suspended at a, each once.        *)
Listed(a, L) ==
  /\ L \in Seq(Threads) /\ IsInjective(L)
  /\ \A u \in Threads : u \in Range(L) <=> Sleeps(u, a)

(* Only threads receive, and an interrupt handler never waits.             *)
Roles ==
  /\ mode \in [Procs -> {"no", "timed", "forever"}]
  /\ \A p \in Procs : pc[p] \in {"recv", "free", "recvAsleep"} => p \in Receivers
  /\ \A p \in Isrs : mode[p] = "no"

SleepInv ==
  /\ WaitInv /\ Roles /\ swallowed \in 0..entry
  /\ Listed("recvAsleep", recvWait) /\ Listed("sendAsleep", sendWait)

WakeInv == NodesInv /\ SleepInv /\ NoLostWakeup

LEMMA FiniteThreads ==
  ASSUME NEW S \in SUBSET Threads
  PROVE  IsFiniteSet(S) /\ Cardinality(S) \in Nat
  BY ThreadsAssumption, FS_Subset, FS_CardinalityType

LEMMA LookingSet ==
  ASSUME NEW l, NEW a
  PROVE  /\ Looking(l, a) = {u \in Threads : Looks(u, l, a)}
         /\ Looking(l, a)' = {u \in Threads : Looks(u, l, a)'}
         /\ Cardinality(Looking(l, a)) \in Nat /\ Cardinality(Looking(l, a)') \in Nat
<1>1. Looking(l, a) = {u \in Threads : Looks(u, l, a)}
  BY DEF Looking, Looks
<1>2. Looking(l, a)' = {u \in Threads : Looks(u, l, a)'}
  BY DEF Looking, Looks
<1>3. Looking(l, a) \in SUBSET Threads /\ Looking(l, a)' \in SUBSET Threads
  BY <1>1, <1>2
<1> QED
  BY <1>1, <1>2, <1>3, FiniteThreads

(* No thread starts or stops sleeping at a, or looking at l.               *)
Unmoved(l, a) == \A u \in Threads : /\ Sleeps(u, a)' <=> Sleeps(u, a)
                                    /\ Looks(u, l, a)' <=> Looks(u, l, a)

LEMMA UnmovedStep ==
  ASSUME NEW l, NEW a, Unmoved(l, a)
  PROVE  Looking(l, a)' = Looking(l, a) /\ \A L : Listed(a, L) => Listed(a, L)'
<1>1. Looking(l, a)' = Looking(l, a)
  BY LookingSet DEF Unmoved
<1>2. ASSUME NEW L, Listed(a, L) PROVE Listed(a, L)'
  BY <1>2 DEF Listed, Unmoved
<1> QED
  BY <1>1, <1>2

(* Only p moves.                                                           *)
OnlyMoves(p) == \A u \in Threads \ {p} :
  pc'[u] = pc[u] /\ (suspended'[u] <=> suspended[u]) /\ error'[u] = error[u]

LEMMA MoveStep ==
  ASSUME NEW p \in Procs, OnlyMoves(p), NEW l, NEW a
  PROVE  /\ p \notin Threads => Unmoved(l, a)
         /\ ~Looks(p, l, a) /\ Looks(p, l, a)' /\ p \in Threads =>
              Cardinality(Looking(l, a)') = Cardinality(Looking(l, a)) + 1
         /\ Looks(p, l, a) /\ ~Looks(p, l, a)' /\ p \in Threads =>
              Cardinality(Looking(l, a)') = Cardinality(Looking(l, a)) - 1
         /\ (Looks(p, l, a)' <=> Looks(p, l, a)) => Looking(l, a)' = Looking(l, a)
         /\ (Sleeps(p, a)' <=> Sleeps(p, a)) => \A L : Listed(a, L) => Listed(a, L)'
         /\ Sleeps(p, a)' /\ ~Sleeps(p, a) /\ p \in Threads =>
              \A L : Listed(a, L) => Listed(a, Append(L, p))'
<1>1. \A u \in Threads \ {p} : /\ Sleeps(u, a)' <=> Sleeps(u, a)
                               /\ Looks(u, l, a)' <=> Looks(u, l, a)
  BY DEF OnlyMoves, Sleeps, Looks
<1>2. p \notin Threads => Unmoved(l, a)
  BY <1>1 DEF Unmoved
<1> DEFINE A == Looking(l, a)
           B == Looking(l, a)'
<1>3. /\ A = {u \in Threads : Looks(u, l, a)} /\ B = {u \in Threads : Looks(u, l, a)'}
  BY LookingSet
<1>4. IsFiniteSet(A) /\ Cardinality(A) \in Nat
  BY <1>3, FiniteThreads
<1>5. ASSUME ~Looks(p, l, a), Looks(p, l, a)', p \in Threads
      PROVE  Cardinality(B) = Cardinality(A) + 1
  <2>1. p \notin A /\ B = A \cup {p}
    BY <1>1, <1>3, <1>5
  <2> QED
    BY <2>1, <1>4, FS_AddElement
<1>6. ASSUME Looks(p, l, a), ~Looks(p, l, a)', p \in Threads
      PROVE  Cardinality(B) = Cardinality(A) - 1
  <2>1. p \in A /\ B = A \ {p}
    BY <1>1, <1>3, <1>6
  <2> QED
    BY <2>1, <1>4, FS_RemoveElement
<1>7. (Looks(p, l, a)' <=> Looks(p, l, a)) => B = A
  BY <1>1, <1>3
<1>8. ASSUME Sleeps(p, a)' <=> Sleeps(p, a), NEW L, Listed(a, L) PROVE Listed(a, L)'
  BY <1>1, <1>8 DEF Listed
<1>9. ASSUME Sleeps(p, a)', ~Sleeps(p, a), p \in Threads, NEW L, Listed(a, L)
      PROVE  Listed(a, Append(L, p))'
  <2>1. L \in Seq(Threads) /\ IsInjective(L) /\ p \notin Range(L)
    BY <1>9 DEF Listed
  <2>2. /\ Append(L, p) \in Seq(Threads) /\ IsInjective(Append(L, p))
        /\ Range(Append(L, p)) = Range(L) \cup {p}
    BY <2>1, <1>9, AppendRange, AppendProperties
  <2>3. \A u \in Threads : u \in Range(Append(L, p)) <=> Sleeps(u, a)'
    BY <2>2, <1>1, <1>9 DEF Listed
  <2> QED
    BY <2>2, <2>3 DEF Listed
<1> QED
  BY <1>2, <1>5, <1>6, <1>7, <1>8, <1>9

(* A call that ends resumes the first of those that sleep at a.            *)
LEMMA WakeFirst ==
  ASSUME WaitInv, NEW a \in Asleep, NEW b \in Asleep \ {a}, NEW list, Listed(a, list),
         DequeueEffect(list), NEW p \in Procs, pc[p] \in {"link", "free"},
         pc' = [pc EXCEPT ![p] = "idle"], NodesInv,
         NEW M, M = Dequeued(list)
  PROVE  /\ WaitInv' /\ Listed(a, M)'
         /\ \A l \in {"send", "recv"} : Unmoved(l, b)
         /\ FirstResumed(list) = {} =>
              /\ M = list /\ \A l \in {"send", "recv"} : Looking(l, a)' = Looking(l, a)
              /\ list # << >> => Missed(list)
         /\ FirstResumed(list) # {} =>
              M # list /\ \A l \in {"send", "recv"} :
                            Cardinality(Looking(l, a)') = Cardinality(Looking(l, a)) + 1
         /\ list = << >> => M = << >>
<1> DEFINE W == FirstResumed(list)
<1>1. /\ list \in Seq(Threads) /\ IsInjective(list)
      /\ \A t \in Range(list) : suspended[t] /\ t \in Threads /\ pc[t] = a
  BY InRange DEF Listed, Sleeps
<1>2. /\ Wakes(W, W, "OK")
      /\ M \in Seq(Threads) /\ IsInjective(M) /\ Range(M) = Range(list) \ W
      /\ W = {} => M = list
      /\ list # << >> => /\ Head(list) \in Range(list)
                         /\ W = {} => Missed(list)
                         /\ W # {} => W = {Head(list)} /\ M # list
  BY <1>1, DequeueStep DEF Missed
<1>3. list = << >> => M = << >> /\ W = {}
  BY DEF Dequeued, FirstResumed
<1>4. W \subseteq Range(list)
  BY <1>2, <1>3
<1> HIDE DEF W
<1>5. /\ WaitInv'
      /\ \A u \in Threads : /\ suspended'[u] <=> suspended[u] /\ u \notin W
                            /\ error'[u] = IF u \in W THEN "OK" ELSE error[u]
  BY <1>2 DEF Wakes
<1>6. /\ \A u \in Threads : u # p => pc'[u] = pc[u]
      /\ p \in Threads => pc'[p] = "idle"
      /\ Threads \subseteq Procs
  BY PoolFacts DEF NodesInv, ListTypes
<1>7. \A u \in W : pc[u] = a /\ suspended[u] /\ u \in Threads /\ u # p
  BY <1>1, <1>4 DEF Asleep
<1>8. \A u \in Threads : /\ Sleeps(u, a)' <=> Sleeps(u, a) /\ u \notin W
                         /\ Sleeps(u, b)' <=> Sleeps(u, b)
  BY <1>5, <1>6, <1>7 DEF Sleeps, Asleep
<1>9. \A u \in Threads, l \in {"send", "recv"} :
        /\ Looks(u, l, a)' <=> Looks(u, l, a) \/ u \in W
        /\ Looks(u, l, b)' <=> Looks(u, l, b)
  <2> SUFFICES ASSUME NEW u \in Threads, NEW l \in {"send", "recv"}
               PROVE  /\ Looks(u, l, a)' <=> Looks(u, l, a) \/ u \in W
                      /\ Looks(u, l, b)' <=> Looks(u, l, b)
    OBVIOUS
  <2>1. CASE u \in W
    BY <2>1, <1>5, <1>6, <1>7 DEF Looks, Asleep
  <2>2. CASE u = p
    BY <2>2, <1>6, <1>7 DEF Looks, Asleep
  <2>3. CASE u # p /\ u \notin W
    BY <2>3, <1>5, <1>6 DEF Looks
  <2> QED
    BY <2>1, <2>2, <2>3
<1>10. Listed(a, M)'
  BY <1>2, <1>8 DEF Listed
<1>11. \A l \in {"send", "recv"} : Unmoved(l, b)
  BY <1>8, <1>9 DEF Unmoved
<1>12. \A l \in {"send", "recv"} : Looking(l, a)' = Looking(l, a) \cup W
  <2> SUFFICES ASSUME NEW l \in {"send", "recv"} PROVE Looking(l, a)' = Looking(l, a) \cup W
    OBVIOUS
  <2>1. Looking(l, a) = {u \in Threads : Looks(u, l, a)}
        /\ Looking(l, a)' = {u \in Threads : Looks(u, l, a)'}
    BY LookingSet
  <2> QED
    BY <2>1, <1>7, <1>9
<1>13. W # {} => \A l \in {"send", "recv"} :
                   Cardinality(Looking(l, a)') = Cardinality(Looking(l, a)) + 1
  <2> SUFFICES ASSUME W # {}, NEW l \in {"send", "recv"}
               PROVE  Cardinality(Looking(l, a)') = Cardinality(Looking(l, a)) + 1
    OBVIOUS
  <2>1. PICK h : W = {h}
    BY <1>2, <1>3
  <2>2. h \notin Looking(l, a)
    BY <2>1, <1>7 DEF Looking, Asleep
  <2>3. IsFiniteSet(Looking(l, a))
    BY FiniteThreads DEF Looking
  <2> QED
    BY <2>1, <2>2, <2>3, <1>12, FS_AddElement
<1> QED
  BY <1>2, <1>3, <1>5, <1>10, <1>11, <1>12, <1>13 DEF W

(* While no timer expires, there is one to resume.                         *)
LEMMA FirstWakes ==
  ASSUME WaitInv, expiring = NoThread, NEW a, NEW list, Listed(a, list), list # << >>,
         DequeueEffect(list)
  PROVE  FirstResumed(list) # {}
<1>1. /\ list \in Seq(Threads) /\ IsInjective(list)
      /\ \A t \in Range(list) : suspended[t] /\ t \in Threads
  BY InRange DEF Listed, Sleeps
<1>2. Head(list) \in Threads /\ FirstResumed(list) = {} => expiring = Head(list)
  BY <1>1, DequeueStep
<1>3. Head(list) \in Threads
  BY <1>1, TailRange
<1> QED
  BY <1>2, <1>3, ThreadsAssumption

-----------------------------------------------------------------------------
(* The steps.                                                              *)
RecvCovered == recvWait # << >> =>
                 entry <= Cardinality(Looking("recv", "recvAsleep")) + swallowed
SendCovered == sendWait # << >> =>
                 Len(free) <= Cardinality(Looking("send", "sendAsleep"))

LEMMA WakeFacts ==
  ASSUME WakeInv
  PROVE  /\ NodesInv /\ SleepInv /\ RecvCovered /\ SendCovered /\ WaitInv
         /\ entry \in Nat /\ Len(free) \in Nat /\ free \in Seq(Pool)
         /\ Threads \subseteq Procs
         /\ Listed("recvAsleep", recvWait) /\ Listed("sendAsleep", sendWait)
         /\ Roles /\ swallowed \in 0..entry
<1>1. /\ free \in Seq(Pool) /\ queue \in Seq(Pool) /\ entry = Len(queue)
      /\ Len(free) \in Nat /\ Len(queue) \in Nat
  BY LenProperties DEF WakeInv, NodesInv, ListTypes, NodesConserved
<1>2. NodesInv /\ SleepInv /\ RecvCovered /\ SendCovered
  BY DEF WakeInv, NoLostWakeup, RecvCovered, SendCovered
<1> QED
  BY <1>1, <1>2, PoolFacts DEF SleepInv

(* A step in which nobody sleeps or wakes on one side.                     *)
LEMMA RecvSideKept ==
  ASSUME WakeInv, Looking("recv", "recvAsleep")' = Looking("recv", "recvAsleep"),
         recvWait # << >> \/ recvWait' = << >>, UNCHANGED << entry, swallowed >>
  PROVE  RecvCovered'
  BY WakeFacts DEF RecvCovered

LEMMA SendSideKept ==
  ASSUME WakeInv, Looking("send", "sendAsleep")' = Looking("send", "sendAsleep"),
         sendWait # << >> \/ sendWait' = << >>, UNCHANGED free
  PROVE  SendCovered'
  BY WakeFacts DEF SendCovered

LEMMA Together ==
  ASSUME NodesInv', SleepInv', RecvCovered', SendCovered'
  PROVE  WakeInv'
  BY DEF WakeInv, NoLostWakeup, RecvCovered, SendCovered

(* What a caller leaves of the others, when it resumes nobody.             *)
LEMMA StillStep ==
  ASSUME WakeInv, NEW p \in Procs, UNCHANGED waitVars, NEW l, pc' = [pc EXCEPT ![p] = l]
  PROVE  WaitInv' /\ OnlyMoves(p) /\ pc'[p] = l /\ \A u \in Threads \ {p} : pc'[u] = pc[u]
<1>1. WaitInv'
  BY WakeFacts, WaitUnchanged
<1> QED
  BY <1>1, WakeFacts DEF OnlyMoves, waitVars, NodesInv, ListTypes

LEMMA SendCallWakes ==
  ASSUME WakeInv, NodesInv', NEW p \in Procs, NEW m \in SendModes \cup {"no"}, SendCall(p, m)
  PROVE  WakeInv'
<1>1. /\ pc[p] = "idle" /\ pc' = [pc EXCEPT ![p] = "send"] /\ mode' = [mode EXCEPT ![p] = m]
      /\ p \in Senders \/ m = "no"
      /\ UNCHANGED << free, entry, recvWait, sendWait, swallowed >>
      /\ UNCHANGED waitVars /\ m \in {"no", "timed", "forever"}
  BY ModesAssumption DEF SendCall, Goto, mqVars
<1>2. WaitInv' /\ OnlyMoves(p) /\ pc'[p] = "send"
  BY <1>1, StillStep
<1>3. Roles'
  BY <1>1, WakeFacts, RolesAssumption DEF Roles
<1>4. /\ ~Sleeps(p, "recvAsleep") /\ ~Sleeps(p, "recvAsleep")'
      /\ ~Sleeps(p, "sendAsleep") /\ ~Sleeps(p, "sendAsleep")'
      /\ ~Looks(p, "recv", "recvAsleep") /\ ~Looks(p, "recv", "recvAsleep")'
      /\ ~Looks(p, "send", "sendAsleep") /\ Looks(p, "send", "sendAsleep")'
  BY <1>1, <1>2 DEF Sleeps, Looks
<1>5. SleepInv'
  BY <1>1, <1>2, <1>3, <1>4, MoveStep, WakeFacts DEF SleepInv
<1>6. RecvCovered'
  BY <1>1, <1>2, <1>4, MoveStep, RecvSideKept
<1>7. SendCovered'
  <2>1. CASE p \in Threads
    <3>1. Cardinality(Looking("send", "sendAsleep")') = Cardinality(Looking("send", "sendAsleep")) + 1
      BY <2>1, <1>2, <1>4, MoveStep
    <3> QED
      BY <3>1, <1>1, WakeFacts, LookingSet DEF SendCovered
  <2>2. CASE p \notin Threads
    BY <2>2, <1>1, <1>2, MoveStep, UnmovedStep, SendSideKept
  <2> QED
    BY <2>1, <2>2
<1> QED
  BY <1>5, <1>6, <1>7, Together

LEMMA SendAllocWakes ==
  ASSUME WakeInv, NodesInv', NEW p \in Procs, SendAlloc(p)
  PROVE  WakeInv'
<1>1. /\ pc[p] = "send" /\ pc' = [pc EXCEPT ![p] = "link"] /\ free # << >> /\ free' = Tail(free)
      /\ UNCHANGED << mode, entry, recvWait, sendWait, swallowed >> /\ UNCHANGED waitVars
  BY DEF SendAlloc, Goto, history
<1>2. WaitInv' /\ OnlyMoves(p) /\ pc'[p] = "link"
  BY <1>1, StillStep
<1>3. Roles'
  BY <1>1, WakeFacts DEF Roles
<1>4. /\ ~Sleeps(p, "recvAsleep") /\ ~Sleeps(p, "recvAsleep")'
      /\ ~Sleeps(p, "sendAsleep") /\ ~Sleeps(p, "sendAsleep")'
      /\ ~Looks(p, "recv", "recvAsleep") /\ ~Looks(p, "recv", "recvAsleep")'
      /\ Looks(p, "send", "sendAsleep") /\ ~Looks(p, "send", "sendAsleep")'
  BY <1>1, <1>2 DEF Sleeps, Looks
<1>5. SleepInv'
  BY <1>1, <1>2, <1>3, <1>4, MoveStep, WakeFacts DEF SleepInv
<1>6. RecvCovered'
  BY <1>1, <1>2, <1>4, MoveStep, RecvSideKept
<1>7. Len(free') = Len(free) - 1
  BY <1>1, WakeFacts, HeadTailProperties
<1>8. SendCovered'
  <2>1. CASE p \in Threads
    <3>1. Cardinality(Looking("send", "sendAsleep")') = Cardinality(Looking("send", "sendAsleep")) - 1
      BY <2>1, <1>2, <1>4, MoveStep
    <3> QED
      BY <3>1, <1>1, <1>7, WakeFacts, LookingSet DEF SendCovered
  <2>2. CASE p \notin Threads
    <3>1. Looking("send", "sendAsleep")' = Looking("send", "sendAsleep")
      BY <2>2, <1>2, MoveStep, UnmovedStep
    <3> QED
      BY <3>1, <1>1, <1>7, WakeFacts, LookingSet DEF SendCovered
  <2> QED
    BY <2>1, <2>2
<1> QED
  BY <1>5, <1>6, <1>8, Together

(* A call that does not wait returns, and a thread goes to sleep.          *)
LEMMA SleepStep ==
  ASSUME WakeInv, NEW p \in Threads, NEW timed \in BOOLEAN, expiring = NoThread,
         Suspend(p, timed), NEW a \in Asleep, pc' = [pc EXCEPT ![p] = a]
  PROVE  /\ WaitInv' /\ OnlyMoves(p) /\ pc'[p] = a /\ suspended'[p]
         /\ \A l \in {"send", "recv"} : ~Looks(p, l, a)'
<1>1. /\ WaitInv'
      /\ \A u \in Threads : /\ suspended'[u] <=> suspended[u] \/ u = p
                            /\ error'[u] = IF u = p THEN "EINTR" ELSE error[u]
  BY WakeFacts, SuspendStep DEF Suspend
<1>2. /\ pc'[p] = a /\ \A u \in Threads \ {p} : pc'[u] = pc[u]
  BY WakeFacts DEF NodesInv, ListTypes
<1> QED
  BY <1>1, <1>2 DEF OnlyMoves, Looks, Asleep

LEMMA SendFullWakes ==
  ASSUME WakeInv, NodesInv', NEW p \in Procs, SendFull(p)
  PROVE  WakeInv'
<1>1. /\ pc[p] = "send" /\ free = << >> /\ Len(free) = 0
      /\ UNCHANGED << free, entry, recvWait, swallowed >>
      /\ p \in Threads => expiring = NoThread
  BY DEF SendFull, history, CanRun
<1>2. SendCovered'
  BY <1>1, WakeFacts, LookingSet DEF SendCovered
<1>3. CASE mode[p] = "no"
  <2>1. /\ pc' = [pc EXCEPT ![p] = "idle"] /\ mode' = [mode EXCEPT ![p] = "no"]
        /\ UNCHANGED waitVars /\ sendWait' = sendWait
    BY <1>3 DEF SendFull, Return, Goto
  <2>2. WaitInv' /\ OnlyMoves(p) /\ pc'[p] = "idle"
    BY <2>1, StillStep
  <2>3. Roles'
    BY <2>1, WakeFacts DEF Roles
  <2>4. /\ ~Sleeps(p, "recvAsleep") /\ ~Sleeps(p, "recvAsleep")'
        /\ ~Sleeps(p, "sendAsleep") /\ ~Sleeps(p, "sendAsleep")'
        /\ ~Looks(p, "recv", "recvAsleep") /\ ~Looks(p, "recv", "recvAsleep")'
    BY <1>1, <2>2 DEF Sleeps, Looks
  <2>5. SleepInv'
    BY <1>1, <2>1, <2>2, <2>3, <2>4, MoveStep, WakeFacts DEF SleepInv
  <2>6. RecvCovered'
    BY <1>1, <2>2, <2>4, MoveStep, RecvSideKept
  <2> QED
    BY <2>5, <2>6, <1>2, Together
<1>4. CASE mode[p] # "no"
  <2>1. /\ pc' = [pc EXCEPT ![p] = "sendAsleep"] /\ mode' = mode
        /\ Suspend(p, mode[p] = "timed") /\ sendWait' = Append(sendWait, p)
    BY <1>4 DEF SendFull, Goto
  <2>2. p \in Threads
    BY <1>4, WakeFacts DEF Roles, Procs
  <2>3. PICK timed \in BOOLEAN : timed = (mode[p] = "timed")
    OBVIOUS
  <2>4. WaitInv' /\ OnlyMoves(p) /\ pc'[p] = "sendAsleep" /\ suspended'[p]
    BY <1>1, <2>1, <2>2, <2>3, SleepStep DEF Asleep
  <2>5. Roles'
    BY <2>1, WakeFacts DEF Roles, NodesInv, ListTypes
  <2>6. /\ ~Sleeps(p, "recvAsleep") /\ ~Sleeps(p, "recvAsleep")'
        /\ ~Sleeps(p, "sendAsleep") /\ Sleeps(p, "sendAsleep")'
        /\ ~Looks(p, "recv", "recvAsleep") /\ ~Looks(p, "recv", "recvAsleep")'
    BY <1>1, <2>4 DEF Sleeps, Looks
  <2>7. Listed("recvAsleep", recvWait)' /\ Listed("sendAsleep", sendWait)'
    BY <1>1, <2>1, <2>2, <2>4, <2>6, MoveStep, WakeFacts
  <2>8. SleepInv'
    BY <1>1, <2>4, <2>5, <2>7, WakeFacts DEF SleepInv
  <2>9. RecvCovered'
    BY <1>1, <2>4, <2>6, MoveStep, RecvSideKept
  <2> QED
    BY <2>8, <2>9, <1>2, Together
<1> QED
  BY <1>3, <1>4

LEMMA RecvEmptyWakes ==
  ASSUME WakeInv, NodesInv', NEW p \in Procs, RecvEmpty(p)
  PROVE  WakeInv'
<1>1. /\ pc[p] = "recv" /\ entry = 0 /\ p \in Threads
      /\ UNCHANGED << free, entry, sendWait, swallowed >> /\ expiring = NoThread
  BY WakeFacts, RolesAssumption DEF RecvEmpty, history, CanRun, Roles
<1>2. RecvCovered'
  BY <1>1, WakeFacts, LookingSet DEF RecvCovered
<1>3. CASE mode[p] = "no"
  <2>1. /\ pc' = [pc EXCEPT ![p] = "idle"] /\ mode' = [mode EXCEPT ![p] = "no"]
        /\ UNCHANGED waitVars /\ recvWait' = recvWait
    BY <1>3 DEF RecvEmpty, Return, Goto
  <2>2. WaitInv' /\ OnlyMoves(p) /\ pc'[p] = "idle"
    BY <2>1, StillStep
  <2>3. Roles'
    BY <2>1, WakeFacts DEF Roles
  <2>4. /\ ~Sleeps(p, "recvAsleep") /\ ~Sleeps(p, "recvAsleep")'
        /\ ~Sleeps(p, "sendAsleep") /\ ~Sleeps(p, "sendAsleep")'
        /\ ~Looks(p, "send", "sendAsleep") /\ ~Looks(p, "send", "sendAsleep")'
    BY <1>1, <2>2 DEF Sleeps, Looks
  <2>5. SleepInv'
    BY <1>1, <2>1, <2>2, <2>3, <2>4, MoveStep, WakeFacts DEF SleepInv
  <2>6. SendCovered'
    BY <1>1, <2>2, <2>4, MoveStep, SendSideKept
  <2> QED
    BY <2>5, <2>6, <1>2, Together
<1>4. CASE mode[p] # "no"
  <2>1. /\ pc' = [pc EXCEPT ![p] = "recvAsleep"] /\ mode' = mode
        /\ Suspend(p, mode[p] = "timed") /\ recvWait' = Append(recvWait, p)
    BY <1>4 DEF RecvEmpty, Goto
  <2>2. PICK timed \in BOOLEAN : timed = (mode[p] = "timed")
    OBVIOUS
  <2>3. WaitInv' /\ OnlyMoves(p) /\ pc'[p] = "recvAsleep" /\ suspended'[p]
    BY <1>1, <2>1, <2>2, SleepStep DEF Asleep
  <2>4. Roles'
    BY <1>1, <2>1, WakeFacts DEF Roles, NodesInv, ListTypes
  <2>5. /\ ~Sleeps(p, "sendAsleep") /\ ~Sleeps(p, "sendAsleep")'
        /\ ~Sleeps(p, "recvAsleep") /\ Sleeps(p, "recvAsleep")'
        /\ ~Looks(p, "send", "sendAsleep") /\ ~Looks(p, "send", "sendAsleep")'
    BY <1>1, <2>3 DEF Sleeps, Looks
  <2>6. Listed("recvAsleep", recvWait)' /\ Listed("sendAsleep", sendWait)'
    BY <1>1, <2>1, <2>3, <2>5, MoveStep, WakeFacts
  <2>7. SleepInv'
    BY <1>1, <2>3, <2>4, <2>6, WakeFacts DEF SleepInv
  <2>8. SendCovered'
    BY <1>1, <2>3, <2>5, MoveStep, SendSideKept
  <2> QED
    BY <2>7, <2>8, <1>2, Together
<1> QED
  BY <1>3, <1>4

LEMMA RecvCallWakes ==
  ASSUME WakeInv, NodesInv', NEW p \in Procs, NEW m \in RecvModes, RecvCall(p, m)
  PROVE  WakeInv'
<1>1. /\ pc[p] = "idle" /\ pc' = [pc EXCEPT ![p] = "recv"] /\ mode' = [mode EXCEPT ![p] = m]
      /\ p \in Receivers /\ p \in Threads /\ p \notin Isrs
      /\ UNCHANGED << free, entry, recvWait, sendWait, swallowed >>
      /\ UNCHANGED waitVars /\ m \in {"no", "timed", "forever"}
  BY ModesAssumption, RolesAssumption DEF RecvCall, Goto, mqVars, history
<1>2. WaitInv' /\ OnlyMoves(p) /\ pc'[p] = "recv"
  BY <1>1, StillStep
<1>3. Roles'
  BY <1>1, WakeFacts, RolesAssumption DEF Roles
<1>4. /\ ~Sleeps(p, "recvAsleep") /\ ~Sleeps(p, "recvAsleep")'
      /\ ~Sleeps(p, "sendAsleep") /\ ~Sleeps(p, "sendAsleep")'
      /\ ~Looks(p, "recv", "recvAsleep") /\ Looks(p, "recv", "recvAsleep")'
      /\ ~Looks(p, "send", "sendAsleep") /\ ~Looks(p, "send", "sendAsleep")'
  BY <1>1, <1>2 DEF Sleeps, Looks
<1>5. SleepInv'
  BY <1>1, <1>2, <1>3, <1>4, MoveStep, WakeFacts DEF SleepInv
<1>6. SendCovered'
  BY <1>1, <1>2, <1>4, MoveStep, SendSideKept
<1>7. Cardinality(Looking("recv", "recvAsleep")') = Cardinality(Looking("recv", "recvAsleep")) + 1
  BY <1>1, <1>2, <1>4, MoveStep
<1>8. RecvCovered'
  BY <1>1, <1>7, WakeFacts, LookingSet DEF RecvCovered
<1> QED
  BY <1>5, <1>6, <1>8, Together

LEMMA RecvUnlinkWakes ==
  ASSUME WakeInv, NodesInv', NEW p \in Procs, RecvUnlink(p)
  PROVE  WakeInv'
<1>1. /\ pc[p] = "recv" /\ pc' = [pc EXCEPT ![p] = "free"] /\ entry' = entry - 1
      /\ p \in Threads /\ UNCHANGED << mode, free, recvWait, sendWait >>
      /\ UNCHANGED waitVars /\ entry > 0
      /\ swallowed' = IF swallowed < entry THEN swallowed ELSE entry'
  BY WakeFacts, RolesAssumption DEF RecvUnlink, Goto, Roles
<1>9. swallowed' \in 0..entry' /\ (swallowed' = swallowed \/ swallowed' = entry')
  BY <1>1, WakeFacts
<1>2. WaitInv' /\ OnlyMoves(p) /\ pc'[p] = "free"
  BY <1>1, StillStep
<1>3. Roles'
  BY <1>1, WakeFacts DEF Roles
<1>4. /\ ~Sleeps(p, "recvAsleep") /\ ~Sleeps(p, "recvAsleep")'
      /\ ~Sleeps(p, "sendAsleep") /\ ~Sleeps(p, "sendAsleep")'
      /\ Looks(p, "recv", "recvAsleep") /\ ~Looks(p, "recv", "recvAsleep")'
      /\ ~Looks(p, "send", "sendAsleep") /\ ~Looks(p, "send", "sendAsleep")'
  BY <1>1, <1>2 DEF Sleeps, Looks
<1>5. SleepInv'
  BY <1>1, <1>2, <1>3, <1>4, <1>9, MoveStep, WakeFacts DEF SleepInv
<1>6. SendCovered'
  BY <1>1, <1>2, <1>4, MoveStep, SendSideKept
<1>7. Cardinality(Looking("recv", "recvAsleep")') = Cardinality(Looking("recv", "recvAsleep")) - 1
  BY <1>1, <1>2, <1>4, MoveStep
<1>8. RecvCovered'
  BY <1>1, <1>7, <1>9, WakeFacts, LookingSet DEF RecvCovered
<1> QED
  BY <1>5, <1>6, <1>8, Together

(* The queue has room for the node in hand, so that every send counts, and *)
(* resumes a receiver or is counted in swallowed.                          *)
LEMMA SendLinkWakes ==
  ASSUME WakeInv, NodesInv', NEW p \in Procs, SendLink(p)
  PROVE  WakeInv'
<1>1. /\ pc[p] = "link" /\ pc' = [pc EXCEPT ![p] = "idle"] /\ mode' = [mode EXCEPT ![p] = "no"]
      /\ UNCHANGED << free, sendWait >>
  BY DEF SendLink, Return, Goto
<1>2. entry < EntryMax /\ entry' = entry + 1
  BY WakeFacts, LinkedRange
<1>3. /\ DequeueEffect(recvWait) /\ recvWait' = Dequeued(recvWait)
      /\ swallowed' = IF Missed(recvWait) THEN swallowed + 1 ELSE swallowed
  BY <1>2 DEF SendLink
<1>4. PICK M : M = Dequeued(recvWait)
  OBVIOUS
<1>5. "recvAsleep" \in Asleep /\ "sendAsleep" \in Asleep \ {"recvAsleep"}
  BY DEF Asleep
<1>6. /\ WaitInv' /\ Listed("recvAsleep", M)' /\ Unmoved("send", "sendAsleep")
      /\ FirstResumed(recvWait) = {} =>
           /\ M = recvWait /\ (recvWait # << >> => Missed(recvWait))
           /\ Looking("recv", "recvAsleep")' = Looking("recv", "recvAsleep")
      /\ FirstResumed(recvWait) # {} =>
           Cardinality(Looking("recv", "recvAsleep")') = Cardinality(Looking("recv", "recvAsleep")) + 1
      /\ recvWait = << >> => M = << >>
  BY <1>1, <1>3, <1>4, <1>5, WakeFacts, WakeFirst
<1>7. recvWait' = M
  BY <1>3, <1>4
<1>8. /\ Looking("send", "sendAsleep")' = Looking("send", "sendAsleep")
      /\ Listed("sendAsleep", sendWait)'
  BY <1>1, <1>6, UnmovedStep, WakeFacts
<1>9. Listed("recvAsleep", recvWait)'
  BY <1>6, <1>7 DEF Listed
<1>10. Roles'
  BY <1>1, WakeFacts DEF Roles, NodesInv, ListTypes
<1>11. swallowed' \in 0..entry'
  BY <1>2, <1>3, WakeFacts
<1>12. SleepInv'
  BY <1>6, <1>8, <1>9, <1>10, <1>11 DEF SleepInv
<1>13. RecvCovered'
  <2>1. CASE recvWait = << >>
    BY <2>1, <1>6, <1>7 DEF RecvCovered
  <2>2. CASE recvWait # << >> /\ FirstResumed(recvWait) = {}
    BY <2>2, <1>2, <1>3, <1>6, WakeFacts, LookingSet DEF RecvCovered
  <2>3. CASE recvWait # << >> /\ FirstResumed(recvWait) # {}
    BY <2>3, <1>2, <1>3, <1>6, WakeFacts, LookingSet DEF RecvCovered
  <2> QED
    BY <2>1, <2>2, <2>3
<1>14. SendCovered'
  BY <1>1, <1>8, SendSideKept, WakeFacts DEF SendCovered
<1> QED
  BY <1>12, <1>13, <1>14, Together

(* No timer expires while a thread runs, so that a receive resumes the     *)
(* first sender.                                                           *)
LEMMA RecvFreeWakes ==
  ASSUME WakeInv, NodesInv', NEW p \in Procs, RecvFree(p)
  PROVE  WakeInv'
<1>1. /\ pc[p] = "free" /\ pc' = [pc EXCEPT ![p] = "idle"] /\ mode' = [mode EXCEPT ![p] = "no"]
      /\ UNCHANGED << entry, recvWait, swallowed >>
      /\ DequeueEffect(sendWait) /\ sendWait' = Dequeued(sendWait)
      /\ free' = << node[p] >> \o free
  BY DEF RecvFree, Return, Goto
<1>2. p \in Threads /\ expiring = NoThread
  BY <1>1, WakeFacts, RolesAssumption DEF RecvFree, CanRun, Roles
<1>3. Len(free') = Len(free) + 1
  <2>1. node[p] \in Pool
    BY <1>1, WakeFacts DEF NodesInv, NodesConserved, InHand
  <2> QED
    BY <2>1, <1>1, WakeFacts, PrependRange
<1>4. PICK M : M = Dequeued(sendWait)
  OBVIOUS
<1>5. "sendAsleep" \in Asleep /\ "recvAsleep" \in Asleep \ {"sendAsleep"}
  BY DEF Asleep
<1>6. /\ WaitInv' /\ Listed("sendAsleep", M)' /\ Unmoved("recv", "recvAsleep")
      /\ FirstResumed(sendWait) # {} =>
           Cardinality(Looking("send", "sendAsleep")') = Cardinality(Looking("send", "sendAsleep")) + 1
      /\ sendWait = << >> => M = << >>
      /\ sendWait # << >> => FirstResumed(sendWait) # {}
  <2>1. WaitInv /\ NodesInv /\ Listed("sendAsleep", sendWait) /\ DequeueEffect(sendWait)
    BY <1>1, WakeFacts
  <2>2. pc[p] \in {"link", "free"} /\ pc' = [pc EXCEPT ![p] = "idle"]
    BY <1>1
  <2>3. /\ WaitInv' /\ Listed("sendAsleep", M)' /\ Unmoved("recv", "recvAsleep")
        /\ FirstResumed(sendWait) # {} =>
             Cardinality(Looking("send", "sendAsleep")') = Cardinality(Looking("send", "sendAsleep")) + 1
        /\ sendWait = << >> => M = << >>
    BY <2>1, <2>2, <1>4, <1>5, WakeFirst
  <2>4. sendWait # << >> => FirstResumed(sendWait) # {}
    BY <2>1, <1>2, FirstWakes
  <2> QED
    BY <2>3, <2>4
<1>7. sendWait' = M
  BY <1>1, <1>4
<1>8. /\ Looking("recv", "recvAsleep")' = Looking("recv", "recvAsleep")
      /\ Listed("recvAsleep", recvWait)'
  BY <1>1, <1>6, UnmovedStep, WakeFacts
<1>9. Listed("sendAsleep", sendWait)'
  BY <1>6, <1>7 DEF Listed
<1>10. Roles'
  BY <1>1, WakeFacts DEF Roles, NodesInv, ListTypes
<1>11. SleepInv'
  BY <1>1, <1>6, <1>8, <1>9, <1>10, WakeFacts DEF SleepInv
<1>12. RecvCovered'
  BY <1>1, <1>8, RecvSideKept, WakeFacts DEF RecvCovered
<1>13. SendCovered'
  BY <1>3, <1>6, <1>7, WakeFacts, LookingSet DEF SendCovered
<1> QED
  BY <1>11, <1>12, <1>13, Together

(* Resumed, the caller looks again; with an error it was not looking.      *)
LEMMA ResumeWakes ==
  ASSUME WakeInv, NodesInv', NEW p \in Procs, NEW m \in {"no", "timed", "forever"}, Resume(p, m)
  PROVE  WakeInv'
<1>1. /\ p \in Threads /\ pc[p] \in {"sendAsleep", "recvAsleep"} /\ ~suspended[p]
      /\ UNCHANGED waitVars /\ UNCHANGED << free, entry, recvWait, sendWait, swallowed >>
  BY DEF Resume, Retry, mqVars, history
<1>2. PICK l : /\ pc' = [pc EXCEPT ![p] = l]
               /\ l = IF error[p] # "OK" THEN "idle"
                      ELSE IF pc[p] = "sendAsleep" THEN "send" ELSE "recv"
  <2>1. CASE error[p] = "OK"
    BY <2>1, <1>1 DEF Resume, Goto, Retry
  <2>2. CASE error[p] # "OK"
    BY <2>2 DEF Resume, Return, Goto
  <2> QED
    BY <2>1, <2>2
<1>3. /\ mode' \in [Procs -> {"no", "timed", "forever"}]
      /\ \A i \in Isrs : mode'[i] = "no"
  <2>1. p \notin Isrs
    BY <1>1, RolesAssumption
  <2>2. PICK k \in {"no", "timed", "forever"} : mode' = [mode EXCEPT ![p] = k]
    BY DEF Resume, Return
  <2> QED
    BY <2>1, <2>2, WakeFacts DEF Roles
<1>4. WaitInv' /\ OnlyMoves(p) /\ pc'[p] = l
  BY <1>1, <1>2, StillStep
<1>5. suspended' = suspended /\ error' = error
  BY <1>1 DEF waitVars
<1>6. Roles'
  <2>1. \A q \in Procs : pc'[q] = IF q = p THEN l ELSE pc[q]
    BY <1>2, WakeFacts DEF NodesInv, ListTypes
  <2> QED
    BY <2>1, <1>1, <1>2, <1>3, WakeFacts DEF Roles
<1>7. /\ ~Sleeps(p, "recvAsleep") /\ ~Sleeps(p, "recvAsleep")'
      /\ ~Sleeps(p, "sendAsleep") /\ ~Sleeps(p, "sendAsleep")'
      /\ Looks(p, "recv", "recvAsleep")' <=> Looks(p, "recv", "recvAsleep")
      /\ Looks(p, "send", "sendAsleep")' <=> Looks(p, "send", "sendAsleep")
  BY <1>1, <1>2, <1>4, <1>5 DEF Sleeps, Looks
<1>8. /\ Listed("recvAsleep", recvWait)' /\ Listed("sendAsleep", sendWait)'
      /\ Looking("recv", "recvAsleep")' = Looking("recv", "recvAsleep")
      /\ Looking("send", "sendAsleep")' = Looking("send", "sendAsleep")
  BY <1>1, <1>4, <1>7, MoveStep, WakeFacts
<1>9. SleepInv'
  BY <1>1, <1>4, <1>6, <1>8, WakeFacts DEF SleepInv
<1>10. RecvCovered' /\ SendCovered'
  BY <1>1, <1>8, WakeFacts DEF RecvCovered, SendCovered
<1> QED
  BY <1>9, <1>10, Together

LEMMA TimeoutWakes ==
  ASSUME WakeInv, NodesInv', NEW t \in Threads, Timeout(t)
  PROVE  WakeInv'
<1>1. /\ UNCHANGED << free, entry, pc, mode, swallowed >>
      /\ recvWait' = Without(recvWait, {t}) /\ sendWait' = Without(sendWait, {t})
      /\ suspended[t]
  BY DEF Timeout, callers, history, ThreadTimeout
<1>2. /\ WaitInv'
      /\ \A u \in Threads : /\ suspended'[u] <=> suspended[u] /\ u # t
                            /\ error'[u] = IF u = t THEN "ETIMEOUT" ELSE error[u]
  BY WakeFacts, TimeoutStep DEF Timeout
<1>3. ASSUME NEW a, NEW l
      PROVE  \A u \in Threads : /\ Sleeps(u, a)' <=> Sleeps(u, a) /\ u # t
                                /\ Looks(u, l, a)' <=> Looks(u, l, a)
  BY <1>1, <1>2 DEF Sleeps, Looks
<1>4. ASSUME NEW a, NEW L, NEW M, Listed(a, L), M = Without(L, {t}) PROVE Listed(a, M)'
  <2>1. L \in Seq(Threads) /\ IsInjective(L)
    BY <1>4 DEF Listed
  <2>2. M \in Seq(Threads) /\ IsInjective(M) /\ Range(M) = Range(L) \ {t}
    BY <2>1, <1>4, WithoutList
  <2> QED
    BY <2>2, <1>3, <1>4 DEF Listed
<1>5. Listed("recvAsleep", recvWait)' /\ Listed("sendAsleep", sendWait)'
  <2>1. PICK M, N : M = recvWait' /\ N = sendWait'
    OBVIOUS
  <2>2. Listed("recvAsleep", M)' /\ Listed("sendAsleep", N)'
    BY <2>1, <1>1, <1>4, WakeFacts
  <2> QED
    BY <2>1, <2>2 DEF Listed
<1>6. /\ Looking("recv", "recvAsleep")' = Looking("recv", "recvAsleep")
      /\ Looking("send", "sendAsleep")' = Looking("send", "sendAsleep")
  BY <1>3, LookingSet
<1>7. (recvWait = << >> => recvWait' = << >>) /\ (sendWait = << >> => sendWait' = << >>)
  <2>1. ASSUME NEW L \in Seq(Threads), Without(L, {t}) # << >> PROVE L # << >>
    <3>1. Without(L, {t}) \in Seq(Threads) /\ Range(Without(L, {t})) = Range(L) \ {t}
      BY WithoutList
    <3>2. Head(Without(L, {t})) \in Range(L)
      BY <3>1, <2>1, TailRange
    <3>3. Range(<< >>) = {}
      BY DEF Range
    <3> QED
      BY <3>2, <3>3
  <2> QED
    BY <2>1, <1>1, WakeFacts DEF Listed
<1>8. SleepInv'
  BY <1>1, <1>2, <1>5, WakeFacts DEF SleepInv, Roles
<1>9. RecvCovered' /\ SendCovered'
  BY <1>1, <1>6, <1>7, RecvSideKept, SendSideKept
<1> QED
  BY <1>8, <1>9, Together

(* The tick handler finds a timer expired, or nothing happens.             *)
LEMMA QuietWakes ==
  ASSUME WakeInv, NodesInv', (\E t \in Threads : Expire(t)) \/ UNCHANGED vars
  PROVE  WakeInv'
<1>1. /\ WaitInv' /\ UNCHANGED << suspended, error >>
      /\ UNCHANGED << mqVars, callers, swallowed >>
  BY WakeFacts, ExpireStep, WaitUnchanged DEF Expire, vars, waitVars, history
<1>2. /\ UNCHANGED << free, entry, recvWait, sendWait, pc, mode, suspended, error, swallowed >>
  BY <1>1 DEF mqVars, callers
<1>3. SleepInv'
  BY <1>1, <1>2, WakeFacts DEF SleepInv, Roles, Listed, Sleeps
<1>4. RecvCovered' /\ SendCovered'
  BY <1>2, WakeFacts DEF RecvCovered, SendCovered, Looking
<1> QED
  BY <1>3, <1>4, Together

-----------------------------------------------------------------------------
(* The theorems.                                                           *)
LEMMA WakeInit == Init => WakeInv
<1> SUFFICES ASSUME Init PROVE WakeInv
  OBVIOUS
<1>1. NodesInv /\ WaitInv
  BY NodesInit, WaitInitially DEF Init
<1>2. /\ recvWait = << >> /\ sendWait = << >> /\ swallowed = 0 /\ entry = 0
      /\ pc = [p \in Procs |-> "idle"] /\ mode = [p \in Procs |-> "no"]
  BY DEF Init
<1>3. Listed("recvAsleep", recvWait) /\ Listed("sendAsleep", sendWait)
  BY <1>2, PoolFacts DEF Listed, Sleeps, Range, IsInjective
<1>4. Roles
  BY <1>2 DEF Roles, Procs
<1> QED
  BY <1>1, <1>2, <1>3, <1>4 DEF WakeInv, SleepInv, NoLostWakeup

LEMMA WakeStep == WakeInv /\ [Next]_vars => WakeInv'
<1> SUFFICES ASSUME WakeInv, [Next]_vars PROVE WakeInv'
  OBVIOUS
<1>1. NodesInv'
  BY NodesStep DEF WakeInv
<1>2. ASSUME NEW p \in Procs, Begin(p) PROVE WakeInv'
  BY <1>1, <1>2, SendCallWakes, RecvCallWakes DEF Begin
<1>3. ASSUME NEW p \in Procs, InCall(p) PROVE WakeInv'
  BY <1>1, <1>3, SendAllocWakes, SendFullWakes, SendLinkWakes, RecvUnlinkWakes,
     RecvEmptyWakes, RecvFreeWakes, ResumeWakes DEF InCall
<1>4. ASSUME NEW t \in Threads, Expire(t) \/ Timeout(t) PROVE WakeInv'
  BY <1>1, <1>4, QuietWakes, TimeoutWakes
<1>5. CASE UNCHANGED vars
  BY <1>1, <1>5, QuietWakes
<1> QED
  BY <1>2, <1>3, <1>4, <1>5 DEF Next

(* For any threads, interrupt handlers and pool: while receivers sleep,    *)
(* the messages in the queue are at most the receivers coming for them and *)
(* the messages whose send met the first receiver's time-out function just *)
(* about to run, which resumed nobody and are counted one by one; while    *)
(* senders sleep, each free node has a sender coming for it.  Nothing but  *)
(* that meeting loses a wake-up.                                           *)
THEOREM WakeupsAreNotLost == Spec => []NoLostWakeup
<1>1. WakeInv => NoLostWakeup
  BY DEF WakeInv
<1> QED
  BY <1>1, WakeInit, WakeStep, PTL DEF Spec

(* Every variable of the message queue stays within its type.              *)
THEOREM TypeCorrect == Spec => []TypeOK
<1> DEFINE Inv == BufferInv /\ SleepInv /\ delivered \subseteq Message
<1>1. Inv => TypeOK
  <2> SUFFICES ASSUME Inv PROVE TypeOK
    OBVIOUS
  <2>1. queue \in Seq(Pool) /\ entry = Len(queue) /\ Len(queue) \in Nat
    BY LenProperties DEF BufferInv, NodesInv, ListTypes, NodesConserved
  <2> QED
    BY <2>1 DEF BufferInv, NodesInv, ListTypes, SleepInv, WaitInv, Listed, Roles, Fresh, TypeOK
<1>2. Init => delivered \subseteq Message
  BY DEF Init
<1>3. BufferInv /\ delivered \subseteq Message /\ [Next]_vars => (delivered \subseteq Message)'
  <2> SUFFICES ASSUME BufferInv, delivered \subseteq Message, [Next]_vars
               PROVE  delivered' \subseteq Message
    OBVIOUS
  <2>1. ASSUME NEW p \in Procs, RecvFree(p) PROVE delivered' \subseteq Message
    BY <2>1, RecvFreeDelivers
  <2>2. CASE ~\E p \in Procs : RecvFree(p)
    <3>1. delivered' = delivered
      BY <2>2 DEF Next, Begin, InCall, SendCall, SendAlloc, SendFull, SendLink, RecvCall, RecvUnlink,
                  RecvEmpty, Resume, Expire, Timeout, history, vars
    <3> QED
      BY <3>1
  <2> QED
    BY <2>1, <2>2
<1> QED
  BY <1>1, <1>2, <1>3, BufferInit, BufferStep, WakeInit, WakeStep, PTL DEF Spec, WakeInv
=============================================================================
