--------------------------- MODULE Gateway_proofs ---------------------------
(***************************************************************************)
(* Proofs about the application's threads, for every set of frames, every  *)
(* capacity of the queues and every kind and number of faults: each        *)
(* producer's messages reach the bus in the order it produced them.        *)
(***************************************************************************)
EXTENDS Gateway, SeqLemmas

(* The queues are sequences of whatever they hold: the order of their      *)
(* messages needs nothing of the frames within.                            *)
IsSeq(s) == s \in Seq(Range(s))

LEMMA SeqIsSeq ==
  ASSUME NEW S, NEW s \in Seq(S)
  PROVE  IsSeq(s)
<1>1. s \in [1..Len(s) -> S] /\ Len(s) \in Nat /\ DOMAIN s = 1..Len(s)
  BY LenProperties
<1>2. s \in [1..Len(s) -> Range(s)]
  BY <1>1 DEF Range
<1> QED
  BY <1>1, <1>2, SeqDef DEF IsSeq

LEMMA AppendIsSeq ==
  ASSUME NEW s, IsSeq(s), NEW e
  PROVE  /\ IsSeq(Append(s, e)) /\ Len(Append(s, e)) = Len(s) + 1 /\ Len(s) \in Nat
         /\ \A i \in 1..Len(s) : Append(s, e)[i] = s[i] /\ s[i] \in Range(s)
         /\ Append(s, e)[Len(s) + 1] = e
         /\ Range(Append(s, e)) = Range(s) \cup {e}
         /\ Append(s, e) = s \o << e >>
<1> DEFINE S == Range(s) \cup {e}
<1>1. s \in Seq(Range(s)) /\ Range(s) \subseteq S /\ e \in S
  BY DEF IsSeq
<1> HIDE DEF S
<1>2. s \in Seq(S)
  BY <1>1, SeqMonotonic
<1>3. Append(s, e) \in Seq(S)
  BY <1>1, <1>2, AppendProperties
<1>4. IsSeq(Append(s, e))
  BY <1>3, SeqIsSeq
<1>5. /\ Len(Append(s, e)) = Len(s) + 1 /\ Len(s) \in Nat
      /\ \A i \in 1..Len(s) : Append(s, e)[i] = s[i]
      /\ Append(s, e)[Len(s) + 1] = e
  BY <1>1, <1>2, AppendProperties, LenProperties
<1>6. \A i \in 1..Len(s) : s[i] \in Range(s)
  BY <1>2, InRange
<1>7. Range(Append(s, e)) = Range(s) \cup {e} /\ Append(s, e) = s \o << e >>
  BY <1>1, <1>2, AppendRange, AppendIsConcat
<1> QED
  BY <1>4, <1>5, <1>6, <1>7

LEMMA TailIsSeq ==
  ASSUME NEW s, IsSeq(s), s # << >>
  PROVE  /\ IsSeq(Tail(s)) /\ Len(s) \in Nat /\ Len(s) >= 1 /\ Len(Tail(s)) = Len(s) - 1
         /\ \A i \in 1..Len(Tail(s)) : Tail(s)[i] = s[i + 1]
         /\ Head(s) = s[1] /\ Range(s) = Range(Tail(s)) \cup {Head(s)}
         /\ \A i \in 1..Len(s) : s[i] \in Range(s)
         /\ \A x \in Range(Tail(s)) : \E i \in 1..Len(Tail(s)) : x = Tail(s)[i]
<1>1. s \in Seq(Range(s)) /\ Tail(s) \in Seq(Range(s))
  BY HeadTailProperties DEF IsSeq
<1>2. Len(s) \in Nat \ {0}
  BY <1>1, EmptySeq
<1>3. IsSeq(Tail(s))
  BY <1>1, SeqIsSeq
<1>4. /\ Len(Tail(s)) = Len(s) - 1 /\ \A i \in 1..Len(Tail(s)) : Tail(s)[i] = s[i + 1]
      /\ Head(s) = s[1]
  BY <1>1, <1>2, HeadTailProperties
<1>5. Range(s) = Range(Tail(s)) \cup {Head(s)}
  BY <1>1, TailRange
<1>6. \A i \in 1..Len(s) : s[i] \in Range(s)
  BY <1>1, InRange
<1>7. \A x \in Range(Tail(s)) : \E i \in 1..Len(Tail(s)) : x = Tail(s)[i]
  BY <1>1, InRange
<1> QED
  BY <1>2, <1>3, <1>4, <1>5, <1>6, <1>7

-----------------------------------------------------------------------------
(* Messages in the order their producers count them.                       *)

Precedes(m, n) == m.src = n.src => m.seq < n.seq
Before(A, B) == \A m \in A, n \in B : Precedes(m, n)
Sorted(s) == \A i, j \in 1..Len(s) : i < j => Precedes(s[i], s[j])

LEMMA SortedAppend ==
  ASSUME NEW s, IsSeq(s), Sorted(s), NEW e, Before(Range(s), {e})
  PROVE  Sorted(Append(s, e))
<1>1. /\ Len(Append(s, e)) = Len(s) + 1 /\ Len(s) \in Nat
      /\ \A i \in 1..Len(s) : Append(s, e)[i] = s[i] /\ s[i] \in Range(s)
      /\ Append(s, e)[Len(s) + 1] = e
  BY AppendIsSeq
<1>2. ASSUME NEW i \in 1..Len(Append(s, e)), NEW j \in 1..Len(Append(s, e)), i < j
      PROVE  Precedes(Append(s, e)[i], Append(s, e)[j])
  <2>1. i \in 1..Len(s)
    BY <1>1, <1>2
  <2>2. CASE j \in 1..Len(s)
    BY <2>1, <2>2, <1>1, <1>2 DEF Sorted
  <2>3. CASE j = Len(s) + 1
    BY <2>1, <2>3, <1>1 DEF Before
  <2> QED
    BY <2>2, <2>3, <1>1
<1> QED
  BY <1>2 DEF Sorted

LEMMA SortedTail ==
  ASSUME NEW s, IsSeq(s), s # << >>, Sorted(s)
  PROVE  Sorted(Tail(s)) /\ Before({Head(s)}, Range(Tail(s)))
<1>1. /\ Len(s) \in Nat /\ Len(s) >= 1 /\ Len(Tail(s)) = Len(s) - 1
      /\ \A i \in 1..Len(Tail(s)) : Tail(s)[i] = s[i + 1]
      /\ Head(s) = s[1]
      /\ \A x \in Range(Tail(s)) : \E i \in 1..Len(Tail(s)) : x = Tail(s)[i]
  BY TailIsSeq
<1>2. \A i \in 1..Len(Tail(s)) : i + 1 \in 1..Len(s) /\ 1 < i + 1 /\ 1 \in 1..Len(s)
  BY <1>1
<1>3. Sorted(Tail(s))
  <2>1. ASSUME NEW i \in 1..Len(Tail(s)), NEW j \in 1..Len(Tail(s)), i < j
        PROVE  Precedes(Tail(s)[i], Tail(s)[j])
    <3>1. i + 1 < j + 1
      BY <2>1
    <3> QED
      BY <3>1, <1>1, <1>2 DEF Sorted
  <2> QED
    BY <2>1 DEF Sorted
<1>4. \A i \in 1..Len(Tail(s)) : Precedes(Head(s), Tail(s)[i])
  BY <1>1, <1>2 DEF Sorted
<1> QED
  BY <1>1, <1>3, <1>4 DEF Before

-----------------------------------------------------------------------------
(* The messages on their way are in order on the bus, in the hands of      *)
(* can_tx_thread and in can_tx_queue; the heartbeats count to beat; the    *)
(* replies so far are to requests before the one in hand, and that one is  *)
(* before those in can_rx_queue.                                           *)

InWrite == Range(sending)
Produced == Range(bus) \cup InWrite \cup Range(txq)
MidRequest == pc \in {"send", "await", "reply"}

Shapes ==
  /\ IsSeq(bus) /\ IsSeq(txq) /\ IsSeq(rxq) /\ got \in Seq(Frames) /\ beat \in Nat
  /\ sending = << >> \/ sending = << sending[1] >>
  /\ pc \in {"off", "poll", "send", "await", "reply"}

PathSorted ==
  /\ Sorted(bus) /\ Sorted(txq)
  /\ Before(Range(bus), InWrite) /\ Before(Range(bus), Range(txq))
  /\ Before(InWrite, Range(txq))

Counted ==
  \A m \in Produced : \/ m.src = "main" /\ m.seq \in 0..beat
                      \/ m.src = "modbus" /\ m.seq \in Nat

RequestsSorted ==
  /\ \A i \in 1..Len(rxq) : rxq[i].id \in 1..Len(got)
  /\ \A i, j \in 1..Len(rxq) : i < j => rxq[i].id < rxq[j].id
  /\ MidRequest => cur.id \in 1..Len(got) /\ \A i \in 1..Len(rxq) : cur.id < rxq[i].id

RepliesBefore ==
  \A m \in Produced : m.src = "modbus" =>
    /\ m.seq <= Len(got)
    /\ \A i \in 1..Len(rxq) : m.seq < rxq[i].id
    /\ MidRequest => m.seq < cur.id

OrderInv == Shapes /\ PathSorted /\ Counted /\ RequestsSorted /\ RepliesBefore

LEMMA Written ==
  ASSUME Shapes
  PROVE  /\ sending = << >> => InWrite = {}
         /\ sending # << >> => InWrite = {sending[1]} /\ sending = << sending[1] >>
  BY DEF Shapes, InWrite, Range

LEMMA OrderInit == Init => OrderInv
<1> SUFFICES ASSUME Init PROVE OrderInv
  OBVIOUS
<1>1. /\ bus = << >> /\ txq = << >> /\ rxq = << >> /\ sending = << >> /\ got = << >>
      /\ beat = 0 /\ pc = "off"
  BY DEF Init
<1>2. Len(<< >>) = 0 /\ Range(<< >>) = {} /\ IsSeq(<< >>)
  BY DEF Range, IsSeq
<1>3. Shapes
  BY <1>1, <1>2 DEF Shapes
<1>4. Produced = {} /\ InWrite = {} /\ ~MidRequest
  BY <1>1, <1>2 DEF Produced, InWrite, MidRequest
<1>5. PathSorted /\ Counted /\ RequestsSorted /\ RepliesBefore
  BY <1>1, <1>2, <1>4 DEF PathSorted, Counted, RequestsSorted, RepliesBefore, Sorted, Before
<1> QED
  BY <1>3, <1>5 DEF OrderInv

(* A step that moves no message and takes no request; md_m_send may end    *)
(* the request in hand.                                                    *)
LEMMA StillOrdered ==
  ASSUME OrderInv, UNCHANGED << bus, txq, rxq, sending, got, beat >>,
         pc' \in {"off", "poll", "send", "await", "reply"},
         MidRequest' => MidRequest /\ cur' = cur
  PROVE  OrderInv'
<1>1. Shapes'
  BY DEF OrderInv, Shapes
<1>2. Produced' = Produced /\ InWrite' = InWrite
  BY DEF Produced, InWrite
<1>3. PathSorted'
  BY <1>2 DEF OrderInv, PathSorted, Sorted, Before
<1>4. Counted' /\ RequestsSorted' /\ RepliesBefore'
  BY <1>2 DEF OrderInv, Counted, RequestsSorted, RepliesBefore
<1> QED
  BY <1>1, <1>3, <1>4 DEF OrderInv

(* A message joins can_tx_queue behind every other of its producer.        *)
LEMMA QueuedInOrder ==
  ASSUME OrderInv, NEW m, txq' = MqSend(txq, TxCap, m), UNCHANGED << bus, sending >>,
         Before(Produced, {m})
  PROVE  /\ IsSeq(txq') /\ PathSorted' /\ Produced' \subseteq Produced \cup {m}
<1>1. CASE txq' = txq
  BY <1>1 DEF OrderInv, Shapes, PathSorted, Sorted, Before, Produced, InWrite
<1>2. CASE txq' = Append(txq, m)
  <2>1. IsSeq(txq) /\ Sorted(txq) /\ Before(Range(txq), {m})
    BY DEF OrderInv, Shapes, PathSorted, Before, Produced
  <2>2. IsSeq(txq') /\ Range(txq') = Range(txq) \cup {m} /\ Sorted(txq')
    <3>1. IsSeq(Append(txq, m)) /\ Range(Append(txq, m)) = Range(txq) \cup {m}
      BY <2>1, AppendIsSeq
    <3>2. Sorted(Append(txq, m))
      BY <2>1, SortedAppend
    <3> QED
      BY <1>2, <3>1, <3>2
  <2>3. /\ Before(Range(bus), {m}) /\ Before(InWrite, {m})
        /\ InWrite' = InWrite /\ bus' = bus
    BY DEF Before, Produced, InWrite
  <2>4. PathSorted'
    BY <2>2, <2>3 DEF OrderInv, PathSorted, Before, Sorted
  <2>5. Produced' \subseteq Produced \cup {m}
    BY <2>2, <2>3 DEF Produced
  <2> QED
    BY <2>2, <2>4, <2>5
<1> QED
  BY <1>1, <1>2 DEF MqSend

LEMMA MainBeatOrdered ==
  ASSUME OrderInv, MainBeat
  PROVE  OrderInv'
<1>1. PICK junk \in Garbage : txq' = MqSend(txq, TxCap, Heartbeat(beat', junk))
  BY DEF MainBeat
<1> DEFINE m == Heartbeat(beat', junk)
<1>2. m.src = "main" /\ m.seq = beat + 1 /\ beat \in Nat /\ beat' = beat + 1
  BY DEF Heartbeat, MainBeat, OrderInv, Shapes
<1>3. UNCHANGED << bus, sending, rxq, got, pc, cur >>
  BY DEF MainBeat, mdVars, history
<1> HIDE DEF m
<1>4. Before(Produced, {m})
  BY <1>2 DEF OrderInv, Counted, Before, Precedes
<1>5. IsSeq(txq') /\ PathSorted' /\ Produced' \subseteq Produced \cup {m}
  BY <1>1, <1>3, <1>4, QueuedInOrder DEF m
<1>6. Shapes'
  BY <1>2, <1>3, <1>5 DEF OrderInv, Shapes
<1>7. Counted'
  BY <1>2, <1>5 DEF OrderInv, Counted
<1>8. RequestsSorted' /\ RepliesBefore'
  BY <1>2, <1>3, <1>5 DEF OrderInv, RequestsSorted, RepliesBefore, MidRequest
<1> QED
  BY <1>5, <1>6, <1>7, <1>8 DEF OrderInv

LEMMA MdReplyOrdered ==
  ASSUME OrderInv, MdReply
  PROVE  OrderInv'
<1>1. /\ MidRequest /\ pc' = "poll" /\ ~MidRequest'
      /\ UNCHANGED << bus, sending, rxq, got, beat >>
  BY DEF MdReply, Idle, MidRequest, history
<1>2. CASE txq' = txq
  BY <1>1, <1>2, StillOrdered
<1>3. CASE txq' # txq
  <2> DEFINE m == [src |-> "modbus", seq |-> cur.id, frame |-> ReplyFrame(cur.frame, vals)]
  <2>1. txq' = MqSend(txq, TxCap, m)
    BY <1>3 DEF MdReply
  <2>2. /\ m.src = "modbus" /\ m.seq = cur.id /\ cur.id \in 1..Len(got) /\ Len(got) \in Nat
        /\ \A i \in 1..Len(rxq) : cur.id < rxq[i].id
    BY <1>1, LenProperties DEF OrderInv, RequestsSorted, Shapes
  <2> HIDE DEF m
  <2>3. Before(Produced, {m})
    BY <1>1, <2>2 DEF OrderInv, RepliesBefore, Before, Precedes
  <2>4. IsSeq(txq') /\ PathSorted' /\ Produced' \subseteq Produced \cup {m}
    BY <1>1, <2>1, <2>3, QueuedInOrder
  <2>5. Shapes'
    BY <1>1, <2>4 DEF OrderInv, Shapes
  <2>6. Counted'
    BY <1>1, <2>2, <2>4 DEF OrderInv, Counted
  <2>7. RequestsSorted' /\ RepliesBefore'
    BY <1>1, <2>2, <2>4 DEF OrderInv, RequestsSorted, RepliesBefore
  <2> QED
    BY <2>4, <2>5, <2>6, <2>7 DEF OrderInv
<1> QED
  BY <1>2, <1>3

(* can_tx_thread takes the oldest message of can_tx_queue.                 *)
LEMMA TxTakeOrdered ==
  ASSUME OrderInv, TxTake
  PROVE  OrderInv'
<1>1. /\ sending = << >> /\ txq # << >> /\ sending' = << Head(txq) >> /\ txq' = Tail(txq)
      /\ UNCHANGED << bus, rxq, got, beat, pc, cur >>
  BY DEF TxTake, mdVars, history
<1>2. IsSeq(txq) /\ Sorted(txq)
  BY DEF OrderInv, Shapes, PathSorted
<1>3. /\ IsSeq(txq') /\ Range(txq) = Range(txq') \cup {Head(txq)}
      /\ Sorted(txq') /\ Before({Head(txq)}, Range(txq'))
  BY <1>1, <1>2, TailIsSeq, SortedTail
<1>4. Shapes'
  BY <1>1, <1>3 DEF OrderInv, Shapes
<1>5. InWrite = {} /\ InWrite' = {Head(txq)}
  BY <1>1 DEF InWrite, Range
<1>6. Produced' = Produced
  BY <1>1, <1>3, <1>5 DEF Produced
<1>7. PathSorted'
  BY <1>1, <1>3, <1>5 DEF OrderInv, PathSorted, Sorted, Before
<1>8. Counted' /\ RequestsSorted' /\ RepliesBefore'
  BY <1>1, <1>6 DEF OrderInv, Counted, RequestsSorted, RepliesBefore, MidRequest
<1> QED
  BY <1>4, <1>7, <1>8 DEF OrderInv

(* It puts it on the bus, or loses it.                                     *)
LEMMA TxWriteOrdered ==
  ASSUME OrderInv, NEW sent \in BOOLEAN, TxWrite(sent)
  PROVE  OrderInv'
<1>1. /\ sending # << >> /\ sending' = << >> /\ UNCHANGED << txq, rxq, got, beat, pc, cur >>
      /\ bus' = bus \/ bus' = bus \o sending
  BY DEF TxWrite, mdVars
<1>2. InWrite = {sending[1]} /\ sending = << sending[1] >> /\ InWrite' = {}
  BY <1>1, Written DEF OrderInv, InWrite, Range
<1>3. IsSeq(bus) /\ Sorted(bus) /\ Before(Range(bus), {sending[1]})
  BY <1>2 DEF OrderInv, Shapes, PathSorted
<1>4. /\ IsSeq(Append(bus, sending[1])) /\ Sorted(Append(bus, sending[1]))
      /\ Range(Append(bus, sending[1])) = Range(bus) \cup {sending[1]}
      /\ Append(bus, sending[1]) = bus \o << sending[1] >>
  <2>1. Sorted(Append(bus, sending[1]))
    BY <1>3, SortedAppend
  <2> QED
    BY <2>1, <1>3, AppendIsSeq
<1>5. /\ IsSeq(bus') /\ Sorted(bus')
      /\ Range(bus') = Range(bus) \/ Range(bus') = Range(bus) \cup {sending[1]}
  <2>1. CASE bus' = bus
    BY <2>1, <1>3
  <2>2. CASE bus' = bus \o sending
    <3>1. bus' = Append(bus, sending[1])
      BY <2>2, <1>2, <1>4
    <3> QED
      BY <3>1, <1>4
  <2> QED
    BY <2>1, <2>2, <1>1
<1>6. Shapes'
  BY <1>1, <1>5 DEF OrderInv, Shapes
<1>7. Produced' \subseteq Produced
  BY <1>1, <1>2, <1>5 DEF Produced
<1>8. PathSorted'
  BY <1>1, <1>2, <1>5 DEF OrderInv, PathSorted, Sorted, Before
<1>9. Counted' /\ RequestsSorted' /\ RepliesBefore'
  BY <1>1, <1>7 DEF OrderInv, Counted, RequestsSorted, RepliesBefore, MidRequest
<1> QED
  BY <1>6, <1>8, <1>9 DEF OrderInv

(* A frame is numbered after every other.                                  *)
LEMMA CanRxFrameOrdered ==
  ASSUME OrderInv, NEW f \in Frames, CanRxFrame(f)
  PROVE  OrderInv'
<1>1. /\ UNCHANGED << bus, txq, sending, beat, pc, cur >>
      /\ got \in Seq(Frames) /\ Len(got) \in Nat /\ got' \in Seq(Frames)
      /\ Len(got') = Len(got) + 1
  BY AppendProperties, LenProperties DEF CanRxFrame, mdVars, OrderInv, Shapes
<1>2. PICK r : r.id = Len(got') /\ (rxq' = rxq \/ rxq' = Append(rxq, r))
  <2>1. [id |-> Len(got'), frame |-> f].id = Len(got')
    OBVIOUS
  <2> QED
    BY <2>1 DEF CanRxFrame, MqSend
<1>3. IsSeq(rxq) /\ Len(rxq) \in Nat
  <2>1. IsSeq(rxq)
    BY DEF OrderInv, Shapes
  <2> QED
    BY <2>1, LenProperties DEF IsSeq
<1>4. /\ IsSeq(rxq') /\ Len(rxq') \in Nat
      /\ \A i \in 1..Len(rxq') : \/ i \in 1..Len(rxq) /\ rxq'[i] = rxq[i]
                                 \/ i = Len(rxq) + 1 /\ rxq'[i].id = Len(got) + 1
  <2>1. CASE rxq' = rxq
    BY <2>1, <1>3
  <2>2. CASE rxq' = Append(rxq, r)
    <3>1. IsSeq(rxq)
      BY <1>3
    <3>2. /\ IsSeq(Append(rxq, r)) /\ Len(Append(rxq, r)) = Len(rxq) + 1 /\ Len(rxq) \in Nat
          /\ \A i \in 1..Len(rxq) : Append(rxq, r)[i] = rxq[i] /\ rxq[i] \in Range(rxq)
          /\ Append(rxq, r)[Len(rxq) + 1] = r
          /\ Range(Append(rxq, r)) = Range(rxq) \cup {r}
          /\ Append(rxq, r) = rxq \o << r >>
      BY <3>1, AppendIsSeq
    <3> QED
      BY <3>2, <2>2, <1>1, <1>2, <1>3
  <2> QED
    BY <2>1, <2>2, <1>2
<1>5. Shapes'
  BY <1>1, <1>4 DEF OrderInv, Shapes
<1>6. Produced' = Produced /\ InWrite' = InWrite /\ (MidRequest' <=> MidRequest)
  BY <1>1 DEF Produced, InWrite, MidRequest
<1>7. PathSorted' /\ Counted'
  BY <1>1, <1>6 DEF OrderInv, PathSorted, Sorted, Before, Counted
<1>8. RequestsSorted'
  <2>1. \A i \in 1..Len(rxq') : rxq'[i].id \in 1..Len(got')
    BY <1>1, <1>4 DEF OrderInv, RequestsSorted
  <2>2. \A i, j \in 1..Len(rxq') : i < j => rxq'[i].id < rxq'[j].id
    BY <1>1, <1>3, <1>4 DEF OrderInv, RequestsSorted
  <2>3. MidRequest' => cur'.id \in 1..Len(got') /\ \A i \in 1..Len(rxq') : cur'.id < rxq'[i].id
    BY <1>1, <1>4, <1>6 DEF OrderInv, RequestsSorted
  <2> QED
    BY <2>1, <2>2, <2>3 DEF RequestsSorted
<1>9. RepliesBefore'
  <2>1. \A m \in Produced : m.src = "modbus" => m.seq \in Nat /\ m.seq <= Len(got)
    BY DEF OrderInv, RepliesBefore, Counted
  <2>2. \A m \in Produced : m.src = "modbus" => /\ m.seq <= Len(got')
                                                /\ \A i \in 1..Len(rxq') : m.seq < rxq'[i].id
    BY <2>1, <1>1, <1>4 DEF OrderInv, RepliesBefore
  <2> QED
    BY <2>2, <1>1, <1>6 DEF OrderInv, RepliesBefore
<1> QED
  BY <1>5, <1>7, <1>8, <1>9 DEF OrderInv

(* md_m_send takes the oldest request.                                     *)
LEMMA MdTakeOrdered ==
  ASSUME OrderInv, MdTake
  PROVE  OrderInv'
<1>1. /\ rxq # << >> /\ rxq' = Tail(rxq) /\ pc = "poll"
      /\ UNCHANGED << bus, txq, sending, beat, got >>
      /\ \/ pc' = pc /\ cur' = cur
         \/ pc' = "send" /\ cur' = Head(rxq)
  BY DEF MdTake, mdVars, history
<1>2. IsSeq(rxq) /\ got \in Seq(Frames)
  BY DEF OrderInv, Shapes
<1>3. /\ IsSeq(rxq') /\ Len(rxq) \in Nat /\ Len(rxq) >= 1 /\ Len(rxq') = Len(rxq) - 1
      /\ \A i \in 1..Len(rxq') : rxq'[i] = rxq[i + 1]
      /\ Head(rxq) = rxq[1]
  BY <1>1, <1>2, TailIsSeq
<1>4. \A i \in 1..Len(rxq') : i + 1 \in 1..Len(rxq) /\ 1 < i + 1 /\ 1 \in 1..Len(rxq)
  BY <1>3
<1>5. 1 \in 1..Len(rxq)
  BY <1>3
<1>6. Shapes'
  BY <1>1, <1>3 DEF OrderInv, Shapes
<1>7. Produced' = Produced /\ InWrite' = InWrite
  BY <1>1 DEF Produced, InWrite
<1>8. PathSorted' /\ Counted'
  BY <1>1, <1>7 DEF OrderInv, PathSorted, Sorted, Before, Counted
<1>9. MidRequest' => cur' = rxq[1]
  BY <1>1, <1>3 DEF MidRequest
<1>10. RequestsSorted'
  <2>1. \A i \in 1..Len(rxq') : rxq'[i].id \in 1..Len(got)
    BY <1>3, <1>4 DEF OrderInv, RequestsSorted
  <2>2. ASSUME NEW i \in 1..Len(rxq'), NEW j \in 1..Len(rxq'), i < j
        PROVE  rxq'[i].id < rxq'[j].id
    <3>1. i + 1 < j + 1
      BY <2>2
    <3> QED
      BY <3>1, <1>3, <1>4 DEF OrderInv, RequestsSorted
  <2>3. MidRequest' => cur'.id \in 1..Len(got) /\ \A i \in 1..Len(rxq') : cur'.id < rxq'[i].id
    BY <1>3, <1>4, <1>5, <1>9 DEF OrderInv, RequestsSorted
  <2> QED
    BY <2>1, <2>2, <2>3, <1>1 DEF RequestsSorted
<1>11. RepliesBefore'
  BY <1>1, <1>3, <1>4, <1>5, <1>7, <1>9 DEF OrderInv, RepliesBefore
<1> QED
  BY <1>6, <1>8, <1>10, <1>11 DEF OrderInv

(* Within a transaction md_m_send moves no message.                        *)
LEMMA TransactionQuiet ==
  ASSUME OrderInv, MdSend \/ MdReceive \/ MdTimeout \/ MdError
  PROVE  OrderInv'
<1>1. UNCHANGED << bus, txq, rxq, sending, got, beat >>
  BY DEF MdSend, MdReceive, MdTimeout, MdError, history
<1>2. /\ pc \in {"send", "await"}
      /\ \/ pc' \in {"send", "await", "reply"} /\ cur' = cur
         \/ pc' = "poll"
  <2>1. CASE MdSend
    BY <2>1 DEF MdSend
  <2>2. \A n \in {-1, 0, 1} : WriteDone(n) =>
           \/ pc' \in {"send", "reply"} /\ cur' = cur
           \/ pc' = "poll"
    BY DEF WriteDone, Advance, Idle
  <2>3. ASSUME NEW results, ReadDone(results) PROVE pc' \in {"send", "reply"} /\ cur' = cur
    BY <2>3 DEF ReadDone, Advance
  <2>4. CASE MdReceive
    BY <2>2, <2>3, <2>4 DEF MdReceive
  <2>5. CASE MdTimeout
    BY <2>2, <2>3, <2>5 DEF MdTimeout
  <2>6. CASE MdError
    BY <2>2, <2>3, <2>6 DEF MdError
  <2> QED
    BY <2>1, <2>4, <2>5, <2>6
<1>3. MidRequest' => MidRequest /\ cur' = cur
  BY <1>2 DEF MidRequest
<1> QED
  BY <1>1, <1>2, <1>3, StillOrdered

LEMMA OrderStep == OrderInv /\ [Next]_vars => OrderInv'
<1> SUFFICES ASSUME OrderInv, [Next]_vars PROVE OrderInv'
  OBVIOUS
<1>1. CASE Main
  <2>1. ASSUME NEW c \in BOOLEAN, MainModbusInit(c) PROVE OrderInv'
    <3>1. UNCHANGED << bus, txq, rxq, sending, got, beat >> /\ pc' \in {"poll", "off"}
      BY <2>1 DEF MainModbusInit, history
    <3> QED
      BY <3>1, StillOrdered DEF MidRequest
  <2> QED
    BY <1>1, <2>1, MainBeatOrdered DEF Main
<1>2. CASE CanRx
  BY <1>2, CanRxFrameOrdered DEF CanRx
<1>3. CASE CanTx
  BY <1>3, TxTakeOrdered, TxWriteOrdered DEF CanTx
<1>4. CASE Md
  BY <1>4, MdTakeOrdered, TransactionQuiet, MdReplyOrdered DEF Md
<1>5. CASE Slave \/ Noise \/ Move \/ UNCHANGED vars
  <2>1. UNCHANGED << bus, txq, rxq, sending, got, beat, pc, cur >>
    BY <1>5 DEF Slave, Serve, Lose, Noise, Move, vars, mdVars, history
  <2> QED
    BY <2>1, StillOrdered DEF MidRequest, OrderInv, Shapes
<1> QED
  BY <1>1, <1>2, <1>3, <1>4, <1>5 DEF Next

(* The messages of one producer reach the bus in the order it produced     *)
(* them, none twice, for every set of frames, queue capacity and fault.    *)
THEOREM BusIsOrdered == Spec => []BusOrder
<1>1. OrderInv => BusOrder
  BY DEF OrderInv, PathSorted, Sorted, Precedes, BusOrder
<1> QED
  BY <1>1, OrderInit, OrderStep, PTL DEF Spec

-----------------------------------------------------------------------------
(* What the gateway answers: a reply belongs to a request all of whose     *)
(* transactions were issued, and a write is echoed, or followed by the     *)
(* next one, only when it was executed or a refusal, an answer that was    *)
(* not its own or noise stood in for it.                                   *)

-----------------------------------------------------------------------------
(* What the tables of the handlers look like.                              *)

PlanForm(p) ==
  /\ Len(p) \in 0..2 /\ (p # << >> => Len(p) >= 1)
  /\ \A i, j \in 1..Len(p) : p[i].fn = p[j].fn

LEMMA ShortPlans ==
  /\ PlanForm(<< >>)
  /\ \A t : PlanForm(<< t >>)
  /\ \A t, u : t.fn = u.fn => PlanForm(<< t, u >>)
  BY DEF PlanForm

LEMMA TwoTransactions ==
  ASSUME NEW t, NEW u, t.fn = u.fn
  PROVE  /\ PlanForm(<< t >> \o << u >>) /\ Len(<< t >> \o << u >>) = 2
         /\ (<< t >> \o << u >>)[1] = t /\ (<< t >> \o << u >>)[2] = u
<1> DEFINE p == << t >> \o << u >>
<1>1. << t >> \in Seq({t, u}) /\ << u >> \in Seq({t, u})
  OBVIOUS
<1>2. Len(<< t >>) = 1 /\ Len(<< u >>) = 1 /\ << t >>[1] = t /\ << u >>[1] = u
  OBVIOUS
<1>3. Len(p) = 2 /\ p[1] = t /\ p[2] = u
  BY <1>1, <1>2, ConcatProperties
<1> HIDE DEF p
<1>4. \A i \in 1..Len(p) : i = 1 \/ i = 2
  BY <1>3
<1>5. PlanForm(p)
  BY <1>3, <1>4 DEF PlanForm
<1> QED
  BY <1>3, <1>5 DEF p

AllWrites(p) == PlanForm(p) /\ \A i \in 1..Len(p) : p[i].fn = WRITE_REGISTER

LEMMA LsWriteForm ==
  ASSUME NEW f
  PROVE  AllWrites(LsWrites(f))
<1>1. \A r, v : Write(f.addr, r, v).fn = WRITE_REGISTER
  BY DEF Write
<1>2. AllWrites(<< >>)
  BY ShortPlans DEF AllWrites
<1>3. \A r, v : AllWrites(<< Write(f.addr, r, v) >>)
  BY <1>1, ShortPlans DEF AllWrites
<1>4. ASSUME NEW r, NEW v, NEW s, NEW w
      PROVE  AllWrites(<< Write(f.addr, r, v) >> \o << Write(f.addr, s, w) >>)
  <2> DEFINE p == << Write(f.addr, r, v) >> \o << Write(f.addr, s, w) >>
  <2>1. PlanForm(p) /\ Len(p) = 2 /\ p[1].fn = WRITE_REGISTER /\ p[2].fn = WRITE_REGISTER
    BY <1>1, TwoTransactions
  <2> HIDE DEF p
  <2>2. \A i \in 1..Len(p) : i = 1 \/ i = 2
    BY <2>1
  <2>3. AllWrites(p)
    BY <2>1, <2>2 DEF AllWrites
  <2> QED
    BY <2>3 DEF p
<1>5. CASE f.index = 5
  <2>1. LsWrites(f) = << Write(f.addr, \h6201, Hi(f)) >> \o << Write(f.addr, \h6202, Lo(f)) >>
    BY <1>5 DEF LsWrites
  <2> QED
    BY <1>4, <2>1
<1>6. CASE f.index # 5
  BY <1>2, <1>3, <1>6 DEF LsWrites
<1> QED
  BY <1>5, <1>6

LEMMA PlanShape ==
  ASSUME NEW f
  PROVE  /\ Len(Plan(f)) \in 0..2 /\ (Plan(f) # << >> => Len(Plan(f)) >= 1)
         /\ \A i, j \in 1..Len(Plan(f)) : Plan(f)[i].fn = Plan(f)[j].fn
         /\ IsLsWrite(f) => \A i \in 1..Len(Plan(f)) : Plan(f)[i].fn = WRITE_REGISTER
<1>1. PlanForm(LsReads(f))
  <2>1. \A r, s : Read(f.addr, r).fn = Read(f.addr, s).fn
    BY DEF Read
  <2> QED
    BY <2>1, ShortPlans DEF LsReads
<1>2. PlanForm(Plan(f))
  BY <1>1, LsWriteForm, ShortPlans DEF Plan, AllWrites
<1>3. IsLsWrite(f) => Plan(f) = LsWrites(f)
  BY DEF IsLsWrite, IsLsRead, IsReg6000, IsPowerRead, Plan, MSG_MODBUS_POWER_READ_VOLTAGE,
         MSG_MODBUS_POWER_READ_CURRENT, MSG_MODBUS_POWER_READ_POWER, MSG_LS_CHAIN_CTRL, MSG_MODBUS_MOTOR_REG6000
<1> QED
  BY <1>2, <1>3, LsWriteForm DEF PlanForm, AllWrites

(* The header of a request comes back with its reply.                      *)
LEMMA ReplyHeader ==
  ASSUME NEW f \in CanData, NEW words
  PROVE  /\ ReplyFrame(f, words).type = f.type /\ ReplyFrame(f, words).addr = f.addr
         /\ ReplyFrame(f, words).index = f.index /\ ReplyFrame(f, words).flag = f.flag
         /\ IsLsWrite(f) => ReplyFrame(f, words) = f
<1>1. \A d : /\ [f EXCEPT !.data = d].type = f.type /\ [f EXCEPT !.data = d].addr = f.addr
             /\ [f EXCEPT !.data = d].index = f.index /\ [f EXCEPT !.data = d].flag = f.flag
  BY DEF CanData
<1>2. CASE IsLsWrite(f)
  <2>1. ReplyFrame(f, words) = f
    BY <1>2 DEF ReplyFrame, IsLsWrite, IsLsRead
  <2> QED
    BY <2>1
<1>3. CASE ~IsLsWrite(f)
  <2>1. \E d : ReplyFrame(f, words) = [f EXCEPT !.data = d]
    <3>1. CASE IsLsRead(f) /\ f.index = 5
      <4> DEFINE d == << words[1], words[2] >>
      <4>1. ReplyFrame(f, words) = [f EXCEPT !.data = d]
        BY <1>3, <3>1 DEF ReplyFrame
      <4> HIDE DEF d
      <4> QED
        BY <4>1
    <3>2. CASE IsLsRead(f) /\ f.index = 8
      <4> DEFINE d == << words[1] % 4096, 0 >>
      <4>1. ReplyFrame(f, words) = [f EXCEPT !.data = d]
        BY <1>3, <3>2 DEF ReplyFrame
      <4> HIDE DEF d
      <4> QED
        BY <4>1
    <3>3. CASE IsLsRead(f) /\ f.index \notin {5, 8}
      <4> DEFINE d == << words[1], 0 >>
      <4>1. ReplyFrame(f, words) = [f EXCEPT !.data = d]
        BY <1>3, <3>3 DEF ReplyFrame
      <4> HIDE DEF d
      <4> QED
        BY <4>1
    <3>4. CASE ~IsLsRead(f)
      <4> DEFINE d == << words[1], Hi(f) >>
      <4>1. ReplyFrame(f, words) = [f EXCEPT !.data = d]
        BY <1>3, <3>4 DEF ReplyFrame
      <4> HIDE DEF d
      <4> QED
        BY <4>1
    <3> QED
      BY <3>1, <3>2, <3>3, <3>4
  <2> QED
    BY <1>1, <1>3, <2>1
<1> QED
  BY <1>2, <1>3

-----------------------------------------------------------------------------
(* Where every request, answer and executed write on the line comes from,  *)
(* how far md_m_send is with the request in hand, and what the replies on  *)
(* their way to the bus stand for.                                         *)

AskedFor(m) == m.id \in 1..Len(got) /\ m.k \in 1..Len(Plan(got[m.id]))
Trans(m) == Plan(got[m.id])[m.k]

(* The first n transactions of a request are past: every write among them  *)
(* was executed, or what ended it was a refusal or no answer to it.        *)
Covered(id, n) ==
  \A j \in 1..n : Plan(got[id])[j].fn = WRITE_REGISTER =>
                    [id |-> id, k |-> j] \in applied \cup misled

TraceShapes ==
  IsSeq(wire) /\ IsSeq(fifo) /\ issued \in Seq(Nat) /\ Len(issued) = Len(got)

WireTraced ==
  \A q \in Range(wire) : AskedFor(q.m) /\ q.t = Trans(q.m) /\ Covered(q.m.id, q.m.k - 1)

(* What lies in the FIFO is noise, or the answer to a transaction; one to  *)
(* a write, unless it refuses, was sent when the write was executed.       *)
AnswerTraced(a) ==
  \/ a = NoiseBytes
  \/ /\ AskedFor(a.m) /\ a.fn = Trans(a.m).fn
     /\ a.kind \notin Refusals /\ a.fn = WRITE_REGISTER => a.m \in applied
FifoTraced == \A a \in Range(fifo) : AnswerTraced(a)

AppliedTraced ==
  \A m \in applied : AskedFor(m) /\ Trans(m).fn = WRITE_REGISTER /\ Covered(m.id, m.k - 1)

QueueTraced == \A i \in 1..Len(rxq) : rxq[i].frame = got[rxq[i].id]

HandTraced ==
  MidRequest =>
    /\ cur.frame = got[cur.id] /\ k \in 1..Len(Plan(cur.frame))
    /\ Covered(cur.id, k - 1)
    /\ pc # "send" => issued[cur.id] = k
    /\ pc = "reply" => k = Len(Plan(cur.frame)) /\ Covered(cur.id, k)

Answers(m) ==
  LET f == got[m.seq]
  IN  /\ m.seq \in 1..Len(got)
      /\ m.frame.type = f.type /\ m.frame.addr = f.addr
      /\ m.frame.index = f.index /\ m.frame.flag = f.flag
      /\ Plan(f) # << >> /\ issued[m.seq] = Len(Plan(f))
      /\ IsLsWrite(f) => m.frame = f /\ Covered(m.seq, Len(Plan(f)))

RepliesTraced == \A m \in Produced : m.src = "modbus" => Answers(m)

TraceInv ==
  /\ TraceShapes /\ WireTraced /\ FifoTraced /\ AppliedTraced
  /\ QueueTraced /\ HandTraced /\ RepliesTraced

LEMMA TraceInit == Init => TraceInv
<1> SUFFICES ASSUME Init PROVE TraceInv
  OBVIOUS
<1>1. /\ bus = << >> /\ txq = << >> /\ rxq = << >> /\ sending = << >> /\ got = << >>
      /\ wire = << >> /\ fifo = << >> /\ issued = << >> /\ applied = {} /\ pc = "off"
  BY DEF Init
<1>2. Len(<< >>) = 0 /\ Range(<< >>) = {} /\ IsSeq(<< >>) /\ << >> \in Seq(Nat)
  BY DEF Range, IsSeq
<1>3. Produced = {} /\ ~MidRequest
  BY <1>1, <1>2 DEF Produced, InWrite, MidRequest
<1>4. TraceShapes /\ WireTraced /\ FifoTraced /\ AppliedTraced
  BY <1>1, <1>2 DEF TraceShapes, WireTraced, FifoTraced, AppliedTraced
<1>5. QueueTraced /\ HandTraced /\ RepliesTraced
  BY <1>1, <1>2, <1>3 DEF QueueTraced, HandTraced, RepliesTraced
<1> QED
  BY <1>4, <1>5 DEF TraceInv

(* The frames received, the writes executed and the transactions misled    *)
(* only ever become more, so what is traced stays traced.                  *)
Grows ==
  /\ Len(got) \in Nat /\ Len(got') \in Nat /\ Len(got') >= Len(got)
  /\ \A i \in 1..Len(got) : got'[i] = got[i]
  /\ applied \subseteq applied' /\ misled \subseteq misled'

LEMMA TracedStays ==
  ASSUME Grows
  PROVE  /\ \A m : AskedFor(m) => AskedFor(m)' /\ Trans(m)' = Trans(m)
         /\ \A id \in 1..Len(got) : \A n : Covered(id, n) => Covered(id, n)'
<1>1. \A i \in 1..Len(got) : i \in 1..Len(got') /\ got'[i] = got[i]
  BY DEF Grows
<1>2. ASSUME NEW m, AskedFor(m) PROVE AskedFor(m)' /\ Trans(m)' = Trans(m)
  BY <1>1, <1>2 DEF AskedFor, Trans
<1>3. ASSUME NEW id \in 1..Len(got), NEW n, Covered(id, n) PROVE Covered(id, n)'
  BY <1>1, <1>3 DEF Covered, Grows
<1> QED
  BY <1>2, <1>3

LEMMA WireKept ==
  ASSUME Grows, WireTraced, Range(wire') \subseteq Range(wire)
  PROVE  WireTraced'
<1>1. ASSUME NEW q \in Range(wire')
      PROVE  AskedFor(q.m)' /\ q.t = Trans(q.m)' /\ Covered(q.m.id, q.m.k - 1)'
  <2>1. AskedFor(q.m) /\ q.t = Trans(q.m) /\ Covered(q.m.id, q.m.k - 1) /\ q.m.id \in 1..Len(got)
    BY DEF WireTraced, AskedFor
  <2> QED
    BY <2>1, TracedStays
<1> QED
  BY <1>1 DEF WireTraced

LEMMA AnswerStays ==
  ASSUME Grows, NEW a, AnswerTraced(a)
  PROVE  AnswerTraced(a)'
  BY TracedStays DEF AnswerTraced, Grows

LEMMA FifoKept ==
  ASSUME Grows, FifoTraced, Range(fifo') \subseteq Range(fifo)
  PROVE  FifoTraced'
<1>1. ASSUME NEW a \in Range(fifo') PROVE AnswerTraced(a)'
  <2>1. AnswerTraced(a)
    BY DEF FifoTraced
  <2> QED
    BY <2>1, AnswerStays
<1> QED
  BY <1>1 DEF FifoTraced

LEMMA AppliedKept ==
  ASSUME Grows, AppliedTraced, applied' = applied
  PROVE  AppliedTraced'
<1>1. ASSUME NEW m \in applied'
      PROVE  AskedFor(m)' /\ Trans(m)'.fn = WRITE_REGISTER /\ Covered(m.id, m.k - 1)'
  <2>1. AskedFor(m) /\ Trans(m).fn = WRITE_REGISTER /\ Covered(m.id, m.k - 1) /\ m.id \in 1..Len(got)
    BY DEF AppliedTraced, AskedFor
  <2> QED
    BY <2>1, TracedStays
<1> QED
  BY <1>1 DEF AppliedTraced

LEMMA AnswersStay ==
  ASSUME Grows, NEW m, Answers(m), issued'[m.seq] = issued[m.seq]
  PROVE  Answers(m)'
<1>1. m.seq \in 1..Len(got) /\ m.seq \in 1..Len(got') /\ got'[m.seq] = got[m.seq]
  BY DEF Answers, Grows
<1>2. Covered(m.seq, Len(Plan(got[m.seq]))) => Covered(m.seq, Len(Plan(got[m.seq])))'
  <2>1. PICK n : n = Len(Plan(got[m.seq]))
    OBVIOUS
  <2>2. n = Len(Plan(got'[m.seq]))
    BY <2>1, <1>1
  <2>3. Covered(m.seq, n) => Covered(m.seq, n)'
    BY <1>1, TracedStays
  <2> QED
    BY <2>1, <2>2, <2>3
<1> QED
  BY <1>1, <1>2 DEF Answers

LEMMA RepliesKept ==
  ASSUME Grows, RepliesTraced, Produced' \subseteq Produced,
         \A i \in 1..Len(got) : issued'[i] = issued[i]
  PROVE  RepliesTraced'
<1>1. ASSUME NEW m \in Produced', m.src = "modbus" PROVE Answers(m)'
  <2>1. Answers(m) /\ m.seq \in 1..Len(got)
    BY <1>1 DEF RepliesTraced, Answers
  <2> QED
    BY <2>1, AnswersStay
<1> QED
  BY <1>1 DEF RepliesTraced

-----------------------------------------------------------------------------
(* One lemma for each action, the line first.                              *)

(* A step that neither receives a frame nor touches the line and the       *)
(* requests: main, can_tx_thread and the motor.                            *)
LEMMA BystandersTrace ==
  ASSUME OrderInv, TraceInv, Produced' \subseteq Produced,
         UNCHANGED << rxq, cur, k, wire, fifo, got, issued, applied, misled >>,
         pc' = pc \/ ~MidRequest'
  PROVE  TraceInv'
<1>1. Grows
  BY LenProperties DEF Grows, OrderInv, Shapes
<1>2. TraceShapes' /\ WireTraced' /\ FifoTraced' /\ AppliedTraced' /\ RepliesTraced'
  BY <1>1, WireKept, FifoKept, AppliedKept, RepliesKept DEF TraceInv, TraceShapes
<1>3. QueueTraced'
  BY DEF TraceInv, QueueTraced
<1>4. HandTraced'
  BY DEF TraceInv, HandTraced, MidRequest, Covered
<1> QED
  BY <1>2, <1>3, <1>4 DEF TraceInv

(* A message that main queues is no reply.                                 *)
LEMMA MainBeatTraced ==
  ASSUME OrderInv, TraceInv, MainBeat
  PROVE  TraceInv'
<1>1. PICK junk \in Garbage : txq' = MqSend(txq, TxCap, Heartbeat(beat', junk))
  BY DEF MainBeat
<1>2. PICK m : m = Heartbeat(beat', junk)
  OBVIOUS
<1>3. /\ m.src = "main" /\ txq' = MqSend(txq, TxCap, m)
      /\ UNCHANGED << bus, sending, rxq, pc, cur, k, wire, fifo, got, issued, applied, misled >>
  BY <1>1, <1>2 DEF Heartbeat, MainBeat, mdVars, history
<1>4. IsSeq(txq)
  BY DEF OrderInv, Shapes
<1>5. Range(txq') \subseteq Range(txq) \cup {m}
  BY <1>3, <1>4, AppendIsSeq DEF MqSend
<1>6. Produced' \subseteq Produced \cup {m}
  BY <1>3, <1>5 DEF Produced, InWrite
<1>7. Grows
  BY <1>3, LenProperties DEF Grows, OrderInv, Shapes
<1>8. RepliesTraced'
  <2>1. ASSUME NEW n \in Produced', n.src = "modbus" PROVE Answers(n)'
    <3>1. n \in Produced
      BY <1>3, <1>6, <2>1 DEF Answers
    <3>2. Answers(n)
      BY <2>1, <3>1 DEF TraceInv, RepliesTraced
    <3> QED
      BY <1>3, <1>7, <3>2, AnswersStay
  <2> QED
    BY <2>1 DEF RepliesTraced
<1>9. TraceShapes' /\ WireTraced' /\ FifoTraced' /\ AppliedTraced'
  BY <1>3, <1>7, WireKept, FifoKept, AppliedKept DEF TraceInv, TraceShapes
<1>10. QueueTraced' /\ HandTraced'
  BY <1>3 DEF TraceInv, QueueTraced, HandTraced, MidRequest, Covered
<1> QED
  BY <1>8, <1>9, <1>10 DEF TraceInv

LEMMA TxTraced ==
  ASSUME OrderInv, TraceInv, CanTx
  PROVE  TraceInv'
<1>1. UNCHANGED << rxq, pc, cur, k, wire, fifo, got, issued, applied, misled >>
  BY DEF CanTx, TxTake, TxWrite, mdVars, history
<1>2. CASE TxTake
  <2>1. /\ IsSeq(txq) /\ txq # << >> /\ txq' = Tail(txq) /\ sending' = << Head(txq) >>
        /\ bus' = bus
    BY <1>2 DEF TxTake, OrderInv, Shapes, history
  <2>2. Range(txq') \subseteq Range(txq) /\ Head(txq) \in Range(txq)
    BY <2>1, TailIsSeq
  <2>3. InWrite' = {Head(txq)}
    BY <2>1 DEF InWrite, Range
  <2>4. Produced' \subseteq Produced
    BY <2>1, <2>2, <2>3 DEF Produced
  <2> QED
    BY <1>1, <2>4, BystandersTrace
<1>3. ASSUME NEW sent \in BOOLEAN, TxWrite(sent) PROVE TraceInv'
  <2>1. /\ sending # << >> /\ sending' = << >> /\ txq' = txq
        /\ bus' = bus \/ bus' = bus \o sending
    BY <1>3 DEF TxWrite
  <2>2. InWrite = {sending[1]} /\ sending = << sending[1] >> /\ InWrite' = {}
    BY <2>1, Written DEF OrderInv, InWrite, Range
  <2>3. IsSeq(bus)
    BY DEF OrderInv, Shapes
  <2>4. /\ Range(Append(bus, sending[1])) = Range(bus) \cup {sending[1]}
        /\ Append(bus, sending[1]) = bus \o << sending[1] >>
    BY <2>3, AppendIsSeq
  <2>5. Range(bus') \subseteq Range(bus) \cup InWrite
    BY <2>1, <2>2, <2>4
  <2>6. Produced' \subseteq Produced
    BY <2>1, <2>2, <2>5 DEF Produced
  <2> QED
    BY <1>1, <2>6, BystandersTrace
<1> QED
  BY <1>2, <1>3 DEF CanTx

(* A slave serves the oldest request on the line, or it is lost there.     *)
LEMMA SlaveTraced ==
  ASSUME OrderInv, TraceInv, Slave
  PROVE  TraceInv'
<1>1. PICK q : q = Head(wire)
  OBVIOUS
<1>2. /\ wire # << >> /\ wire' = Tail(wire)
      /\ UNCHANGED << bus, txq, rxq, sending, pc, cur, k, got, issued, misled >>
      /\ applied' = applied \/ applied' = Executed(q)
      /\ \/ fifo' = fifo
         \/ \E a : /\ fifo' = Append(fifo, a) /\ a.m = q.m /\ a.fn = q.t.fn
                   /\ a.kind \notin Refusals => applied' = Executed(q)
  <2>1. ASSUME NEW kind \in {"ok", "exception", "garbled", "garbledRefusal"}, Serve(kind)
        PROVE  /\ applied' = applied \/ applied' = Executed(q)
               /\ \E a : /\ fifo' = Append(fifo, a) /\ a.m = q.m /\ a.fn = q.t.fn
                         /\ a.kind \notin Refusals => applied' = Executed(q)
    <3>1. PICK a : a = [m |-> q.m, fn |-> q.t.fn, slave |-> q.t.slave,
                        kind |-> kind, val |-> RegVal(q.t.reg)]
      OBVIOUS
    <3>2. a.m = q.m /\ a.fn = q.t.fn /\ a.kind = kind
      BY <3>1
    <3>3. fifo' = Append(fifo, a)
      BY <1>1, <2>1, <3>1 DEF Serve
    <3>4. applied' = IF kind \in Refusals THEN applied ELSE Executed(q)
      BY <1>1, <2>1 DEF Serve
    <3> QED
      BY <3>2, <3>3, <3>4
  <2>2. ASSUME NEW executed \in BOOLEAN, Lose(executed)
        PROVE  fifo' = fifo /\ (applied' = applied \/ applied' = Executed(q))
    BY <1>1, <2>2 DEF Lose, mdVars
  <2>3. /\ wire # << >> /\ wire' = Tail(wire)
        /\ UNCHANGED << bus, txq, rxq, sending, pc, cur, k, got, issued, misled >>
    BY DEF Slave, Serve, Lose, mdVars
  <2> QED
    BY <2>1, <2>2, <2>3 DEF Slave
<1>3. IsSeq(wire) /\ IsSeq(fifo)
  BY DEF TraceInv, TraceShapes
<1>4. IsSeq(wire') /\ Range(wire') \subseteq Range(wire) /\ q \in Range(wire)
  BY <1>1, <1>2, <1>3, TailIsSeq
<1>5. AskedFor(q.m) /\ q.t = Trans(q.m) /\ Covered(q.m.id, q.m.k - 1) /\ q.m.id \in 1..Len(got)
  BY <1>4 DEF TraceInv, WireTraced, AskedFor
<1>6. Grows
  BY <1>2, LenProperties DEF Grows, OrderInv, Shapes, Executed
<1>7. /\ AskedFor(q.m)' /\ q.t = Trans(q.m)' /\ Covered(q.m.id, q.m.k - 1)'
  BY <1>5, <1>6, TracedStays
<1>8. WireTraced'
  BY <1>4, <1>6, WireKept DEF TraceInv
<1>9. AppliedTraced'
  <2>1. ASSUME NEW m \in applied'
        PROVE  AskedFor(m)' /\ Trans(m)'.fn = WRITE_REGISTER /\ Covered(m.id, m.k - 1)'
    <3>1. CASE m \in applied
      <4>1. /\ AskedFor(m) /\ Trans(m).fn = WRITE_REGISTER /\ Covered(m.id, m.k - 1)
            /\ m.id \in 1..Len(got)
        BY <3>1 DEF TraceInv, AppliedTraced, AskedFor
      <4> QED
        BY <4>1, <1>6, TracedStays
    <3>2. CASE m \notin applied
      <4>1. m = q.m /\ q.t.fn = WRITE_REGISTER
        BY <1>2, <2>1, <3>2 DEF Executed
      <4> QED
        BY <4>1, <1>7
    <3> QED
      BY <3>1, <3>2
  <2> QED
    BY <2>1 DEF AppliedTraced
<1>10. IsSeq(fifo') /\ FifoTraced'
  <2>1. CASE fifo' = fifo
    BY <2>1, <1>3, <1>6, FifoKept DEF TraceInv
  <2>2. CASE fifo' # fifo
    <3>1. PICK a : /\ fifo' = Append(fifo, a) /\ a.m = q.m /\ a.fn = q.t.fn
                   /\ a.kind \notin Refusals => applied' = Executed(q)
      BY <1>2, <2>2
    <3>2. IsSeq(fifo') /\ Range(fifo') = Range(fifo) \cup {a}
      BY <1>3, <3>1, AppendIsSeq
    <3>3. ASSUME NEW b \in Range(fifo') PROVE AnswerTraced(b)'
      <4>1. CASE b \in Range(fifo)
        BY <4>1, <1>6, AnswerStays DEF TraceInv, FifoTraced
      <4>2. CASE b = a
        BY <4>2, <3>1, <1>7 DEF AnswerTraced, Executed
      <4> QED
        BY <3>2, <4>1, <4>2
    <3> QED
      BY <3>2, <3>3 DEF FifoTraced
  <2> QED
    BY <2>1, <2>2
<1>11. Produced' = Produced
  BY <1>2 DEF Produced, InWrite
<1>12. RepliesTraced'
  BY <1>2, <1>6, <1>11, RepliesKept DEF TraceInv
<1>13. QueueTraced'
  BY <1>2 DEF TraceInv, QueueTraced
<1>14. HandTraced'
  <2>1. SUFFICES ASSUME MidRequest
                 PROVE  Covered(cur.id, k - 1)' /\ (pc = "reply" => Covered(cur.id, k)')
    BY <1>2 DEF TraceInv, HandTraced, MidRequest
  <2>2. cur.id \in 1..Len(got) /\ Covered(cur.id, k - 1) /\ (pc = "reply" => Covered(cur.id, k))
    BY <2>1 DEF OrderInv, RequestsSorted, TraceInv, HandTraced
  <2>3. PICK id, n : id = cur.id /\ n = k
    OBVIOUS
  <2>4. Covered(id, n - 1)' /\ (pc = "reply" => Covered(id, n)')
    BY <1>6, <2>2, <2>3, TracedStays
  <2> QED
    BY <1>2, <2>3, <2>4
<1> QED
  BY <1>2, <1>4, <1>8, <1>9, <1>10, <1>12, <1>13, <1>14 DEF TraceInv, TraceShapes

(* A frame is received: it extends got, and what can_rx_queue holds of it  *)
(* is the frame itself.                                                    *)
LEMMA CanRxTraced ==
  ASSUME OrderInv, TraceInv, NEW f \in Frames, CanRxFrame(f)
  PROVE  TraceInv'
<1>1. /\ got \in Seq(Frames) /\ got' = Append(got, f) /\ issued' = Append(issued, 0)
      /\ issued \in Seq(Nat) /\ Len(issued) = Len(got)
      /\ UNCHANGED << bus, txq, sending, pc, cur, k, wire, fifo, applied, misled >>
  BY DEF CanRxFrame, mdVars, OrderInv, Shapes, TraceInv, TraceShapes
<1>2. /\ Len(got) \in Nat /\ Len(got') = Len(got) + 1 /\ got'[Len(got) + 1] = f
      /\ \A i \in 1..Len(got) : got'[i] = got[i] /\ issued'[i] = issued[i]
      /\ issued' \in Seq(Nat) /\ Len(issued') = Len(got')
  BY <1>1, AppendProperties, LenProperties
<1>3. Grows
  BY <1>1, <1>2 DEF Grows
<1>4. Produced' = Produced /\ (MidRequest' <=> MidRequest)
  BY <1>1 DEF Produced, InWrite, MidRequest
<1>5. TraceShapes' /\ WireTraced' /\ FifoTraced' /\ AppliedTraced' /\ RepliesTraced'
  BY <1>1, <1>2, <1>3, <1>4, WireKept, FifoKept, AppliedKept, RepliesKept DEF TraceInv, TraceShapes
<1>6. QueueTraced'
  <2>1. IsSeq(rxq) /\ Len(rxq) \in Nat /\ \A i \in 1..Len(rxq) : rxq[i].id \in 1..Len(got)
    <3>1. IsSeq(rxq)
      BY DEF OrderInv, Shapes
    <3> QED
      BY <3>1, LenProperties DEF IsSeq, OrderInv, RequestsSorted
  <2>2. \A i \in 1..Len(rxq) : rxq[i].frame = got'[rxq[i].id]
    BY <1>2, <2>1 DEF TraceInv, QueueTraced
  <2>3. CASE rxq' = rxq
    BY <2>2, <2>3 DEF QueueTraced
  <2>4. CASE rxq' # rxq
    <3>1. PICK r : r = [id |-> Len(got'), frame |-> f]
      OBVIOUS
    <3>2. rxq' = Append(rxq, r)
      BY <2>4, <3>1 DEF CanRxFrame, MqSend
    <3>3. r.id = Len(got) + 1 /\ r.frame = f
      BY <1>2, <3>1
    <3>4. /\ Len(rxq') = Len(rxq) + 1 /\ \A i \in 1..Len(rxq) : rxq'[i] = rxq[i]
          /\ rxq'[Len(rxq) + 1] = r
      BY <2>1, <3>2, AppendIsSeq
    <3>5. ASSUME NEW i \in 1..Len(rxq') PROVE rxq'[i].frame = got'[rxq'[i].id]
      <4>1. CASE i \in 1..Len(rxq)
        BY <4>1, <2>2, <3>4
      <4>2. CASE i = Len(rxq) + 1
        BY <4>2, <1>2, <3>3, <3>4
      <4> QED
        BY <4>1, <4>2, <2>1, <3>4
    <3> QED
      BY <3>5 DEF QueueTraced
  <2> QED
    BY <2>3, <2>4
<1>7. HandTraced'
  <2>1. SUFFICES ASSUME MidRequest
                 PROVE  /\ cur.frame = got'[cur.id] /\ (pc # "send" => issued'[cur.id] = k)
                        /\ Covered(cur.id, k - 1)' /\ (pc = "reply" => Covered(cur.id, k)')
    BY <1>1, <1>4 DEF TraceInv, HandTraced
  <2>2. /\ cur.id \in 1..Len(got) /\ cur.frame = got[cur.id]
        /\ pc # "send" => issued[cur.id] = k
        /\ Covered(cur.id, k - 1) /\ (pc = "reply" => Covered(cur.id, k))
    BY <2>1 DEF OrderInv, RequestsSorted, TraceInv, HandTraced
  <2>3. PICK id, n : id = cur.id /\ n = k
    OBVIOUS
  <2>4. Covered(id, n - 1)' /\ (pc = "reply" => Covered(id, n)')
    BY <1>3, <2>2, <2>3, TracedStays
  <2> QED
    BY <1>1, <1>2, <2>2, <2>3, <2>4
<1> QED
  BY <1>5, <1>6, <1>7 DEF TraceInv

(* md_m_send takes a request, whose frame is the one received.             *)
LEMMA MdTakeTraced ==
  ASSUME OrderInv, TraceInv, MdTake
  PROVE  TraceInv'
<1>1. /\ rxq # << >> /\ rxq' = Tail(rxq) /\ pc = "poll" /\ IsSeq(rxq)
      /\ UNCHANGED << bus, txq, sending, wire, fifo, got, issued, applied, misled >>
      /\ \/ pc' = pc
         \/ pc' = "send" /\ cur' = Head(rxq) /\ k' = 1 /\ Plan(Head(rxq).frame) # << >>
  BY DEF MdTake, mdVars, history, OrderInv, Shapes
<1>2. /\ Len(rxq) \in Nat /\ Len(rxq) >= 1 /\ Len(rxq') = Len(rxq) - 1
      /\ \A i \in 1..Len(rxq') : rxq'[i] = rxq[i + 1]
      /\ Head(rxq) = rxq[1]
  BY <1>1, TailIsSeq
<1>3. Grows
  BY <1>1, LenProperties DEF Grows, OrderInv, Shapes
<1>4. Produced' = Produced
  BY <1>1 DEF Produced, InWrite
<1>5. TraceShapes' /\ WireTraced' /\ FifoTraced' /\ AppliedTraced' /\ RepliesTraced'
  BY <1>1, <1>3, <1>4, WireKept, FifoKept, AppliedKept, RepliesKept DEF TraceInv, TraceShapes
<1>6. QueueTraced'
  <2>1. \A i \in 1..Len(rxq') : i + 1 \in 1..Len(rxq)
    BY <1>2
  <2> QED
    BY <1>1, <1>2, <2>1 DEF TraceInv, QueueTraced
<1>7. HandTraced'
  <2>1. CASE pc' = pc
    BY <1>1, <2>1 DEF HandTraced, MidRequest
  <2>2. CASE pc' = "send"
    <3>1. 1 \in 1..Len(rxq) /\ cur' = rxq[1] /\ k' = 1
      BY <1>1, <1>2, <2>2
    <3>2. cur'.frame = got'[cur'.id]
      BY <1>1, <3>1 DEF TraceInv, QueueTraced
    <3>3. k' \in 1..Len(Plan(cur'.frame))
      BY <1>1, <1>2, <2>2, <3>1, PlanShape
    <3>4. k' - 1 = 0 /\ 1..0 = {}
      BY <3>1
    <3>5. Covered(cur.id, k - 1)'
      BY <3>4 DEF Covered
    <3> QED
      BY <2>2, <3>2, <3>3, <3>5 DEF HandTraced
  <2> QED
    BY <1>1, <2>1, <2>2
<1> QED
  BY <1>5, <1>6, <1>7 DEF TraceInv

(* It sends transaction k, every one before which is past.                 *)
LEMMA MdSendTraced ==
  ASSUME OrderInv, TraceInv, MdSend
  PROVE  TraceInv'
<1>1. PICK m : m = [id |-> cur.id, k |-> k]
  OBVIOUS
<1>2. PICK q : q = [m |-> m, t |-> CurPlan[k]]
  OBVIOUS
<1>3. m.id = cur.id /\ m.k = k /\ q.m = m /\ q.t = Plan(cur.frame)[k]
  BY <1>1, <1>2 DEF CurPlan
<1>4. /\ pc = "send" /\ pc' = "await" /\ MidRequest /\ wire' = Append(wire, q)
      /\ issued' = [issued EXCEPT ![cur.id] = k]
      /\ UNCHANGED << bus, txq, rxq, sending, cur, k, fifo, got, applied, misled >>
  BY <1>1, <1>2 DEF MdSend, MidRequest
<1>5. /\ cur.id \in 1..Len(got) /\ cur.frame = got[cur.id] /\ k \in 1..Len(Plan(cur.frame))
      /\ Covered(cur.id, k - 1) /\ Len(Plan(cur.frame)) \in 0..2
  BY <1>4, PlanShape DEF OrderInv, RequestsSorted, TraceInv, HandTraced
<1>6. Grows
  BY <1>4, LenProperties DEF Grows, OrderInv, Shapes
<1>7. AskedFor(m)' /\ q.t = Trans(m)' /\ Covered(m.id, m.k - 1)'
  <2>1. AskedFor(m) /\ q.t = Trans(m) /\ Covered(m.id, m.k - 1) /\ m.id \in 1..Len(got)
    BY <1>3, <1>5 DEF AskedFor, Trans
  <2> QED
    BY <1>6, <2>1, TracedStays
<1>8. IsSeq(wire') /\ WireTraced'
  <2>1. IsSeq(wire') /\ Range(wire') = Range(wire) \cup {q}
    BY <1>4, AppendIsSeq DEF TraceInv, TraceShapes
  <2>2. ASSUME NEW r \in Range(wire')
        PROVE  AskedFor(r.m)' /\ r.t = Trans(r.m)' /\ Covered(r.m.id, r.m.k - 1)'
    <3>1. CASE r \in Range(wire)
      <4>1. /\ AskedFor(r.m) /\ r.t = Trans(r.m) /\ Covered(r.m.id, r.m.k - 1)
            /\ r.m.id \in 1..Len(got)
        BY <3>1 DEF TraceInv, WireTraced, AskedFor
      <4> QED
        BY <1>6, <4>1, TracedStays
    <3>2. CASE r = q
      BY <3>2, <1>3, <1>7
    <3> QED
      BY <2>1, <3>1, <3>2
  <2> QED
    BY <2>1, <2>2 DEF WireTraced
<1>9. /\ issued' \in Seq(Nat) /\ Len(issued') = Len(got') /\ issued'[cur.id] = k
      /\ \A i \in 1..Len(got) : i # cur.id => issued'[i] = issued[i]
  <2>1. issued \in Seq(Nat) /\ cur.id \in 1..Len(issued) /\ k \in Nat /\ Len(issued) = Len(got)
    BY <1>5 DEF TraceInv, TraceShapes
  <2>2. /\ [issued EXCEPT ![cur.id] = k] \in Seq(Nat)
        /\ Len([issued EXCEPT ![cur.id] = k]) = Len(issued)
        /\ \A j \in 1..Len(issued) :
             [issued EXCEPT ![cur.id] = k][j] = IF j = cur.id THEN k ELSE issued[j]
    BY <2>1, ExceptSeq
  <2> QED
    BY <1>4, <2>1, <2>2
<1>10. RepliesTraced'
  <2>1. ASSUME NEW n \in Produced', n.src = "modbus" PROVE Answers(n)'
    <3>1. n \in Produced
      BY <1>4 DEF Produced, InWrite
    <3>2. Answers(n) /\ n.seq < cur.id /\ n.seq \in 1..Len(got)
      BY <1>4, <2>1, <3>1 DEF TraceInv, RepliesTraced, OrderInv, RepliesBefore, Answers
    <3>3. n.seq # cur.id
      <4>1. n.seq \in Int /\ cur.id \in Int
        BY <1>5, <3>2
      <4> QED
        BY <3>2, <4>1
    <3>4. issued'[n.seq] = issued[n.seq]
      BY <1>9, <3>2, <3>3
    <3> QED
      BY <1>6, <3>2, <3>4, AnswersStay
  <2> QED
    BY <2>1 DEF RepliesTraced
<1>11. HandTraced'
  <2>1. Covered(cur.id, k - 1)'
    BY <1>3, <1>4, <1>7
  <2> QED
    BY <2>1, <1>4, <1>5, <1>9 DEF HandTraced
<1>12. FifoTraced' /\ AppliedTraced' /\ QueueTraced'
  BY <1>4, <1>6, FifoKept, AppliedKept DEF TraceInv, QueueTraced
<1> QED
  BY <1>4, <1>8, <1>9, <1>10, <1>11, <1>12 DEF TraceInv, TraceShapes

(* The end of a transaction: it changes neither queue nor the line, but    *)
(* for the answers it takes from the FIFO.                                 *)
LEMMA RestKept ==
  ASSUME OrderInv, TraceInv, misled \subseteq misled',
         UNCHANGED << bus, txq, rxq, sending, wire, got, issued, applied >>,
         fifo' = fifo \/ fifo' = << >>, HandTraced'
  PROVE  TraceInv'
<1>1. Grows
  BY LenProperties DEF Grows, OrderInv, Shapes
<1>2. IsSeq(fifo') /\ Range(fifo') \subseteq Range(fifo)
  <2>1. IsSeq(<< >>) /\ Range(<< >>) = {}
    BY DEF IsSeq, Range
  <2>2. CASE fifo' = fifo
    BY <2>2 DEF TraceInv, TraceShapes
  <2>3. CASE fifo' = << >>
    BY <2>1, <2>3
  <2> QED
    BY <2>2, <2>3
<1>3. Produced' = Produced
  BY DEF Produced, InWrite
<1>4. TraceShapes' /\ WireTraced' /\ FifoTraced' /\ AppliedTraced' /\ RepliesTraced'
  BY <1>1, <1>2, <1>3, WireKept, FifoKept, AppliedKept, RepliesKept DEF TraceInv, TraceShapes
<1>5. QueueTraced'
  BY DEF TraceInv, QueueTraced
<1> QED
  BY <1>4, <1>5 DEF TraceInv

(* On to the next transaction or to the reply, when this one is no write,  *)
(* or was executed, or was ended by an answer that misled.                 *)
LEMMA AdvanceTraced ==
  ASSUME OrderInv, TraceInv, misled \subseteq misled', pc = "await", Advance,
         UNCHANGED << bus, txq, rxq, sending, wire, got, issued, applied >>,
         fifo' = fifo \/ fifo' = << >>,
         CurPlan[k].fn = WRITE_REGISTER => [id |-> cur.id, k |-> k] \in applied \cup misled'
  PROVE  TraceInv'
<1>1. /\ cur.id \in 1..Len(got) /\ cur.frame = got[cur.id] /\ k \in 1..Len(Plan(cur.frame))
      /\ Covered(cur.id, k - 1) /\ issued[cur.id] = k /\ Len(Plan(cur.frame)) \in 0..2
  BY PlanShape DEF OrderInv, RequestsSorted, TraceInv, HandTraced, MidRequest
<1>2. PICK id, n : id = cur.id /\ n = k
  OBVIOUS
<1>3. Covered(id, n)'
  <2>1. Grows
    BY LenProperties DEF Grows, OrderInv, Shapes
  <2>2. Covered(id, n - 1)'
    BY <1>1, <1>2, <2>1, TracedStays
  <2>3. Plan(got'[id])[n].fn = WRITE_REGISTER => [id |-> id, k |-> n] \in applied' \cup misled'
    BY <1>1, <1>2 DEF CurPlan
  <2>4. n \in Int /\ \A j \in 1..n : j \in 1..(n - 1) \/ j = n
    BY <1>1, <1>2
  <2> QED
    BY <2>2, <2>3, <2>4 DEF Covered
<1>4. HandTraced'
  <2>1. CASE k < Len(CurPlan)
    <3>1. pc' = "send" /\ k' = k + 1 /\ cur' = cur /\ k' - 1 = n
      BY <1>1, <1>2, <2>1 DEF Advance
    <3>2. Covered(cur.id, k - 1)'
      BY <1>2, <1>3, <3>1
    <3> QED
      BY <1>1, <2>1, <3>1, <3>2 DEF HandTraced, CurPlan
  <2>2. CASE ~(k < Len(CurPlan))
    <3>1. pc' = "reply" /\ k' = k /\ cur' = cur /\ k = Len(CurPlan)
      BY <1>1, <2>2 DEF Advance, CurPlan
    <3>2. Covered(cur.id, k)'
      BY <1>2, <1>3, <3>1
    <3>3. Covered(cur.id, k - 1)'
      <4>1. \A j \in 1..(k' - 1) : j \in 1..k'
        BY <1>1, <3>1
      <4> QED
        BY <3>2, <4>1 DEF Covered
    <3> QED
      BY <1>1, <3>1, <3>2, <3>3 DEF HandTraced, CurPlan
  <2> QED
    BY <2>1, <2>2
<1> QED
  BY <1>4, RestKept

(* A write gives up; a read always goes on.                                *)
LEMMA IdleTraced ==
  ASSUME OrderInv, TraceInv, misled \subseteq misled', Idle,
         UNCHANGED << bus, txq, rxq, sending, wire, got, issued, applied >>,
         fifo' = fifo \/ fifo' = << >>
  PROVE  TraceInv'
  BY RestKept DEF Idle, HandTraced, MidRequest

LEMMA MdReceiveTraced ==
  ASSUME OrderInv, TraceInv, MdReceive
  PROVE  TraceInv'
<1>1. /\ pc = "await" /\ fifo # << >> /\ fifo' = << >> /\ misled \subseteq misled'
      /\ UNCHANGED << bus, txq, rxq, sending, wire, got, issued, applied >>
      /\ Deceptive(fifo) => [id |-> cur.id, k |-> k] \in misled'
  BY DEF MdReceive
<1>2. Advance
  BY DEF MdReceive, WriteDone, ReadDone
<1>3. CurPlan[k].fn = WRITE_REGISTER => [id |-> cur.id, k |-> k] \in applied \cup misled'
  <2>1. SUFFICES ASSUME CurPlan[k].fn = WRITE_REGISTER, ~Deceptive(fifo)
                 PROVE  [id |-> cur.id, k |-> k] \in applied
    BY <1>1
  <2>2. IsSeq(fifo) /\ Len(fifo) \in Nat /\ Len(fifo) >= 1 /\ fifo[1] \in Range(fifo)
    BY <1>1, TailIsSeq DEF TraceInv, TraceShapes
  <2>3. PICK a : a = fifo[1]
    OBVIOUS
  <2>4. a.kind \notin Refusals /\ a.m = [id |-> cur.id, k |-> k]
    BY <2>1, <2>2, <2>3 DEF Deceptive
  <2>5. a # NoiseBytes
    <3>1. cur.id \in 1..Len(got)
      BY <1>1 DEF OrderInv, RequestsSorted, MidRequest
    <3>2. cur.id # 0
      BY <3>1
    <3> QED
      BY <2>4, <3>2 DEF NoiseBytes
  <2>6. a.fn = Trans(a.m).fn /\ (a.kind \notin Refusals /\ a.fn = WRITE_REGISTER => a.m \in applied)
    BY <2>2, <2>3, <2>5 DEF TraceInv, FifoTraced, AnswerTraced
  <2>7. a.m.id = cur.id /\ a.m.k = k /\ cur.frame = got[cur.id]
    BY <1>1, <2>4 DEF TraceInv, HandTraced, MidRequest
  <2> QED
    BY <2>1, <2>4, <2>6, <2>7 DEF Trans, CurPlan
<1> QED
  BY <1>1, <1>2, <1>3, AdvanceTraced

(* Noise is put into the FIFO, and nothing else happens.                   *)
LEMMA NoiseTraced ==
  ASSUME OrderInv, TraceInv, Noise
  PROVE  TraceInv'
<1>1. /\ fifo' = Append(fifo, NoiseBytes) /\ IsSeq(fifo)
      /\ UNCHANGED << bus, txq, rxq, sending, pc, cur, k, wire, got, issued, applied, misled >>
  BY DEF Noise, mdVars, history, TraceInv, TraceShapes
<1>2. IsSeq(fifo') /\ Range(fifo') = Range(fifo) \cup {NoiseBytes}
  BY <1>1, AppendIsSeq
<1>3. Grows
  BY <1>1, LenProperties DEF Grows, OrderInv, Shapes
<1>4. FifoTraced'
  <2>1. ASSUME NEW a \in Range(fifo') PROVE AnswerTraced(a)'
    <3>1. CASE a \in Range(fifo)
      BY <3>1, <1>3, AnswerStays DEF TraceInv, FifoTraced
    <3>2. CASE a = NoiseBytes
      BY <3>2 DEF AnswerTraced
    <3> QED
      BY <1>2, <3>1, <3>2
  <2> QED
    BY <2>1 DEF FifoTraced
<1>5. Produced' = Produced
  BY <1>1 DEF Produced, InWrite
<1>6. TraceShapes' /\ WireTraced' /\ AppliedTraced' /\ RepliesTraced'
  BY <1>1, <1>2, <1>3, <1>5, WireKept, AppliedKept, RepliesKept DEF TraceInv, TraceShapes
<1>7. QueueTraced' /\ HandTraced'
  BY <1>1 DEF TraceInv, QueueTraced, HandTraced, MidRequest, Covered
<1> QED
  BY <1>4, <1>6, <1>7 DEF TraceInv

LEMMA MdSilentTraced ==
  ASSUME OrderInv, TraceInv, MdTimeout \/ MdError
  PROVE  TraceInv'
<1>1. /\ pc = "await" /\ fifo' = fifo /\ misled' = misled
      /\ UNCHANGED << bus, txq, rxq, sending, wire, got, issued, applied >>
  BY DEF MdTimeout, MdError, history
<1>2. \/ Idle
      \/ Advance /\ CurPlan[k].fn # WRITE_REGISTER
  <2>1. CASE MdTimeout
    BY <2>1 DEF MdTimeout, WriteDone, ReadDone
  <2>2. CASE MdError
    <3>1. CASE CurPlan[k].fn = WRITE_REGISTER
      BY <2>2, <3>1 DEF MdError, WriteDone, READ_REGISTERS, WRITE_REGISTER
    <3>2. CASE CurPlan[k].fn = READ_REGISTERS
      BY <2>2, <3>2 DEF MdError, ReadDone, READ_REGISTERS, WRITE_REGISTER
    <3>3. CASE CurPlan[k].fn \notin {READ_REGISTERS, WRITE_REGISTER}
      BY <2>2, <3>3 DEF MdError, ReadDone
    <3> QED
      BY <3>1, <3>2, <3>3
  <2> QED
    BY <2>1, <2>2
<1>3. CASE Idle
  BY <1>1, <1>3, IdleTraced
<1>4. CASE Advance /\ CurPlan[k].fn # WRITE_REGISTER
  BY <1>1, <1>4, AdvanceTraced
<1> QED
  BY <1>2, <1>3, <1>4

(* The reply carries the header of the request, all of whose transactions  *)
(* are past.                                                               *)
LEMMA MdReplyTraced ==
  ASSUME OrderInv, TraceInv, MdReply
  PROVE  TraceInv'
<1>1. /\ pc = "reply" /\ Idle
      /\ UNCHANGED << bus, rxq, sending, wire, fifo, got, issued, applied, misled >>
  BY DEF MdReply, history
<1>2. CASE txq' = txq
  BY <1>1, <1>2, IdleTraced
<1>3. CASE txq' # txq
  <2>1. PICK m : m = [src |-> "modbus", seq |-> cur.id, frame |-> ReplyFrame(cur.frame, vals)]
    OBVIOUS
  <2>2. m.seq = cur.id /\ m.frame = ReplyFrame(cur.frame, vals) /\ txq' = Append(txq, m)
    BY <1>3, <2>1 DEF MdReply, MqSend
  <2>3. IsSeq(txq)
    BY DEF OrderInv, Shapes
  <2>4. Range(txq') = Range(txq) \cup {m}
    BY <2>2, <2>3, AppendIsSeq
  <2>5. Produced' \subseteq Produced \cup {m}
    BY <1>1, <2>4 DEF Produced, InWrite
  <2>6. Grows
    BY <1>1, LenProperties DEF Grows, OrderInv, Shapes
  <2>7. /\ cur.id \in 1..Len(got) /\ cur.frame = got[cur.id] /\ k \in 1..Len(Plan(cur.frame))
        /\ issued[cur.id] = k /\ k = Len(Plan(cur.frame)) /\ Covered(cur.id, k)
    BY <1>1 DEF OrderInv, RequestsSorted, TraceInv, HandTraced, MidRequest
  <2>8. Answers(m)
    <3>1. cur.frame \in CanData
      BY <2>7, FramesAssumption, ElementOfSeq DEF OrderInv, Shapes
    <3>2. /\ m.frame.type = cur.frame.type /\ m.frame.addr = cur.frame.addr
          /\ m.frame.index = cur.frame.index /\ m.frame.flag = cur.frame.flag
          /\ IsLsWrite(cur.frame) => m.frame = cur.frame
      BY <2>2, <3>1, ReplyHeader
    <3>3. Plan(cur.frame) # << >>
      BY <2>7
    <3> QED
      BY <2>2, <2>7, <3>2, <3>3 DEF Answers
  <2>9. RepliesTraced'
    <3>1. ASSUME NEW n \in Produced', n.src = "modbus" PROVE Answers(n)'
      <4>1. Answers(n)
        BY <2>5, <2>8, <3>1 DEF TraceInv, RepliesTraced
      <4> QED
        BY <1>1, <2>6, <4>1, AnswersStay
    <3> QED
      BY <3>1 DEF RepliesTraced
  <2>10. TraceShapes' /\ WireTraced' /\ FifoTraced' /\ AppliedTraced'
    BY <1>1, <2>6, WireKept, FifoKept, AppliedKept DEF TraceInv, TraceShapes
  <2>11. QueueTraced' /\ HandTraced'
    BY <1>1 DEF TraceInv, QueueTraced, HandTraced, MidRequest, Idle
  <2> QED
    BY <2>9, <2>10, <2>11 DEF TraceInv
<1> QED
  BY <1>2, <1>3

-----------------------------------------------------------------------------
LEMMA TraceStep == OrderInv /\ TraceInv /\ [Next]_vars => TraceInv'
<1> SUFFICES ASSUME OrderInv, TraceInv, [Next]_vars PROVE TraceInv'
  OBVIOUS
<1>1. CASE Main
  <2>1. ASSUME NEW c \in BOOLEAN, MainModbusInit(c) PROVE TraceInv'
    <3>1. UNCHANGED << bus, txq, rxq, sending, cur, k, wire, fifo, got, issued, applied, misled >>
      BY <2>1 DEF MainModbusInit, history
    <3>2. ~MidRequest'
      BY <2>1 DEF MainModbusInit, MidRequest
    <3>3. Produced' = Produced
      BY <3>1 DEF Produced, InWrite
    <3> QED
      BY <3>1, <3>2, <3>3, BystandersTrace
  <2> QED
    BY <1>1, <2>1, MainBeatTraced DEF Main
<1>2. CASE CanRx
  BY <1>2, CanRxTraced DEF CanRx
<1>3. CASE CanTx
  BY <1>3, TxTraced
<1>4. CASE Md
  BY <1>4, MdTakeTraced, MdSendTraced, MdReceiveTraced, MdSilentTraced, MdReplyTraced DEF Md
<1>5. CASE Slave
  BY <1>5, SlaveTraced
<1>6. CASE Noise
  BY <1>6, NoiseTraced
<1>7. CASE Move \/ UNCHANGED vars
  <2>1. UNCHANGED << bus, txq, rxq, sending, pc, cur, k, wire, fifo, got, issued, applied, misled >>
    BY <1>7 DEF Move, vars, mdVars, history
  <2>2. Produced' = Produced
    BY <2>1 DEF Produced, InWrite
  <2> QED
    BY <2>1, <2>2, BystandersTrace
<1> QED
  BY <1>1, <1>2, <1>3, <1>4, <1>5, <1>6, <1>7 DEF Next

LEMMA Traced == Spec => [](OrderInv /\ TraceInv)
  BY OrderInit, OrderStep, TraceInit, TraceStep, PTL DEF Spec

(* What is on its way to the bus is what was produced.                     *)
LEMMA OutgoingProduced ==
  ASSUME OrderInv
  PROVE  Outgoing \subseteq Produced
<1> DEFINE S == Produced
<1>1. IsSeq(bus) /\ IsSeq(txq)
  BY DEF OrderInv, Shapes
<1>2. bus \in Seq(S) /\ txq \in Seq(S)
  <2>1. Range(bus) \subseteq S /\ Range(txq) \subseteq S
    BY DEF Produced
  <2> QED
    BY <1>1, <2>1, SeqMonotonic DEF IsSeq
<1>3. sending \in Seq(S)
  <2>1. CASE sending = << >>
    BY <2>1
  <2>2. CASE sending # << >>
    <3>1. sending = << sending[1] >> /\ sending[1] \in S
      BY <2>2, Written DEF OrderInv, Produced
    <3> HIDE DEF S
    <3>2. << sending[1] >> \in Seq(S)
      BY <3>1
    <3> QED
      BY <3>1, <3>2
  <2> QED
    BY <2>1, <2>2
<1> HIDE DEF S
<1>4. TxPath \in Seq(S)
  BY <1>2, <1>3, ConcatProperties DEF TxPath
<1>5. \A i \in 1..Len(TxPath) : TxPath[i] \in S
  BY <1>4, ElementOfSeq
<1> QED
  BY <1>5 DEF Outgoing, S

(* A reply answers the request it came from, after every transaction of    *)
(* that request was issued.                                                *)
THEOREM RepliesDoAnswer == Spec => []RepliesAnswer
<1>1. OrderInv /\ TraceInv => RepliesAnswer
  BY OutgoingProduced DEF TraceInv, RepliesTraced, Answers, RepliesAnswer, Replies
<1> QED
  BY <1>1, Traced, PTL

(* A write that is echoed was executed, or what ended it was a refusal,    *)
(* damaged or not, the answer of another transaction, or noise.            *)
THEOREM EchoesAreExplained == Spec => []EchoUnlessMisled
<1>1. OrderInv /\ TraceInv => EchoUnlessMisled
  <2> SUFFICES ASSUME OrderInv, TraceInv, NEW m \in Replies, IsLsWrite(m.frame),
                      NEW i \in 1..Len(Plan(m.frame))
               PROVE  [id |-> m.seq, k |-> i] \in applied \cup misled
    BY DEF EchoUnlessMisled
  <2>1. Answers(m)
    BY OutgoingProduced DEF TraceInv, RepliesTraced, Replies
  <2>2. IsLsWrite(got[m.seq])
    BY <2>1 DEF Answers, IsLsWrite
  <2>3. m.frame = got[m.seq] /\ Covered(m.seq, Len(Plan(got[m.seq])))
    BY <2>1, <2>2 DEF Answers
  <2>4. Plan(got[m.seq])[i].fn = WRITE_REGISTER /\ i \in 1..Len(Plan(got[m.seq]))
    BY <2>2, <2>3, PlanShape
  <2> QED
    BY <2>3, <2>4 DEF Covered
<1> QED
  BY <1>1, Traced, PTL

(* A slave never executes the low word of a position whose high word it    *)
(* has not executed, unless such an answer stood in for that of the latter.*)
THEOREM LowHalfNeverAlone == Spec => []NoLoneLowHalf
<1>1. TraceInv => NoLoneLowHalf
  <2> SUFFICES ASSUME TraceInv, NEW m \in applied, m.k = 2
               PROVE  [id |-> m.id, k |-> 1] \in applied \cup misled
    BY DEF NoLoneLowHalf
  <2>1. AskedFor(m) /\ Trans(m).fn = WRITE_REGISTER /\ Covered(m.id, m.k - 1)
    BY DEF TraceInv, AppliedTraced
  <2>2. Len(Plan(got[m.id])) \in 0..2 /\ 2 \in 1..Len(Plan(got[m.id]))
    BY <2>1, PlanShape DEF AskedFor
  <2>3. Plan(got[m.id])[1].fn = WRITE_REGISTER
    BY <2>1, <2>2, PlanShape DEF Trans
  <2>4. m.k - 1 = 1 /\ 1 \in 1..1
    OBVIOUS
  <2> QED
    BY <2>1, <2>3, <2>4 DEF Covered
<1> QED
  BY <1>1, Traced, PTL

-----------------------------------------------------------------------------
(* What the gateway reports: the type invariant, and that a read which     *)
(* took its own answer reports what the register held.                     *)

-----------------------------------------------------------------------------
(* The types of what the tables of the handlers build.                     *)

AllTransactions(p) == \A i \in 1..Len(p) : p[i] \in Transaction

LEMMA ShortPlansTyped ==
  /\ AllTransactions(<< >>)
  /\ \A t \in Transaction : AllTransactions(<< t >>)
  /\ \A t, u \in Transaction : AllTransactions(<< t, u >>)
  BY DEF AllTransactions

LEMMA OneTransaction ==
  ASSUME NEW s \in Byte, NEW r \in Word, NEW v \in Word
  PROVE  /\ Write(s, r, v) \in Transaction /\ Write(s, r, v).fn = WRITE_REGISTER
         /\ Read(s, r) \in Transaction /\ Read(s, r).reg = r
         /\ ReadInput(s, r) \in Transaction
<1>1. 0 \in Word
  BY DEF Word
<1>2. ASSUME NEW fn \in {READ_REGISTERS, READ_INPUT_REGISTERS, WRITE_REGISTER}, NEW w \in Word
      PROVE  [fn |-> fn, slave |-> s, reg |-> r, val |-> w] \in Transaction
  BY DEF Transaction
<1> QED
  BY <1>1, <1>2 DEF Write, Read, ReadInput

(* The registers and values the tables name fit in a word.                 *)
LEMMA TableWords ==
  /\ {0, 1, 2, 4, 5, 16, 32, 64} \subseteq Word
  /\ {\h6000, \h6002, \h6200, \h6201, \h6202, \h6203, \h600A, \h620C, \h620D} \subseteq Word
  /\ {PositionLo, PositionHi, \h0B09, \h0B05, \h2203, \h32, \h33, \h34} \subseteq Word
  BY DEF Word, PositionLo, PositionHi

LEMMA LsWritesTyped ==
  ASSUME NEW f \in CanData
  PROVE  AllTransactions(LsWrites(f))
<1>1. f.addr \in Byte /\ Lo(f) \in Word /\ Hi(f) \in Word
  BY DEF CanData, Lo, Hi
<1>2. \A r, v \in Word : Write(f.addr, r, v) \in Transaction
  BY <1>1, OneTransaction
<1>3. \A r, v \in Word : AllTransactions(<< Write(f.addr, r, v) >>)
  BY <1>2, ShortPlansTyped
<1>4. CASE f.index = 5
  <2>1. PICK t, u : t = Write(f.addr, \h6201, Hi(f)) /\ u = Write(f.addr, \h6202, Lo(f))
    OBVIOUS
  <2>2. LsWrites(f) = << t >> \o << u >>
    BY <1>4, <2>1 DEF LsWrites
  <2>3. t \in Transaction /\ u \in Transaction /\ t.fn = u.fn
    <3>1. \h6201 \in Word /\ \h6202 \in Word
      BY TableWords
    <3> QED
      BY <1>1, <2>1, <3>1, OneTransaction
  <2>4. /\ Len(<< t >> \o << u >>) = 2
        /\ (<< t >> \o << u >>)[1] = t /\ (<< t >> \o << u >>)[2] = u
    BY <2>3, TwoTransactions
  <2>5. \A i \in 1..2 : i = 1 \/ i = 2
    OBVIOUS
  <2> QED
    BY <2>2, <2>3, <2>4, <2>5 DEF AllTransactions
<1>5. CASE f.index # 5
  <2>1. \A r, v : {r, v} \subseteq Word => AllTransactions(<< Write(f.addr, r, v) >>)
    BY <1>3
  <2> QED
    BY <1>1, <1>3, <1>5, TableWords, ShortPlansTyped DEF LsWrites
<1> QED
  BY <1>4, <1>5

LEMMA PlanTyped ==
  ASSUME NEW f \in CanData
  PROVE  AllTransactions(Plan(f))
<1>1. f.addr \in Byte /\ f.index \in Byte /\ Lo(f) \in Word
  BY DEF CanData, Lo
<1>3. AllTransactions(LsReads(f))
  <2>1. \A r \in Word : Read(f.addr, r) \in Transaction
    BY <1>1, OneTransaction
  <2> QED
    BY <2>1, TableWords, ShortPlansTyped DEF LsReads
<1>4. AllTransactions(<< Write(f.index, \h6000, Lo(f)) >>)
  <2>1. Write(f.index, \h6000, Lo(f)) \in Transaction
    BY <1>1, TableWords, OneTransaction
  <2> QED
    BY <2>1, ShortPlansTyped
<1>5. AllTransactions(<< ReadInput(f.index, PowerReg(f)) >>)
  <2>1. PowerReg(f) \in Word
    BY TableWords DEF PowerReg
  <2>2. ReadInput(f.index, PowerReg(f)) \in Transaction
    BY <1>1, <2>1, OneTransaction
  <2> QED
    BY <2>2, ShortPlansTyped
<1> QED
  BY <1>3, <1>4, <1>5, LsWritesTyped, ShortPlansTyped DEF Plan

LEMMA WordParts ==
  /\ \A w \in Word : w % 4096 \in Word /\ w \in Nat
  /\ \A n \in Nat : n % 65536 \in Word /\ (n \div 65536) % 65536 \in Word /\ n % 256 \in Byte
<1>1. \A n \in Int : /\ n % 65536 \in Int /\ 0 <= n % 65536 /\ n % 65536 <= 65535
                     /\ n % 4096 \in Int /\ 0 <= n % 4096 /\ n % 4096 <= 65535
                     /\ n % 256 \in Int /\ 0 <= n % 256 /\ n % 256 <= 255
  OBVIOUS
<1>2. \A n \in Nat : n \in Int /\ n \div 65536 \in Int
  OBVIOUS
<1>3. PICK maxWord, maxByte : maxWord = 65535 /\ maxByte = 255
  OBVIOUS
<1>4. Word = 0..maxWord /\ Byte = 0..maxByte
  BY <1>3 DEF Word, Byte
<1>5. maxWord \in Int /\ maxByte \in Int
  BY <1>3
<1>6. /\ \A x \in Int : 0 <= x /\ x <= maxWord => x \in Word
      /\ \A x \in Int : 0 <= x /\ x <= maxByte => x \in Byte
      /\ \A x \in Word : x \in Int /\ x \in Nat
  BY <1>4, <1>5
<1>7. \A w \in Word : w % 4096 \in Word /\ w \in Nat
  BY <1>1, <1>3, <1>6
<1>8. \A n \in Nat : n % 65536 \in Word /\ (n \div 65536) % 65536 \in Word
  BY <1>1, <1>2, <1>3, <1>6
<1>9. \A n \in Nat : n % 256 \in Byte
  BY <1>1, <1>2, <1>3, <1>6
<1> QED
  BY <1>7, <1>8, <1>9

LEMMA ReplyTyped ==
  ASSUME NEW f \in CanData, NEW words \in Seq(Word), Len(words) >= 1,
         IsLsRead(f) /\ f.index = 5 => Len(words) = 2
  PROVE  ~IsLsWrite(f) => ReplyFrame(f, words) \in CanData
<1>1. words[1] \in Word /\ words[1] % 4096 \in Word /\ 0 \in Word /\ Hi(f) \in Word
  <2>1. words[1] \in Word /\ Hi(f) \in Word
    BY LenProperties, ElementOfSeq DEF CanData, Hi
  <2> QED
    BY <2>1, WordParts, TableWords
<1>2. \A v, w \in Word : [f EXCEPT !.data = << v, w >>] \in CanData
  BY DEF CanData
<1>3. IsLsRead(f) /\ f.index = 5 => words[2] \in Word
  BY ElementOfSeq
<1> QED
  BY <1>1, <1>2, <1>3 DEF ReplyFrame

(* A request that is answered from the words read asks for reads only.     *)
LEMMA ReadPlans ==
  ASSUME NEW f
  PROVE  /\ ~IsLsWrite(f) /\ ~IsReg6000(f) =>
              \A i \in 1..Len(Plan(f)) : Plan(f)[i].fn # WRITE_REGISTER
         /\ IsLsRead(f) /\ f.index = 5 => Len(Plan(f)) = 2
<1>1. /\ \A r : Read(f.addr, r).fn # WRITE_REGISTER
      /\ \A r : ReadInput(f.index, r).fn # WRITE_REGISTER
  BY DEF Read, ReadInput, WRITE_REGISTER, READ_REGISTERS, READ_INPUT_REGISTERS
<1>2. \A i \in 1..Len(LsReads(f)) : LsReads(f)[i].fn # WRITE_REGISTER
  BY <1>1 DEF LsReads
<1>3. IsLsRead(f) => Plan(f) = LsReads(f)
  <2>1. IsLsRead(f) => ~IsReg6000(f) /\ ~IsLsWrite(f) /\ ~IsPowerRead(f)
    BY DEF IsLsRead, IsReg6000, IsLsWrite, IsPowerRead, MSG_MODBUS_MOTOR_REG6000,
           MSG_LS_CHAIN_CTRL, MSG_MODBUS_POWER_READ_VOLTAGE, MSG_MODBUS_POWER_READ_CURRENT,
           MSG_MODBUS_POWER_READ_POWER
  <2> QED
    BY <2>1 DEF Plan
<1>4. CASE IsLsRead(f)
  BY <1>2, <1>3, <1>4 DEF LsReads
<1>5. CASE ~IsLsRead(f)
  BY <1>1, <1>5 DEF Plan
<1> QED
  BY <1>4, <1>5

-----------------------------------------------------------------------------
(* The type invariant in parts, with the number of words read so far.      *)

Mark == [id : Nat, k : Nat]
WireEntry == [m : Mark, t : Transaction]

QueuesTyped ==
  rxq \in Seq(Request) /\ txq \in Seq(Message) /\ sending \in Seq(Message) /\ bus \in Seq(Message)

LineTyped ==
  wire \in Seq(WireEntry) /\ fifo \in Seq(Answer) /\ pos \in Nat /\ faults \in 0..MaxFaults

ThreadsTyped ==
  /\ boot \in {"modbus", "run", "nomodbus"} /\ beat \in 0..MaxBeats
  /\ pc \in {"off", "poll", "send", "await", "reply"}
  /\ cur \in Request \cup {NoRequest} /\ k \in 0..2 /\ vals \in Seq(Word)

HistoryTyped ==
  got \in Seq(Frames) /\ issued \in Seq(0..2) /\ applied \cup heeded \cup misled \subseteq Mark

ValsCounted ==
  MidRequest /\ CurPlan[k].fn # WRITE_REGISTER => Len(vals) = IF pc = "reply" THEN k ELSE k - 1

TypeInv == QueuesTyped /\ LineTyped /\ ThreadsTyped /\ HistoryTyped /\ ValsCounted

LEMMA TypeParts == TypeInv => TypeOK
  BY DEF TypeInv, QueuesTyped, LineTyped, ThreadsTyped, HistoryTyped, TypeOK, WireEntry, Mark

LEMMA TypeInit == Init => TypeInv
<1> SUFFICES ASSUME Init PROVE TypeInv
  OBVIOUS
<1>1. \A S : << >> \in Seq(S)
  OBVIOUS
<1>2. QueuesTyped /\ HistoryTyped
  BY <1>1 DEF Init, QueuesTyped, HistoryTyped
<1>3. LineTyped
  BY <1>1, SlaveAssumption, BoundAssumption DEF Init, LineTyped
<1>4. ThreadsTyped /\ ValsCounted
  BY <1>1, BoundAssumption DEF Init, ThreadsTyped, ValsCounted, MidRequest
<1> QED
  BY <1>2, <1>3, <1>4 DEF TypeInv

LEMMA SentTyped ==
  ASSUME NEW S, NEW q \in Seq(S), NEW cap, NEW m \in S
  PROVE  MqSend(q, cap, m) \in Seq(S)
  BY AppendProperties DEF MqSend

LEMMA TakenTyped ==
  ASSUME NEW S, NEW q \in Seq(S), q # << >>
  PROVE  Head(q) \in S /\ Tail(q) \in Seq(S) /\ << Head(q) >> \in Seq(S)
<1>1. Head(q) \in S /\ Tail(q) \in Seq(S)
  BY HeadTailProperties
<1> QED
  BY <1>1

LEMMA MainTyped ==
  ASSUME TypeInv, Main
  PROVE  TypeInv'
<1>1. ASSUME NEW c \in BOOLEAN, MainModbusInit(c) PROVE TypeInv'
  <2>1. UNCHANGED << beat, rxq, txq, sending, cur, k, vals, wire, fifo, pos, faults, history >>
    BY <1>1 DEF MainModbusInit
  <2>2. boot' \in {"run", "nomodbus"} /\ pc' \in {"poll", "off"}
    BY <1>1 DEF MainModbusInit
  <2> QED
    BY <2>1, <2>2 DEF TypeInv, QueuesTyped, LineTyped, ThreadsTyped, HistoryTyped, ValsCounted,
                      MidRequest, history
<1>2. CASE MainBeat
  <2>1. /\ UNCHANGED << boot, rxq, sending, mdVars, wire, fifo, pos, faults, history >>
        /\ beat < MaxBeats /\ beat' = beat + 1
    BY <1>2 DEF MainBeat
  <2>2. beat \in Nat /\ beat' \in Nat /\ beat' \in 0..MaxBeats
    BY <2>1, BoundAssumption DEF TypeInv, ThreadsTyped
  <2>3. PICK junk \in Garbage : txq' = MqSend(txq, TxCap, Heartbeat(beat', junk))
    BY <1>2 DEF MainBeat
  <2>4. Heartbeat(beat', junk) \in Message
    <3>1. junk \in Nat
      BY <2>3, SlaveAssumption, WordParts
    <3>2. /\ MSG_HEARTBEAT \in Byte /\ BoardAddr \in Byte /\ 0 \in Byte
      BY BoardAssumption DEF Byte, MSG_HEARTBEAT
    <3>3. junk % 256 \in Byte /\ beat' % 65536 \in Word /\ (beat' \div 65536) % 65536 \in Word
      BY <2>2, <3>1, WordParts
    <3>4. PICK b, lo, hi : b = junk % 256 /\ lo = beat' % 65536 /\ hi = (beat' \div 65536) % 65536
      OBVIOUS
    <3>5. [type |-> MSG_HEARTBEAT, addr |-> BoardAddr, flag |-> 0, index |-> b,
           data |-> << lo, hi >>] \in CanData
      BY <3>2, <3>3, <3>4 DEF CanData
    <3> QED
      BY <2>2, <3>4, <3>5 DEF Heartbeat, Message
  <2>5. txq' \in Seq(Message)
    BY <2>3, <2>4, SentTyped DEF TypeInv, QueuesTyped
  <2> QED
    BY <2>1, <2>2, <2>5 DEF TypeInv, QueuesTyped, LineTyped, ThreadsTyped, HistoryTyped,
                            ValsCounted, MidRequest, CurPlan, mdVars, history
<1> QED
  BY <1>1, <1>2 DEF Main

LEMMA CanRxTyped ==
  ASSUME TypeInv, NEW f \in Frames, CanRxFrame(f)
  PROVE  TypeInv'
<1>1. /\ UNCHANGED << boot, beat, txq, sending, mdVars, wire, fifo, pos, faults, applied, heeded,
                      misled, bus >>
      /\ got' = Append(got, f) /\ issued' = Append(issued, 0)
  BY DEF CanRxFrame
<1>2. got' \in Seq(Frames) /\ Len(got') \in Nat \ {0} /\ issued' \in Seq(0..2)
  <2>1. got \in Seq(Frames) /\ issued \in Seq(0..2) /\ 0 \in 0..2
    BY DEF TypeInv, HistoryTyped
  <2>2. Len(got) \in Nat
    BY <2>1, LenProperties
  <2> QED
    BY <1>1, <2>1, <2>2, AppendProperties
<1>3. [id |-> Len(got'), frame |-> f] \in Request
  BY <1>2, FramesAssumption DEF Request
<1>4. rxq' \in Seq(Request)
  BY <1>3, SentTyped DEF CanRxFrame, TypeInv, QueuesTyped
<1> QED
  BY <1>1, <1>2, <1>4 DEF TypeInv, QueuesTyped, LineTyped, ThreadsTyped, HistoryTyped,
                          ValsCounted, MidRequest, CurPlan, mdVars

LEMMA CanTxTyped ==
  ASSUME TypeInv, CanTx
  PROVE  TypeInv'
<1>1. UNCHANGED << boot, beat, rxq, mdVars, wire, fifo, pos, faults, got, issued, applied,
                   heeded, misled >>
  BY DEF CanTx, TxTake, TxWrite, history
<1>2. /\ txq' \in Seq(Message) /\ sending' \in Seq(Message) /\ bus' \in Seq(Message)
  <2>1. << >> \in Seq(Message) /\ txq \in Seq(Message) /\ sending \in Seq(Message)
        /\ bus \in Seq(Message)
    BY DEF TypeInv, QueuesTyped
  <2>2. CASE TxTake
    BY <2>1, <2>2, TakenTyped DEF TxTake, history
  <2>3. ASSUME NEW sent \in BOOLEAN, TxWrite(sent)
        PROVE  txq' \in Seq(Message) /\ sending' \in Seq(Message) /\ bus' \in Seq(Message)
    BY <2>1, <2>3, ConcatProperties DEF TxWrite
  <2> QED
    BY <2>2, <2>3 DEF CanTx
<1> QED
  BY <1>1, <1>2 DEF TypeInv, QueuesTyped, LineTyped, ThreadsTyped, HistoryTyped,
                    ValsCounted, MidRequest, CurPlan, mdVars

LEMMA MoveTyped ==
  ASSUME TypeInv, Move
  PROVE  TypeInv'
<1>1. pos' \in Nat
  BY DEF Move, TypeInv, LineTyped
<1>2. UNCHANGED << boot, beat, rxq, txq, sending, mdVars, wire, fifo, faults, history >>
  BY DEF Move
<1> QED
  BY <1>1, <1>2 DEF TypeInv, QueuesTyped, LineTyped, ThreadsTyped, HistoryTyped,
                    ValsCounted, MidRequest, CurPlan, mdVars, history

LEMMA FaultTyped ==
  ASSUME TypeInv, NEW kind, faults' = faults \/ Fault(kind)
  PROVE  faults' \in 0..MaxFaults
  BY BoundAssumption DEF Fault, TypeInv, LineTyped

LEMMA NoiseTyped ==
  ASSUME TypeInv, Noise
  PROVE  TypeInv'
<1>1. /\ fifo \in Seq(Answer) /\ fifo' = Append(fifo, NoiseBytes) /\ faults' \in 0..MaxFaults
      /\ UNCHANGED << boot, beat, rxq, txq, sending, mdVars, wire, pos, history >>
  BY FaultTyped DEF Noise, TypeInv, LineTyped
<1>2. NoiseBytes \in Answer
  BY WordParts, TableWords DEF NoiseBytes, Answer, Byte
<1>3. fifo' \in Seq(Answer)
  BY <1>1, <1>2, AppendProperties
<1> QED
  BY <1>1, <1>3 DEF TypeInv, QueuesTyped, LineTyped, ThreadsTyped, HistoryTyped,
                    ValsCounted, MidRequest, CurPlan, mdVars, history

LEMMA RegTyped ==
  ASSUME TypeInv, NEW r
  PROVE  RegVal(r) \in Word
<1>1. pos \in Nat /\ Status \in Word
  BY SlaveAssumption DEF TypeInv, LineTyped
<1>2. pos % 65536 \in Word /\ (pos \div 65536) % 65536 \in Word
  BY <1>1, WordParts
<1>3. PICK lo, hi : lo = pos % 65536 /\ hi = (pos \div 65536) % 65536
  OBVIOUS
<1> QED
  BY <1>1, <1>2, <1>3 DEF RegVal

LEMMA SlaveTyped ==
  ASSUME TypeInv, Slave
  PROVE  TypeInv'
<1>1. /\ wire # << >> /\ wire' = Tail(wire)
      /\ UNCHANGED << boot, beat, rxq, txq, sending, mdVars, pos, got, issued, heeded, misled, bus >>
      /\ applied' = applied \/ applied' = Executed(Head(wire))
  BY DEF Slave, Serve, Lose
<1>2. PICK q : q = Head(wire)
  OBVIOUS
<1>3. q \in WireEntry /\ wire' \in Seq(WireEntry)
  BY <1>1, <1>2, TakenTyped DEF TypeInv, LineTyped
<1>4. q.m \in Mark /\ q.t \in Transaction
  BY <1>3 DEF WireEntry
<1>5. applied' \cup heeded' \cup misled' \subseteq Mark
  BY <1>1, <1>2, <1>4 DEF TypeInv, HistoryTyped, Executed
<1>6. faults' \in 0..MaxFaults /\ fifo' \in Seq(Answer)
  <2>1. fifo \in Seq(Answer)
    BY DEF TypeInv, LineTyped
  <2>2. ASSUME NEW executed \in BOOLEAN, Lose(executed)
        PROVE  faults' \in 0..MaxFaults /\ fifo' \in Seq(Answer)
    BY <2>1, <2>2, FaultTyped DEF Lose
  <2>3. ASSUME NEW kind \in {"ok", "exception", "garbled", "garbledRefusal"}, Serve(kind)
        PROVE  faults' \in 0..MaxFaults /\ fifo' \in Seq(Answer)
    <3>1. faults' = faults \/ Fault(kind)
      BY <2>3 DEF Serve
    <3>2. PICK v : v = RegVal(q.t.reg)
      OBVIOUS
    <3>3. PICK a : a = [m |-> q.m, fn |-> q.t.fn, slave |-> q.t.slave, kind |-> kind, val |-> v]
      OBVIOUS
    <3>4. fifo' = Append(fifo, a)
      BY <1>2, <2>3, <3>2, <3>3 DEF Serve
    <3>5. v \in Word
      BY <3>2, RegTyped
    <3>6. q.t.fn \in 0..127 /\ q.t.slave \in Byte
      BY <1>4 DEF Transaction, READ_REGISTERS, READ_INPUT_REGISTERS, WRITE_REGISTER
    <3>7. a \in Answer
      BY <1>4, <2>3, <3>3, <3>5, <3>6 DEF Answer, Mark
    <3> QED
      BY <2>1, <3>1, <3>4, <3>7, FaultTyped, AppendProperties
  <2> QED
    BY <2>2, <2>3 DEF Slave
<1> QED
  BY <1>1, <1>3, <1>5, <1>6 DEF TypeInv, QueuesTyped, LineTyped, ThreadsTyped, HistoryTyped,
                                ValsCounted, MidRequest, CurPlan, mdVars

LEMMA MdTakeTyped ==
  ASSUME TypeInv, MdTake
  PROVE  TypeInv'
<1>1. /\ rxq # << >> /\ rxq' = Tail(rxq) /\ pc = "poll"
      /\ UNCHANGED << boot, beat, txq, sending, wire, fifo, pos, faults, history >>
      /\ \/ UNCHANGED mdVars
         \/ cur' = Head(rxq) /\ k' = 1 /\ vals' = << >> /\ pc' = "send"
  BY DEF MdTake
<1>2. Head(rxq) \in Request /\ rxq' \in Seq(Request) /\ << >> \in Seq(Word)
  BY <1>1, TakenTyped DEF TypeInv, QueuesTyped
<1>3. ThreadsTyped'
  <2>1. CASE UNCHANGED mdVars
    BY <1>1, <2>1 DEF TypeInv, ThreadsTyped, mdVars
  <2>2. CASE cur' = Head(rxq) /\ k' = 1 /\ vals' = << >> /\ pc' = "send"
    <3>1. cur' \in Request \cup {NoRequest} /\ k' \in 0..2 /\ vals' \in Seq(Word)
      BY <1>2, <2>2
    <3> QED
      BY <1>1, <2>2, <3>1 DEF TypeInv, ThreadsTyped
  <2> QED
    BY <1>1, <2>1, <2>2
<1>4. ValsCounted'
  <2>1. Len(<< >>) = 0
    OBVIOUS
  <2> QED
    BY <1>1, <2>1 DEF ValsCounted, MidRequest, mdVars
<1> QED
  BY <1>1, <1>2, <1>3, <1>4 DEF TypeInv, QueuesTyped, LineTyped, HistoryTyped, history

(* The request in hand is one that was received.                           *)
LEMMA HandTyped ==
  ASSUME OrderInv, TraceInv, TypeInv, MidRequest
  PROVE  /\ cur.id \in 1..Len(got) /\ cur.id \in Nat /\ cur \in Request
         /\ cur.frame \in CanData /\ k \in 1..Len(CurPlan) /\ k \in Nat /\ Len(CurPlan) \in 0..2
         /\ CurPlan[k] \in Transaction /\ [id |-> cur.id, k |-> k] \in Mark
         /\ \A i \in 1..Len(CurPlan) : CurPlan[i].fn = CurPlan[k].fn
<1>1. /\ cur.id \in 1..Len(got) /\ cur.frame = got[cur.id] /\ k \in 1..Len(Plan(cur.frame))
  BY DEF OrderInv, RequestsSorted, TraceInv, HandTraced
<1>2. cur.frame \in CanData /\ Len(got) \in Nat
  BY <1>1, FramesAssumption, ElementOfSeq, LenProperties DEF TypeInv, HistoryTyped
<1>3. cur \in Request
  <2>1. NoRequest.id = 0
    BY DEF NoRequest
  <2> QED
    BY <1>1, <2>1 DEF TypeInv, ThreadsTyped
<1>4. CurPlan[k] \in Transaction
  BY <1>1, <1>2, PlanTyped DEF AllTransactions, CurPlan
<1>5. cur.id \in Nat /\ k \in Nat
  BY <1>1, <1>2 DEF TypeInv, ThreadsTyped
<1>6. [id |-> cur.id, k |-> k] \in Mark
  BY <1>5 DEF Mark
<1> QED
  BY <1>1, <1>2, <1>3, <1>4, <1>5, <1>6, PlanShape DEF CurPlan

LEMMA MdSendTyped ==
  ASSUME OrderInv, TraceInv, TypeInv, MdSend
  PROVE  TypeInv'
<1>1. /\ pc = "send" /\ pc' = "await" /\ MidRequest
      /\ issued' = [issued EXCEPT ![cur.id] = k]
      /\ UNCHANGED << boot, beat, rxq, txq, sending, cur, k, vals, fifo, pos, faults,
                      got, applied, heeded, misled, bus >>
  BY DEF MdSend, MidRequest
<1>2. wire' \in Seq(WireEntry)
  <2>1. PICK m, t : m = [id |-> cur.id, k |-> k] /\ t = CurPlan[k]
    OBVIOUS
  <2>2. m \in Mark /\ t \in Transaction
    BY <1>1, <2>1, HandTyped
  <2>3. [m |-> m, t |-> t] \in WireEntry
    BY <2>2 DEF WireEntry
  <2>4. wire' = Append(wire, [m |-> m, t |-> t])
    BY <2>1 DEF MdSend
  <2> QED
    BY <2>3, <2>4, AppendProperties DEF TypeInv, LineTyped
<1>3. issued' \in Seq(0..2)
  <2>1. issued \in Seq(0..2) /\ cur.id \in 1..Len(issued) /\ k \in 0..2
    BY <1>1, HandTyped DEF TypeInv, HistoryTyped, ThreadsTyped, TraceInv, TraceShapes
  <2> QED
    BY <1>1, <2>1, ExceptSeq
<1> QED
  BY <1>1, <1>2, <1>3 DEF TypeInv, QueuesTyped, LineTyped, ThreadsTyped, HistoryTyped,
                          ValsCounted, MidRequest, CurPlan

(* The end of a transaction: the words read so far are as many as the      *)
(* reads that are past.                                                    *)
LEMMA IdleTyped ==
  ASSUME TypeInv, Idle,
         UNCHANGED << boot, beat, rxq, txq, sending, wire, pos, got, issued, applied, bus >>,
         fifo' \in Seq(Answer), faults' \in 0..MaxFaults, heeded' \cup misled' \subseteq Mark
  PROVE  TypeInv'
<1>1. << >> \in Seq(Word) /\ pc' = "poll" /\ cur' = NoRequest /\ k' = 0 /\ vals' = << >>
  BY DEF Idle
<1> QED
  BY <1>1 DEF TypeInv, QueuesTyped, LineTyped, ThreadsTyped, HistoryTyped, ValsCounted, MidRequest

LEMMA WriteDoneTyped ==
  ASSUME OrderInv, TraceInv, TypeInv, pc = "await", NEW n, WriteDone(n),
         CurPlan[k].fn = WRITE_REGISTER,
         UNCHANGED << boot, beat, rxq, txq, sending, wire, pos, got, issued, applied, bus >>,
         fifo' \in Seq(Answer), faults' \in 0..MaxFaults, heeded' \cup misled' \subseteq Mark
  PROVE  TypeInv'
<1>1. CASE Idle
  BY <1>1, IdleTyped
<1>2. CASE Advance /\ vals' = vals
  <2>1. /\ MidRequest /\ k \in 1..Len(CurPlan) /\ k \in Nat /\ Len(CurPlan) \in 0..2
        /\ \A i \in 1..Len(CurPlan) : CurPlan[i].fn = CurPlan[k].fn
    BY HandTyped DEF MidRequest
  <2>2. /\ cur' = cur /\ CurPlan' = CurPlan /\ pc' \in {"send", "reply"}
        /\ k' \in 1..Len(CurPlan) /\ k' \in 0..2
    BY <1>2, <2>1 DEF Advance, CurPlan
  <2>3. ValsCounted'
    BY <2>1, <2>2 DEF ValsCounted
  <2> QED
    BY <1>2, <2>2, <2>3 DEF TypeInv, QueuesTyped, LineTyped, ThreadsTyped, HistoryTyped
<1> QED
  BY <1>1, <1>2 DEF WriteDone

LEMMA ReadDoneTyped ==
  ASSUME OrderInv, TraceInv, TypeInv, pc = "await", NEW results \in SUBSET Word,
         ReadDone(results), CurPlan[k].fn # WRITE_REGISTER,
         UNCHANGED << boot, beat, rxq, txq, sending, wire, pos, got, issued, applied, bus >>,
         fifo' \in Seq(Answer), faults' \in 0..MaxFaults, heeded' \cup misled' \subseteq Mark
  PROVE  TypeInv'
<1>1. PICK v \in results : vals' = Append(vals, v) /\ Advance
  BY DEF ReadDone
<1>2. /\ MidRequest /\ k \in 1..Len(CurPlan) /\ k \in Nat /\ Len(CurPlan) \in 0..2
      /\ \A i \in 1..Len(CurPlan) : CurPlan[i].fn = CurPlan[k].fn
  BY HandTyped DEF MidRequest
<1>3. vals \in Seq(Word) /\ Len(vals) = k - 1
  BY <1>2 DEF TypeInv, ThreadsTyped, ValsCounted
<1>4. vals' \in Seq(Word) /\ Len(vals') = k
  BY <1>1, <1>2, <1>3, AppendProperties
<1>5. /\ cur' = cur /\ CurPlan' = CurPlan /\ k' \in 0..2
      /\ \/ pc' = "send" /\ k' = k + 1
         \/ pc' = "reply" /\ k' = k
  BY <1>1, <1>2 DEF Advance, CurPlan
<1>6. ValsCounted'
  <2>1. Len(vals') = IF pc' = "reply" THEN k' ELSE k' - 1
    <3>1. CASE pc' = "send" /\ k' = k + 1
      <4>1. k = k' - 1
        BY <1>2, <3>1
      <4> QED
        BY <1>4, <3>1, <4>1
    <3>2. CASE pc' = "reply" /\ k' = k
      BY <1>4, <3>2
    <3> QED
      BY <1>5, <3>1, <3>2
  <2> QED
    BY <2>1 DEF ValsCounted
<1> QED
  BY <1>4, <1>5, <1>6 DEF TypeInv, QueuesTyped, LineTyped, ThreadsTyped, HistoryTyped

LEMMA MdEndTyped ==
  ASSUME OrderInv, TraceInv, TypeInv, MdReceive \/ MdTimeout \/ MdError
  PROVE  TypeInv'
<1>1. /\ pc = "await" /\ MidRequest
      /\ UNCHANGED << boot, beat, rxq, txq, sending, wire, pos, got, issued, applied, bus >>
  BY DEF MdReceive, MdTimeout, MdError, MidRequest, history
<1>2. PICK m : m = [id |-> cur.id, k |-> k]
  OBVIOUS
<1>3. m \in Mark /\ CurPlan[k] \in Transaction
  BY <1>1, <1>2, HandTyped
<1>4. fifo' \in Seq(Answer) /\ faults' \in 0..MaxFaults /\ heeded' \cup misled' \subseteq Mark
  <2>1. << >> \in Seq(Answer) /\ fifo \in Seq(Answer)
    BY DEF TypeInv, LineTyped
  <2>2. CASE MdReceive
    <3>1. fifo' = << >> /\ faults' = faults
      BY <2>2 DEF MdReceive
    <3>2. heeded' \subseteq heeded \cup {m} /\ misled' \subseteq misled \cup {m}
      BY <1>2, <2>2 DEF MdReceive
    <3> QED
      BY <1>3, <2>1, <3>1, <3>2 DEF TypeInv, LineTyped, HistoryTyped
  <2>3. CASE MdTimeout \/ MdError
    <3>1. fifo' = fifo /\ heeded' = heeded /\ misled' = misled
      BY <2>3 DEF MdTimeout, MdError, history
    <3>2. faults' = faults \/ Fault("late") \/ Fault("ioerror")
      BY <2>3 DEF MdTimeout, MdError
    <3> QED
      BY <2>1, <3>1, <3>2, FaultTyped DEF TypeInv, HistoryTyped
  <2> QED
    BY <2>2, <2>3
<1>5. 0 \in Word /\ 1 \in Word /\ Garbage \subseteq Word
  BY SlaveAssumption, TableWords
<1>6. ASSUME NEW n, WriteDone(n), CurPlan[k].fn = WRITE_REGISTER PROVE TypeInv'
  BY <1>1, <1>4, <1>6, WriteDoneTyped
<1>7. ASSUME NEW results \in SUBSET Word, ReadDone(results), CurPlan[k].fn # WRITE_REGISTER
      PROVE  TypeInv'
  BY <1>1, <1>4, <1>7, ReadDoneTyped
<1>8. ASSUME NEW rs \in Seq(Answer) PROVE ReadResults(rs) \subseteq Word
  <2>1. CASE Accepts(rs)
    <3>1. rs[1] \in Answer
      <4>1. Len(rs) = 1
        BY <2>1 DEF Accepts
      <4>2. 1 \in 1..Len(rs)
        BY <4>1
      <4> QED
        BY <4>2, ElementOfSeq
    <3>2. rs[1].val \in Word
      BY <3>1 DEF Answer
    <3> QED
      BY <2>1, <3>2 DEF ReadResults
  <2>2. CASE ~Accepts(rs)
    BY <1>5, <2>2 DEF ReadResults
  <2> QED
    BY <2>1, <2>2
<1>9. CASE MdReceive
  <2>1. fifo \in Seq(Answer)
    BY DEF TypeInv, LineTyped
  <2>2. ReadResults(fifo) \in SUBSET Word
    BY <1>8, <2>1
  <2>3. CASE CurPlan[k].fn = WRITE_REGISTER
    BY <1>6, <1>9, <2>3 DEF MdReceive
  <2>4. CASE CurPlan[k].fn # WRITE_REGISTER
    <3>1. ReadDone(ReadResults(fifo))
      BY <1>9, <2>4 DEF MdReceive
    <3> QED
      BY <1>7, <2>2, <2>4, <3>1
  <2> QED
    BY <2>3, <2>4
<1>10. CASE MdTimeout
  <2>1. << >> \in Seq(Answer)
    OBVIOUS
  <2>2. ReadResults(<< >>) \in SUBSET Word
    BY <1>8, <2>1
  <2>3. CASE CurPlan[k].fn = WRITE_REGISTER
    BY <1>6, <1>10, <2>3 DEF MdTimeout
  <2>4. CASE CurPlan[k].fn # WRITE_REGISTER
    <3>1. ReadDone(ReadResults(<< >>))
      BY <1>10, <2>4 DEF MdTimeout
    <3> QED
      BY <1>7, <2>2, <2>4, <3>1
  <2> QED
    BY <2>3, <2>4
<1>11. CASE MdError
  <2>1. {0} \in SUBSET Word /\ {1} \in SUBSET Word
    BY <1>5
  <2>2. CASE CurPlan[k].fn = WRITE_REGISTER
    <3>1. WriteDone(-1)
      BY <1>11, <2>2 DEF MdError, WRITE_REGISTER, READ_REGISTERS
    <3> QED
      BY <1>6, <2>2, <3>1
  <2>3. CASE CurPlan[k].fn # WRITE_REGISTER
    <3>1. ReadDone({0}) \/ ReadDone({1})
      BY <1>11, <2>3 DEF MdError
    <3> QED
      BY <1>7, <2>1, <2>3, <3>1
  <2> QED
    BY <2>2, <2>3
<1> QED
  BY <1>9, <1>10, <1>11

LEMMA MdReplyTyped ==
  ASSUME OrderInv, TraceInv, TypeInv, MdReply
  PROVE  TypeInv'
<1>1. /\ pc = "reply" /\ MidRequest /\ Idle
      /\ UNCHANGED << boot, beat, rxq, sending, wire, fifo, pos, faults, history >>
  BY DEF MdReply, MidRequest
<1>2. txq' \in Seq(Message)
  <2>1. txq \in Seq(Message)
    BY DEF TypeInv, QueuesTyped
  <2>2. CASE IsReg6000(cur.frame)
    BY <2>1, <2>2 DEF MdReply
  <2>3. CASE ~IsReg6000(cur.frame)
    <3>1. /\ cur.id \in Nat /\ cur.frame \in CanData /\ k \in 1..Len(CurPlan) /\ k \in Nat
          /\ vals \in Seq(Word) /\ k = Len(CurPlan)
      BY <1>1, HandTyped DEF TypeInv, ThreadsTyped, TraceInv, HandTraced, CurPlan
    <3>2. ReplyFrame(cur.frame, vals) \in CanData
      <4>1. CASE IsLsWrite(cur.frame)
        BY <3>1, <4>1, ReplyHeader
      <4>2. CASE ~IsLsWrite(cur.frame)
        <5>1. CurPlan[k].fn # WRITE_REGISTER
          BY <2>3, <3>1, <4>2, ReadPlans DEF CurPlan
        <5>2. Len(vals) = k
          BY <1>1, <5>1 DEF TypeInv, ValsCounted
        <5>3. Len(vals) >= 1 /\ (IsLsRead(cur.frame) /\ cur.frame.index = 5 => Len(vals) = 2)
          BY <3>1, <5>2, ReadPlans DEF CurPlan
        <5> QED
          BY <3>1, <4>2, <5>3, ReplyTyped
      <4> QED
        BY <4>1, <4>2
    <3>3. [src |-> "modbus", seq |-> cur.id, frame |-> ReplyFrame(cur.frame, vals)] \in Message
      BY <3>1, <3>2 DEF Message
    <3> QED
      BY <2>1, <2>3, <3>3, SentTyped DEF MdReply
  <2> QED
    BY <2>2, <2>3
<1>3. pc' = "poll" /\ cur' = NoRequest /\ k' = 0 /\ vals' = << >> /\ << >> \in Seq(Word)
  BY <1>1 DEF Idle
<1> QED
  BY <1>1, <1>2, <1>3 DEF TypeInv, QueuesTyped, LineTyped, ThreadsTyped, HistoryTyped,
                          ValsCounted, MidRequest, history

LEMMA TypeStep == OrderInv /\ TraceInv /\ TypeInv /\ [Next]_vars => TypeInv'
<1> SUFFICES ASSUME OrderInv, TraceInv, TypeInv, [Next]_vars PROVE TypeInv'
  OBVIOUS
<1>1. CASE Main
  BY <1>1, MainTyped
<1>2. CASE CanRx
  BY <1>2, CanRxTyped DEF CanRx
<1>3. CASE CanTx
  BY <1>3, CanTxTyped
<1>4. CASE Md
  BY <1>4, MdTakeTyped, MdSendTyped, MdEndTyped, MdReplyTyped DEF Md
<1>5. CASE Slave
  BY <1>5, SlaveTyped
<1>6. CASE Noise \/ Move
  BY <1>6, NoiseTyped, MoveTyped
<1>7. CASE UNCHANGED vars
  BY <1>7 DEF TypeInv, QueuesTyped, LineTyped, ThreadsTyped, HistoryTyped, ValsCounted,
              MidRequest, CurPlan, vars, mdVars, history
<1> QED
  BY <1>1, <1>2, <1>3, <1>4, <1>5, <1>6, <1>7 DEF Next

(* Every variable of the application stays within its type: the request in *)
(* hand is one that was received, a reply is a CAN frame whose data are    *)
(* words (the outcome of a read, which may be a failed one's), and no      *)
(* table names a register, function or slave out of range.                 *)
THEOREM TypeCorrect == Spec => []TypeOK
  BY TypeInit, TypeStep, Traced, TypeParts, PTL DEF Spec

-----------------------------------------------------------------------------
(* What a register may read: a half of a position the motor has held, or   *)
(* the status word.  The words read for a request are faithful when each   *)
(* that came with its own answer is one its register may read.             *)

Values(r) == CASE r = PositionLo -> {p % 65536 : p \in Held}
               [] r = PositionHi -> {(p \div 65536) % 65536 : p \in Held}
               [] OTHER          -> {Status}

Faithful(id, ws) ==
  \A j \in 1..Len(ws) : [id |-> id, k |-> j] \in heeded \ misled =>
                          ws[j] \in Values(Plan(got[id])[j].reg)

PositionGrows == pos \in Nat /\ pos >= Pos0

FifoHonest == \A a \in Range(fifo) : a.kind = "ok" => a.val \in Values(Trans(a.m).reg)

(* A request whose words are still to be read has none marked as heeded.   *)
HeededBefore ==
  \A m \in heeded :
    /\ m.id \in 1..Len(got)
    /\ \A i \in 1..Len(rxq) : m.id < rxq[i].id
    /\ MidRequest => m.id < cur.id \/ (m.id = cur.id /\ m.k <= Len(vals))

HandHonest == MidRequest => Faithful(cur.id, vals)

FaithfulReply(m) ==
  IsLsRead(got[m.seq]) =>
    \E ws : /\ Len(ws) = Len(Plan(got[m.seq])) /\ m.frame = ReplyFrame(got[m.seq], ws)
            /\ Faithful(m.seq, ws)

RepliesHonest == \A m \in Produced : m.src = "modbus" => FaithfulReply(m)

HonestInv == PositionGrows /\ FifoHonest /\ HeededBefore /\ HandHonest /\ RepliesHonest

LEMMA HonestInit == Init => HonestInv
<1> SUFFICES ASSUME Init PROVE HonestInv
  OBVIOUS
<1>1. /\ bus = << >> /\ txq = << >> /\ sending = << >> /\ fifo = << >>
      /\ heeded = {} /\ pc = "off" /\ pos = Pos0
  BY DEF Init
<1>2. Range(<< >>) = {}
  BY DEF Range
<1>3. Produced = {} /\ ~MidRequest
  BY <1>1, <1>2 DEF Produced, InWrite, MidRequest
<1>4. PositionGrows
  BY <1>1, SlaveAssumption DEF PositionGrows
<1> QED
  BY <1>1, <1>2, <1>3, <1>4 DEF HonestInv, FifoHonest, HeededBefore, HandHonest, RepliesHonest

(* The motor moves on, and the positions it has held stay held.            *)
LEMMA ValuesStay ==
  ASSUME pos \in Int, pos' \in Int, pos' >= pos, NEW r
  PROVE  Values(r) \subseteq Values(r)'
<1>1. \A p \in Held : p \in Held'
  BY SlaveAssumption DEF Held
<1> DEFINE lo(p) == p % 65536
           hi(p) == (p \div 65536) % 65536
<1>2. /\ Values(r) = CASE r = PositionLo -> {lo(p) : p \in Held}
                       [] r = PositionHi -> {hi(p) : p \in Held}
                       [] OTHER          -> {Status}
      /\ Values(r)' = CASE r = PositionLo -> {lo(p) : p \in Held'}
                        [] r = PositionHi -> {hi(p) : p \in Held'}
                        [] OTHER          -> {Status}
  BY DEF Values
<1> HIDE DEF lo, hi
<1> QED
  BY <1>1, <1>2

LEMMA FaithfulStays ==
  ASSUME Grows, pos \in Int, pos' \in Int, pos' >= pos,
         NEW id \in 1..Len(got), NEW ws, Faithful(id, ws),
         \A j \in 1..Len(ws) : [id |-> id, k |-> j] \in heeded' => [id |-> id, k |-> j] \in heeded
  PROVE  Faithful(id, ws)'
<1>1. got'[id] = got[id] /\ misled \subseteq misled'
  BY DEF Grows
<1>2. ASSUME NEW j \in 1..Len(ws), [id |-> id, k |-> j] \in heeded' \ misled'
      PROVE  (ws[j] \in Values(Plan(got[id])[j].reg))'
  <2>1. ws[j] \in Values(Plan(got[id])[j].reg)
    BY <1>1, <1>2 DEF Faithful
  <2>2. PICK r : r = Plan(got[id])[j].reg
    OBVIOUS
  <2>3. ws[j] \in Values(r)'
    BY <2>1, <2>2, ValuesStay
  <2> QED
    BY <1>1, <2>2, <2>3
<1> QED
  BY <1>2 DEF Faithful

LEMMA FaithfulReplyStays ==
  ASSUME Grows, pos \in Int, pos' \in Int, pos' >= pos,
         NEW m, m.seq \in 1..Len(got), FaithfulReply(m),
         \A h \in heeded' : h.id = m.seq => h \in heeded
  PROVE  FaithfulReply(m)'
<1> SUFFICES ASSUME IsLsRead(got'[m.seq])
             PROVE  \E ws : /\ Len(ws) = Len(Plan(got'[m.seq]))
                            /\ m.frame = ReplyFrame(got'[m.seq], ws)
                            /\ Faithful(m.seq, ws)'
  BY DEF FaithfulReply
<1>1. got'[m.seq] = got[m.seq]
  BY DEF Grows
<1>2. PICK ws : /\ Len(ws) = Len(Plan(got[m.seq])) /\ m.frame = ReplyFrame(got[m.seq], ws)
                /\ Faithful(m.seq, ws)
  BY <1>1 DEF FaithfulReply
<1>3. \A j : [id |-> m.seq, k |-> j] \in heeded' => [id |-> m.seq, k |-> j] \in heeded
  <2>1. \A j : [id |-> m.seq, k |-> j].id = m.seq
    OBVIOUS
  <2> QED
    BY <2>1
<1>4. Faithful(m.seq, ws)'
  BY <1>2, <1>3, FaithfulStays
<1> QED
  BY <1>1, <1>2, <1>4

(* Only md_m_send's own reply is a new one.                                *)
LEMMA NoOtherReply ==
  ASSUME OrderInv, [Next]_vars, ~MdReply
  PROVE  \A m \in Produced' : m.src = "modbus" => m \in Produced
<1>1. CASE MainBeat
  <2>1. PICK junk \in Garbage : txq' = MqSend(txq, TxCap, Heartbeat(beat', junk))
    BY <1>1 DEF MainBeat
  <2>2. PICK b : b = Heartbeat(beat', junk)
    OBVIOUS
  <2>3. b.src = "main" /\ UNCHANGED << bus, sending >>
    BY <1>1, <2>2 DEF Heartbeat, MainBeat, history
  <2>4. Range(txq') \subseteq Range(txq) \cup {b}
    <3>1. IsSeq(txq)
      BY DEF OrderInv, Shapes
    <3> QED
      BY <2>1, <2>2, <3>1, AppendIsSeq DEF MqSend
  <2> QED
    BY <2>3, <2>4 DEF Produced, InWrite
<1>2. CASE TxTake
  <2>1. /\ IsSeq(txq) /\ txq # << >> /\ txq' = Tail(txq) /\ sending' = << Head(txq) >>
        /\ bus' = bus
    BY <1>2 DEF TxTake, OrderInv, Shapes, history
  <2>2. Range(txq') \subseteq Range(txq) /\ Head(txq) \in Range(txq)
    BY <2>1, TailIsSeq
  <2>3. InWrite' = {Head(txq)}
    BY <2>1 DEF InWrite, Range
  <2> QED
    BY <2>1, <2>2, <2>3 DEF Produced
<1>3. ASSUME NEW sent \in BOOLEAN, TxWrite(sent) PROVE Produced' \subseteq Produced
  <2>1. /\ sending # << >> /\ sending' = << >> /\ txq' = txq
        /\ bus' = bus \/ bus' = bus \o sending
    BY <1>3 DEF TxWrite
  <2>2. InWrite = {sending[1]} /\ sending = << sending[1] >> /\ InWrite' = {} /\ IsSeq(bus)
    BY <2>1, Written DEF OrderInv, Shapes, InWrite, Range
  <2>3. /\ Range(Append(bus, sending[1])) = Range(bus) \cup {sending[1]}
        /\ Append(bus, sending[1]) = bus \o << sending[1] >>
    BY <2>2, AppendIsSeq
  <2>4. Range(bus') \subseteq Range(bus) \cup InWrite
    BY <2>1, <2>2, <2>3
  <2> QED
    BY <2>1, <2>2, <2>4 DEF Produced
<1>4. ASSUME UNCHANGED << bus, txq, sending >> PROVE Produced' = Produced
  BY <1>4 DEF Produced, InWrite
<1>5. CASE \/ \E c \in BOOLEAN : MainModbusInit(c)
           \/ CanRx \/ MdTake \/ MdSend \/ MdReceive \/ MdTimeout \/ MdError
           \/ Slave \/ Noise \/ Move \/ UNCHANGED vars
  <2>1. UNCHANGED << bus, txq, sending >>
    BY <1>5 DEF MainModbusInit, CanRx, CanRxFrame, MdTake, MdSend, MdReceive, MdTimeout, MdError,
                Slave, Serve, Lose, Noise, Move, vars, history
  <2> QED
    BY <1>4, <2>1
<1> QED
  BY <1>1, <1>2, <1>3, <1>5 DEF Next, Main, CanTx, Md

(* The line: what a slave reads is what the register holds.                *)
LEMMA SlaveHonest ==
  ASSUME OrderInv, TraceInv, TypeInv, HonestInv, Slave
  PROVE  FifoHonest'
<1>1. PICK q : q = Head(wire)
  OBVIOUS
<1>2. wire # << >> /\ IsSeq(wire) /\ IsSeq(fifo)
  BY DEF Slave, Serve, Lose, TraceInv, TraceShapes
<1>3. q.t = Trans(q.m)
  <2>1. q \in Range(wire)
    BY <1>1, <1>2, TailIsSeq
  <2> QED
    BY <2>1 DEF TraceInv, WireTraced
<1>4. UNCHANGED << got, pos >>
  BY DEF Slave, Serve, Lose
<1>5. FifoHonest' <=> \A a \in Range(fifo') : a.kind = "ok" => a.val \in Values(Trans(a.m).reg)
  <2>1. ASSUME NEW m PROVE (Values(Trans(m).reg))' = Values(Trans(m).reg)
    BY <1>4 DEF Trans, Values, Held
  <2> QED
    BY <2>1 DEF FifoHonest
<1>6. ASSUME NEW executed \in BOOLEAN, Lose(executed) PROVE FifoHonest'
  BY <1>5, <1>6 DEF Lose, HonestInv, FifoHonest
<1>7. ASSUME NEW kind \in {"ok", "exception", "garbled", "garbledRefusal"}, Serve(kind)
      PROVE  FifoHonest'
  <2>1. PICK v : v = RegVal(q.t.reg)
    OBVIOUS
  <2>2. PICK a : a = [m |-> q.m, fn |-> q.t.fn, slave |-> q.t.slave, kind |-> kind, val |-> v]
    OBVIOUS
  <2>3. a.m = q.m /\ a.val = v /\ fifo' = Append(fifo, a)
    BY <1>1, <1>7, <2>1, <2>2 DEF Serve
  <2>4. Range(fifo') = Range(fifo) \cup {a}
    BY <1>2, <2>3, AppendIsSeq
  <2>5. pos \in Held
    BY SlaveAssumption DEF Held, HonestInv, PositionGrows
  <2>6. v \in Values(q.t.reg)
    <3>1. CASE q.t.reg = PositionLo
      BY <2>1, <2>5, <3>1 DEF RegVal, Values
    <3>2. CASE q.t.reg = PositionHi
      BY <2>1, <2>5, <3>2 DEF RegVal, Values, PositionLo, PositionHi
    <3>3. CASE q.t.reg \notin {PositionLo, PositionHi}
      BY <2>1, <3>3 DEF RegVal, Values
    <3> QED
      BY <3>1, <3>2, <3>3
  <2> QED
    BY <1>3, <1>5, <2>3, <2>4, <2>6 DEF HonestInv, FifoHonest
<1> QED
  BY <1>6, <1>7 DEF Slave

LEMMA FifoStaysHonest ==
  ASSUME Grows, pos \in Int, pos' \in Int, pos' >= pos, TraceInv, FifoHonest,
         Range(fifo') \subseteq Range(fifo)
  PROVE  FifoHonest'
<1>1. ASSUME NEW a \in Range(fifo'), a.kind = "ok"
      PROVE  (a.val \in Values(Trans(a.m).reg))'
  <2>1. a.val \in Values(Trans(a.m).reg) /\ AskedFor(a.m)
    BY <1>1 DEF FifoHonest, TraceInv, FifoTraced, AnswerTraced, NoiseBytes
  <2>2. Trans(a.m)' = Trans(a.m)
    BY <2>1, TracedStays
  <2>3. PICK r : r = Trans(a.m).reg
    OBVIOUS
  <2>4. a.val \in Values(r)'
    BY <2>1, <2>3, ValuesStay
  <2>5. (Trans(a.m).reg)' = r
    BY <2>2, <2>3
  <2> QED
    BY <2>4, <2>5
<1> QED
  BY <1>1 DEF FifoHonest

(* A step that takes no answer and reads no word.                          *)
LEMMA HonestKept ==
  ASSUME OrderInv, TraceInv, HonestInv, Grows, pos' \in Int, pos' >= pos, heeded' = heeded,
         \A m \in Produced' : m.src = "modbus" => m \in Produced,
         MidRequest' => MidRequest /\ cur' = cur /\ vals' = vals,
         FifoHonest',
         \A h \in heeded : \A i \in 1..Len(rxq') : h.id < rxq'[i].id
  PROVE  HonestInv'
<1>1. pos \in Int /\ pos' \in Nat /\ PositionGrows'
  BY SlaveAssumption DEF HonestInv, PositionGrows
<1>2. HeededBefore'
  BY DEF HonestInv, HeededBefore, Grows
<1>3. HandHonest'
  <2>1. SUFFICES ASSUME MidRequest' PROVE Faithful(cur.id, vals)'
    BY DEF HandHonest
  <2>2. PICK id, ws : id = cur.id /\ ws = vals
    OBVIOUS
  <2>3. MidRequest /\ cur'.id = id /\ vals' = ws
    BY <2>1, <2>2
  <2>4. id \in 1..Len(got) /\ Faithful(id, ws)
    BY <2>2, <2>3 DEF OrderInv, RequestsSorted, HonestInv, HandHonest
  <2>5. Faithful(id, ws)'
    BY <1>1, <2>4, FaithfulStays
  <2> QED
    BY <2>3, <2>5
<1>4. RepliesHonest'
  <2>1. ASSUME NEW m \in Produced', m.src = "modbus" PROVE FaithfulReply(m)'
    <3>1. m \in Produced
      BY <2>1
    <3>2. FaithfulReply(m) /\ m.seq \in 1..Len(got)
      BY <2>1, <3>1 DEF HonestInv, RepliesHonest, TraceInv, RepliesTraced, Answers
    <3> QED
      BY <1>1, <3>2, FaithfulReplyStays
  <2> QED
    BY <2>1 DEF RepliesHonest
<1> QED
  BY <1>1, <1>2, <1>3, <1>4 DEF HonestInv

LEMMA OutsideHonest ==
  ASSUME OrderInv, TraceInv, TypeInv, HonestInv,
         Main \/ CanTx \/ Slave \/ Noise \/ Move \/ MdSend
  PROVE  HonestInv'
<1>1. /\ UNCHANGED << rxq, got, heeded, misled >> /\ applied \subseteq applied'
      /\ MidRequest' => MidRequest /\ cur' = cur /\ vals' = vals
  <2>1. CASE Main
    BY <2>1 DEF Main, MainBeat, MainModbusInit, mdVars, history, MidRequest
  <2>2. CASE CanTx
    BY <2>2 DEF CanTx, TxTake, TxWrite, mdVars, history, MidRequest
  <2>3. CASE Slave
    BY <2>3 DEF Slave, Serve, Lose, mdVars, MidRequest, Executed
  <2>4. CASE Move
    BY <2>4 DEF Move, mdVars, history, MidRequest
  <2>5. CASE MdSend
    BY <2>5 DEF MdSend, MidRequest
  <2>6. CASE Noise
    BY <2>6 DEF Noise, mdVars, history, MidRequest
  <2> QED
    BY <2>1, <2>2, <2>3, <2>4, <2>5, <2>6
<1>2. pos \in Int /\ pos' \in Int /\ pos' >= pos
  <2>1. pos \in Nat
    BY DEF HonestInv, PositionGrows
  <2>2. pos' = pos \/ pos' = pos + 1
    BY DEF Main, MainBeat, MainModbusInit, CanTx, TxTake, TxWrite, Slave, Serve, Lose, Noise,
           Move, MdSend
  <2> QED
    BY <2>1, <2>2
<1>3. Grows
  BY <1>1, LenProperties DEF Grows, OrderInv, Shapes
<1>4. FifoHonest'
  <2>1. CASE Slave
    BY <2>1, SlaveHonest
  <2>2. CASE Noise
    <3>1. Range(fifo') = Range(fifo) \cup {NoiseBytes} /\ UNCHANGED << got, pos >>
      BY <2>2, AppendIsSeq DEF Noise, history, TraceInv, TraceShapes
    <3>2. ASSUME NEW m PROVE (Values(Trans(m).reg))' = Values(Trans(m).reg)
      BY <3>1 DEF Trans, Values, Held
    <3> QED
      BY <3>1, <3>2 DEF FifoHonest, HonestInv, NoiseBytes
  <2>3. CASE ~Slave /\ ~Noise
    <3>1. fifo' = fifo
      BY <2>3 DEF Main, MainBeat, MainModbusInit, CanTx, TxTake, TxWrite, Move, MdSend
    <3> QED
      BY <1>2, <1>3, <3>1, FifoStaysHonest DEF HonestInv
  <2> QED
    BY <2>1, <2>2, <2>3
<1>5. \A m \in Produced' : m.src = "modbus" => m \in Produced
  <2>1. pc' = pc \/ boot' # boot \/ pc = "send"
    BY DEF Main, MainBeat, MainModbusInit, CanTx, TxTake, TxWrite, Slave, Serve, Lose, Noise,
           Move, MdSend, mdVars
  <2>2. ~MdReply
    BY <2>1 DEF MdReply, Idle
  <2>3. [Next]_vars
    BY DEF Next, Md
  <2> QED
    BY <2>2, <2>3, NoOtherReply
<1>6. \A h \in heeded : \A i \in 1..Len(rxq') : h.id < rxq'[i].id
  BY <1>1 DEF HonestInv, HeededBefore
<1> QED
  BY <1>1, <1>2, <1>3, <1>4, <1>5, <1>6, HonestKept

LEMMA CanRxHonest ==
  ASSUME OrderInv, TraceInv, HonestInv, NEW f \in Frames, CanRxFrame(f)
  PROVE  HonestInv'
<1>1. /\ UNCHANGED << pc, cur, vals, fifo, pos, applied, heeded, misled >>
      /\ got' = Append(got, f) /\ got \in Seq(Frames)
  BY DEF CanRxFrame, mdVars, OrderInv, Shapes
<1>2. /\ Len(got) \in Nat /\ Len(got') = Len(got) + 1
      /\ \A i \in 1..Len(got) : got'[i] = got[i]
  BY <1>1, AppendProperties, LenProperties
<1>3. Grows
  BY <1>1, <1>2 DEF Grows
<1>4. pos \in Int /\ pos' \in Int /\ pos' >= pos
  BY <1>1 DEF HonestInv, PositionGrows
<1>5. FifoHonest'
  BY <1>1, <1>3, <1>4, FifoStaysHonest DEF HonestInv
<1>6. \A m \in Produced' : m.src = "modbus" => m \in Produced
  <2>1. UNCHANGED << bus, txq, sending >>
    BY DEF CanRxFrame
  <2> QED
    BY <2>1 DEF Produced, InWrite
<1>7. \A h \in heeded : \A i \in 1..Len(rxq') : h.id < rxq'[i].id
  <2>1. PICK r : r = [id |-> Len(got'), frame |-> f]
    OBVIOUS
  <2>2. r.id = Len(got) + 1
    BY <1>2, <2>1
  <2>3. IsSeq(rxq) /\ \A h \in heeded : h.id \in 1..Len(got) /\ \A i \in 1..Len(rxq) : h.id < rxq[i].id
    BY DEF OrderInv, Shapes, HonestInv, HeededBefore
  <2>4. CASE rxq' = rxq
    BY <2>3, <2>4
  <2>5. CASE rxq' = Append(rxq, r)
    <3>1. /\ Len(rxq') = Len(rxq) + 1 /\ Len(rxq) \in Nat
          /\ \A i \in 1..Len(rxq) : rxq'[i] = rxq[i]
          /\ rxq'[Len(rxq) + 1] = r
      BY <2>3, <2>5, AppendIsSeq
    <3> QED
      BY <1>2, <2>2, <2>3, <3>1
  <2> QED
    BY <2>1, <2>4, <2>5 DEF CanRxFrame, MqSend
<1>8. MidRequest' => MidRequest /\ cur' = cur /\ vals' = vals
  BY <1>1 DEF MidRequest
<1> QED
  BY <1>1, <1>3, <1>4, <1>5, <1>6, <1>7, <1>8, HonestKept

(* md_m_send takes a request none of whose transactions has been heeded.   *)
LEMMA MdTakeHonest ==
  ASSUME OrderInv, TraceInv, HonestInv, MdTake
  PROVE  HonestInv'
<1>1. /\ rxq # << >> /\ rxq' = Tail(rxq) /\ pc = "poll" /\ IsSeq(rxq)
      /\ UNCHANGED << bus, txq, sending, fifo, pos, got, applied, heeded, misled >>
      /\ \/ pc' = pc
         \/ pc' = "send" /\ cur' = Head(rxq) /\ vals' = << >>
  BY DEF MdTake, mdVars, history, OrderInv, Shapes
<1>2. /\ Len(rxq) \in Nat /\ Len(rxq) >= 1 /\ Len(rxq') = Len(rxq) - 1
      /\ \A i \in 1..Len(rxq') : rxq'[i] = rxq[i + 1] /\ i + 1 \in 1..Len(rxq)
      /\ Head(rxq) = rxq[1] /\ 1 \in 1..Len(rxq)
  <2>1. /\ Len(rxq) \in Nat /\ Len(rxq) >= 1 /\ Len(rxq') = Len(rxq) - 1
        /\ \A i \in 1..Len(rxq') : rxq'[i] = rxq[i + 1]
        /\ Head(rxq) = rxq[1]
    BY <1>1, TailIsSeq
  <2> QED
    BY <2>1
<1>3. Grows
  BY <1>1, LenProperties DEF Grows, OrderInv, Shapes
<1>4. pos \in Int /\ pos' \in Int /\ pos' >= pos /\ PositionGrows'
  BY <1>1 DEF HonestInv, PositionGrows
<1>5. FifoHonest'
  BY <1>1, <1>3, <1>4, FifoStaysHonest DEF HonestInv
<1>6. \A h \in heeded : h.id \in 1..Len(got) /\ \A i \in 1..Len(rxq) : h.id < rxq[i].id
  BY DEF HonestInv, HeededBefore
<1>7. HeededBefore'
  <2>1. \A h \in heeded : \A i \in 1..Len(rxq') : h.id < rxq'[i].id
    BY <1>2, <1>6
  <2>2. MidRequest' => \A h \in heeded : h.id < cur'.id
    BY <1>1, <1>2, <1>6 DEF MidRequest
  <2> QED
    BY <1>1, <1>6, <2>1, <2>2 DEF HeededBefore
<1>8. HandHonest'
  <2>1. MidRequest' => vals' = << >>
    BY <1>1 DEF MidRequest
  <2>2. 1..Len(<< >>) = {}
    OBVIOUS
  <2> QED
    BY <2>1, <2>2 DEF HandHonest, Faithful
<1>9. RepliesHonest'
  <2>1. ASSUME NEW m \in Produced', m.src = "modbus" PROVE FaithfulReply(m)'
    <3>1. m \in Produced
      BY <1>1 DEF Produced, InWrite
    <3>2. FaithfulReply(m) /\ m.seq \in 1..Len(got)
      BY <2>1, <3>1 DEF HonestInv, RepliesHonest, TraceInv, RepliesTraced, Answers
    <3> QED
      BY <1>1, <1>3, <1>4, <3>2, FaithfulReplyStays
  <2> QED
    BY <2>1 DEF RepliesHonest
<1> QED
  BY <1>4, <1>5, <1>7, <1>8, <1>9 DEF HonestInv

(* A read ends with a word, its own answer's or not.                       *)
LEMMA ReadDoneHonest ==
  ASSUME OrderInv, TraceInv, TypeInv, HonestInv, pc = "await", NEW v, vals' = Append(vals, v),
         Advance, CurPlan[k].fn # WRITE_REGISTER,
         UNCHANGED << bus, txq, rxq, sending, got, pos, applied >>, misled \subseteq misled',
         FifoHonest',
         NEW mark, mark = [id |-> cur.id, k |-> k],
         heeded' = heeded \/ (heeded' = heeded \cup {mark} /\
                              (mark \notin misled' => v \in Values(CurPlan[k].reg)))
  PROVE  HonestInv'
<1>1. /\ MidRequest /\ cur.id \in 1..Len(got) /\ cur.id \in Nat /\ k \in Nat /\ k >= 1
      /\ cur.frame = got[cur.id] /\ mark.id = cur.id /\ mark.k = k
      /\ cur' = cur
  BY HandTyped DEF MidRequest, TraceInv, HandTraced, Advance
<1>2. /\ Len(vals) = k - 1 /\ Len(vals') = k /\ vals'[k] = v
      /\ \A j \in 1..(k - 1) : vals'[j] = vals[j]
  <2>1. IsSeq(vals) /\ Len(vals) = k - 1
    BY <1>1, SeqIsSeq DEF TypeInv, ThreadsTyped, ValsCounted
  <2>2. /\ Len(vals') = Len(vals) + 1 /\ vals'[Len(vals) + 1] = v
        /\ \A j \in 1..Len(vals) : vals'[j] = vals[j]
    BY <2>1, AppendIsSeq
  <2>3. Len(vals) + 1 = k
    BY <1>1, <2>1
  <2> QED
    BY <2>1, <2>2, <2>3
<1>3. Grows
  BY LenProperties DEF Grows, OrderInv, Shapes
<1>4. pos \in Int /\ pos' \in Int /\ pos' >= pos /\ PositionGrows'
  BY DEF HonestInv, PositionGrows
<1>5. \A h \in heeded : /\ h.id \in 1..Len(got) /\ \A i \in 1..Len(rxq) : h.id < rxq[i].id
                        /\ h.id < cur.id \/ (h.id = cur.id /\ h.k <= k - 1)
  BY <1>1, <1>2 DEF HonestInv, HeededBefore
<1>6. HeededBefore'
  <2>1. ASSUME NEW h \in heeded'
        PROVE  /\ h.id \in 1..Len(got) /\ \A i \in 1..Len(rxq) : h.id < rxq[i].id
               /\ h.id < cur.id \/ (h.id = cur.id /\ h.k <= k)
    <3>1. CASE h \in heeded
      <4>1. h \in Mark /\ h.k \in Int
        BY <3>1 DEF TypeInv, HistoryTyped, Mark
      <4> QED
        BY <1>1, <1>5, <3>1, <4>1
    <3>2. CASE h = mark
      BY <1>1, <3>2 DEF OrderInv, RequestsSorted
    <3> QED
      BY <2>1, <3>1, <3>2
  <2> QED
    BY <1>1, <1>2, <2>1 DEF HeededBefore
<1>7. HandHonest'
  <2>1. ASSUME NEW j \in 1..k, [id |-> cur.id, k |-> j] \in heeded' \ misled'
        PROVE  vals'[j] \in Values(CurPlan[j].reg)
    <3>1. CASE j = k
      <4>1. mark \notin heeded
        <5>1. ~(k <= k - 1) /\ ~(cur.id < cur.id)
          BY <1>1
        <5> QED
          BY <1>1, <1>5, <5>1
      <4> QED
        BY <1>2, <2>1, <3>1, <4>1
    <3>2. CASE j # k
      <4>1. j \in 1..(k - 1) /\ vals'[j] = vals[j] /\ j \in 1..Len(vals)
        BY <1>1, <1>2, <3>2
      <4>2. [id |-> cur.id, k |-> j] \in heeded \ misled
        <5>1. [id |-> cur.id, k |-> j].k = j
          OBVIOUS
        <5> QED
          BY <1>1, <2>1, <3>2, <5>1
      <4> QED
        BY <1>1, <4>1, <4>2 DEF HonestInv, HandHonest, Faithful, CurPlan
    <3> QED
      BY <3>1, <3>2
  <2>2. \A j : (Values(Plan(got[cur.id])[j].reg))' = Values(CurPlan[j].reg)
    BY <1>1 DEF Values, Held, CurPlan
  <2>3. \A j \in 1..k : [id |-> cur'.id, k |-> j] \in heeded' \ misled' =>
                          vals'[j] \in (Values(Plan(got[cur.id])[j].reg))'
    BY <1>1, <2>1, <2>2
  <2>4. Faithful(cur.id, vals)'
    BY <1>2, <2>3 DEF Faithful
  <2> QED
    BY <2>4 DEF HandHonest
<1>8. RepliesHonest'
  <2>1. ASSUME NEW m \in Produced', m.src = "modbus" PROVE FaithfulReply(m)'
    <3>1. m \in Produced
      BY DEF Produced, InWrite
    <3>2. FaithfulReply(m) /\ m.seq \in 1..Len(got) /\ m.seq < cur.id
      BY <1>1, <2>1, <3>1 DEF HonestInv, RepliesHonest, TraceInv, RepliesTraced, Answers,
                              OrderInv, RepliesBefore
    <3>3. m.seq # cur.id
      BY <1>1, <3>2
    <3>4. \A h \in heeded' : h.id = m.seq => h \in heeded
      BY <1>1, <3>3
    <3> QED
      BY <1>3, <1>4, <3>2, <3>4, FaithfulReplyStays
  <2> QED
    BY <2>1 DEF RepliesHonest
<1> QED
  BY <1>4, <1>6, <1>7, <1>8 DEF HonestInv

LEMMA MdEndHonest ==
  ASSUME OrderInv, TraceInv, TypeInv, HonestInv, MdReceive \/ MdTimeout \/ MdError
  PROVE  HonestInv'
<1>1. /\ pc = "await" /\ MidRequest /\ misled \subseteq misled'
      /\ UNCHANGED << bus, txq, rxq, sending, wire, got, pos, applied >>
      /\ fifo' = fifo \/ fifo' = << >>
  BY DEF MdReceive, MdTimeout, MdError, MidRequest, history
<1>2. Grows
  BY <1>1, LenProperties DEF Grows, OrderInv, Shapes
<1>3. pos \in Int /\ pos' \in Int /\ pos' >= pos
  BY <1>1 DEF HonestInv, PositionGrows
<1>4. FifoHonest'
  <2>1. Range(<< >>) = {}
    BY DEF Range
  <2>2. Range(fifo') \subseteq Range(fifo)
    BY <1>1, <2>1
  <2> QED
    BY <1>2, <1>3, <2>2, FifoStaysHonest DEF HonestInv
<1>5. CASE CurPlan[k].fn = WRITE_REGISTER
  <2>1. heeded' = heeded
    BY <1>5 DEF MdReceive, MdTimeout, MdError, Accepts, history
  <2>2. \/ Advance /\ vals' = vals
        \/ Idle
    BY <1>5 DEF MdReceive, MdTimeout, MdError, WriteDone, WRITE_REGISTER, READ_REGISTERS
  <2>3. MidRequest' => MidRequest /\ cur' = cur /\ vals' = vals
    BY <1>1, <2>2 DEF Advance, Idle, MidRequest
  <2>4. \A m \in Produced' : m.src = "modbus" => m \in Produced
    BY <1>1 DEF Produced, InWrite
  <2>5. \A h \in heeded : \A i \in 1..Len(rxq') : h.id < rxq'[i].id
    BY <1>1 DEF HonestInv, HeededBefore
  <2> QED
    BY <1>2, <1>3, <1>4, <2>1, <2>3, <2>4, <2>5, HonestKept
<1>6. CASE CurPlan[k].fn # WRITE_REGISTER
  <2>1. PICK mark : mark = [id |-> cur.id, k |-> k]
    OBVIOUS
  <2>2. CASE MdTimeout \/ MdError
    <3>1. PICK v : vals' = Append(vals, v) /\ Advance
      BY <1>6, <2>2 DEF MdTimeout, MdError, ReadDone
    <3>2. heeded' = heeded
      BY <2>2 DEF MdTimeout, MdError, history
    <3> QED
      BY <1>1, <1>4, <1>6, <2>1, <3>1, <3>2, ReadDoneHonest
  <2>3. CASE MdReceive
    <3>1. PICK v \in ReadResults(fifo) : vals' = Append(vals, v) /\ Advance
      BY <1>6, <2>3 DEF MdReceive, ReadDone
    <3>2. CASE ~Accepts(fifo)
      <4>1. heeded' = heeded
        BY <2>3, <3>2 DEF MdReceive
      <4> QED
        BY <1>1, <1>4, <1>6, <2>1, <3>1, <4>1, ReadDoneHonest
    <3>3. CASE Accepts(fifo)
      <4>1. heeded' = heeded \cup {mark} /\ (Deceptive(fifo) => mark \in misled')
        BY <2>1, <2>3, <3>3 DEF MdReceive
      <4>2. v = fifo[1].val /\ Len(fifo) = 1 /\ fifo[1].kind = "ok"
        BY <3>1, <3>3 DEF ReadResults, Accepts
      <4>3. 1 \in 1..Len(fifo) /\ fifo[1] \in Range(fifo)
        <5>1. 1 \in 1..Len(fifo)
          BY <4>2
        <5> QED
          BY <5>1, AppendIsSeq DEF TraceInv, TraceShapes
      <4>4. mark \notin misled' => v \in Values(CurPlan[k].reg)
        <5>1. SUFFICES ASSUME ~Deceptive(fifo) PROVE v \in Values(CurPlan[k].reg)
          BY <4>1
        <5>2. fifo[1].m = mark
          BY <2>1, <3>3, <4>3, <5>1 DEF Deceptive
        <5>3. v \in Values(Trans(mark).reg)
          BY <4>2, <4>3, <5>2 DEF HonestInv, FifoHonest
        <5>4. mark.id = cur.id /\ mark.k = k /\ cur.frame = got[cur.id]
          BY <1>1, <2>1 DEF TraceInv, HandTraced
        <5> QED
          BY <5>3, <5>4 DEF Trans, CurPlan
      <4> QED
        BY <1>1, <1>4, <1>6, <2>1, <3>1, <4>1, <4>4, ReadDoneHonest
    <3> QED
      BY <3>2, <3>3
  <2> QED
    BY <2>2, <2>3
<1> QED
  BY <1>5, <1>6

(* The reply is built from the words read.                                 *)
LEMMA MdReplyHonest ==
  ASSUME OrderInv, TraceInv, TypeInv, HonestInv, MdReply
  PROVE  HonestInv'
<1>1. /\ pc = "reply" /\ MidRequest /\ ~MidRequest'
      /\ UNCHANGED << bus, rxq, sending, fifo, pos, got, applied, heeded, misled >>
  BY DEF MdReply, MidRequest, Idle, history
<1>2. Grows
  BY <1>1, LenProperties DEF Grows, OrderInv, Shapes
<1>3. pos \in Int /\ pos' \in Int /\ pos' >= pos /\ PositionGrows'
  BY <1>1 DEF HonestInv, PositionGrows
<1>4. FifoHonest'
  BY <1>1, <1>2, <1>3, FifoStaysHonest DEF HonestInv
<1>5. HeededBefore' /\ HandHonest'
  BY <1>1 DEF HonestInv, HeededBefore, HandHonest
<1>6. PICK r : r = [src |-> "modbus", seq |-> cur.id, frame |-> ReplyFrame(cur.frame, vals)]
  OBVIOUS
<1>7. r.seq = cur.id /\ r.frame = ReplyFrame(cur.frame, vals)
  BY <1>6
<1>8. Produced' \subseteq Produced \cup {r}
  <2>1. IsSeq(txq)
    BY DEF OrderInv, Shapes
  <2>2. txq' = txq \/ txq' = Append(txq, r)
    BY <1>6 DEF MdReply, MqSend
  <2>3. Range(txq') \subseteq Range(txq) \cup {r}
    BY <2>1, <2>2, AppendIsSeq
  <2> QED
    BY <1>1, <2>3 DEF Produced, InWrite
<1>9. FaithfulReply(r) /\ r.seq \in 1..Len(got)
  <2>1. /\ cur.id \in 1..Len(got) /\ cur.frame = got[cur.id] /\ k = Len(Plan(cur.frame))
        /\ k \in 1..Len(Plan(cur.frame))
    BY <1>1, HandTyped DEF TraceInv, HandTraced
  <2>2. IsLsRead(cur.frame) => Len(vals) = k
    <3>1. IsLsRead(cur.frame) => ~IsLsWrite(cur.frame) /\ ~IsReg6000(cur.frame)
      BY DEF IsLsRead, IsLsWrite, IsReg6000
    <3> QED
      BY <1>1, <2>1, <3>1, ReadPlans DEF TypeInv, ValsCounted, CurPlan
  <2>3. Faithful(cur.id, vals)
    BY <1>1 DEF HonestInv, HandHonest
  <2> QED
    BY <1>7, <2>1, <2>2, <2>3 DEF FaithfulReply
<1>10. RepliesHonest'
  <2>1. ASSUME NEW m \in Produced', m.src = "modbus" PROVE FaithfulReply(m)'
    <3>1. FaithfulReply(m) /\ m.seq \in 1..Len(got)
      BY <1>8, <1>9, <2>1 DEF HonestInv, RepliesHonest, TraceInv, RepliesTraced, Answers
    <3> QED
      BY <1>1, <1>2, <1>3, <3>1, FaithfulReplyStays
  <2> QED
    BY <2>1 DEF RepliesHonest
<1> QED
  BY <1>3, <1>4, <1>5, <1>10 DEF HonestInv

LEMMA HonestStep == OrderInv /\ TraceInv /\ TypeInv /\ HonestInv /\ [Next]_vars => HonestInv'
<1> SUFFICES ASSUME OrderInv, TraceInv, TypeInv, HonestInv, [Next]_vars PROVE HonestInv'
  OBVIOUS
<1>1. CASE Main \/ CanTx \/ Slave \/ Noise \/ Move
  BY <1>1, OutsideHonest
<1>2. CASE CanRx
  BY <1>2, CanRxHonest DEF CanRx
<1>3. CASE Md
  BY <1>3, MdTakeHonest, OutsideHonest, MdEndHonest, MdReplyHonest DEF Md
<1>4. CASE UNCHANGED vars
  <2>1. /\ UNCHANGED << bus, txq, rxq, sending, pc, cur, vals, fifo, pos, got, applied, heeded,
                        misled >>
    BY <1>4 DEF vars, mdVars, history
  <2>2. Grows
    BY <2>1, LenProperties DEF Grows, OrderInv, Shapes
  <2>3. pos \in Int /\ pos' \in Int /\ pos' >= pos
    BY <2>1 DEF HonestInv, PositionGrows
  <2>4. FifoHonest'
    BY <2>1, <2>2, <2>3, FifoStaysHonest DEF HonestInv
  <2>5. \A m \in Produced' : m.src = "modbus" => m \in Produced
    BY <2>1 DEF Produced, InWrite
  <2>6. \A h \in heeded : \A i \in 1..Len(rxq') : h.id < rxq'[i].id
    BY <2>1 DEF HonestInv, HeededBefore
  <2>7. MidRequest' => MidRequest /\ cur' = cur /\ vals' = vals
    BY <2>1 DEF MidRequest
  <2> QED
    BY <2>1, <2>2, <2>3, <2>4, <2>5, <2>6, <2>7, HonestKept
<1> QED
  BY <1>1, <1>2, <1>3, <1>4 DEF Next

LEMMA WordsReported ==
  ASSUME NEW f \in CanData, IsLsRead(f), NEW ws
  PROVE  LET d == ReplyFrame(f, ws).data
         IN  /\ f.index = 5 => d[1] = ws[1] /\ d[2] = ws[2]
             /\ f.index = 8 => d = << ws[1] % 4096, 0 >>
             /\ f.index \notin {5, 8} => d = << ws[1], 0 >>
<1>1. ~IsLsWrite(f)
  BY DEF IsLsRead, IsLsWrite
<1>2. \A d : [f EXCEPT !.data = d].data = d
  BY DEF CanData
<1>3. CASE f.index = 5
  <2>1. PICK d : d = << ws[1], ws[2] >>
    OBVIOUS
  <2>2. ReplyFrame(f, ws) = [f EXCEPT !.data = d]
    BY <1>1, <1>3, <2>1 DEF ReplyFrame
  <2>3. ReplyFrame(f, ws).data = d
    BY <1>2, <2>2
  <2> QED
    BY <1>3, <2>1, <2>3
<1>4. CASE f.index = 8
  <2> DEFINE d == << ws[1] % 4096, 0 >>
  <2>1. ReplyFrame(f, ws) = [f EXCEPT !.data = d]
    BY <1>1, <1>4 DEF ReplyFrame
  <2> HIDE DEF d
  <2>2. ReplyFrame(f, ws).data = d
    BY <1>2, <2>1
  <2> QED
    BY <1>4, <2>2 DEF d
<1>5. CASE f.index \notin {5, 8}
  <2>1. PICK d : d = << ws[1], 0 >>
    OBVIOUS
  <2>2. ReplyFrame(f, ws) = [f EXCEPT !.data = d]
    BY <1>1, <1>5, <2>1 DEF ReplyFrame
  <2>3. ReplyFrame(f, ws).data = d
    BY <1>2, <2>2
  <2> QED
    BY <1>5, <2>1, <2>3
<1> QED
  BY <1>3, <1>4, <1>5

(* A read all of whose transactions took their own answers reports what    *)
(* the registers hold, and halves of positions the motor has held.         *)
THEOREM ReadsAreHonest == Spec => []ReadsHonest
<1>1. OrderInv /\ TraceInv /\ TypeInv /\ HonestInv => ReadsHonest
  <2> SUFFICES ASSUME OrderInv, TraceInv, TypeInv, HonestInv,
                      NEW m \in Replies, IsLsRead(m.frame), Answered(m)
               PROVE  CASE m.frame.index = 5 ->
                             /\ Lo(m.frame) \in {p % 65536 : p \in Held}
                             /\ Hi(m.frame) \in {(p \div 65536) % 65536 : p \in Held}
                        [] m.frame.index = 8 -> m.frame.data = << Status % 4096, 0 >>
                        [] OTHER             -> m.frame.data = << Status, 0 >>
    BY DEF ReadsHonest
  <2>1. m \in Produced /\ m.src = "modbus"
    BY OutgoingProduced DEF Replies
  <2>2. PICK f : f = got[m.seq]
    OBVIOUS
  <2>3. /\ m.seq \in 1..Len(got) /\ Plan(f) # << >>
        /\ m.frame.type = f.type /\ m.frame.addr = f.addr
        /\ m.frame.index = f.index /\ m.frame.flag = f.flag
    BY <2>1, <2>2 DEF TraceInv, RepliesTraced, Answers
  <2>4. f \in CanData /\ IsLsRead(f)
    <3>1. f \in CanData
      BY <2>2, <2>3, FramesAssumption, ElementOfSeq DEF TypeInv, HistoryTyped
    <3> QED
      BY <2>3, <3>1 DEF IsLsRead
  <2>5. PICK ws : /\ Len(ws) = Len(Plan(f)) /\ m.frame = ReplyFrame(f, ws)
                  /\ Faithful(m.seq, ws)
    BY <2>1, <2>2, <2>4 DEF HonestInv, RepliesHonest, FaithfulReply
  <2>6. Plan(f) = LsReads(f) /\ Plan(m.frame) = LsReads(f)
    <3>1. \A g : IsLsRead(g) => ~IsReg6000(g) /\ ~IsLsWrite(g) /\ ~IsPowerRead(g)
      BY DEF IsLsRead, IsReg6000, IsLsWrite, IsPowerRead, MSG_MODBUS_MOTOR_REG6000,
             MSG_LS_CHAIN_CTRL, MSG_MODBUS_POWER_READ_VOLTAGE, MSG_MODBUS_POWER_READ_CURRENT,
             MSG_MODBUS_POWER_READ_POWER
    <3>2. Plan(f) = LsReads(f) /\ Plan(m.frame) = LsReads(m.frame)
      BY <2>4, <3>1 DEF Plan
    <3>3. LsReads(m.frame) = LsReads(f)
      BY <2>3 DEF LsReads
    <3> QED
      BY <3>2, <3>3
  <2>7. \A j \in 1..Len(Plan(f)) : ws[j] \in Values(Plan(f)[j].reg)
    BY <2>2, <2>5, <2>6 DEF Answered, Faithful
  <2>8. CASE f.index = 5
    <3>1. /\ Len(Plan(f)) = 2 /\ Plan(f)[1].reg = PositionLo /\ Plan(f)[2].reg = PositionHi
      BY <2>6, <2>8 DEF LsReads, Read
    <3>2. ws[1] \in Values(PositionLo) /\ ws[2] \in Values(PositionHi)
      BY <2>7, <3>1
    <3>3. /\ ws[1] \in {p % 65536 : p \in Held}
          /\ ws[2] \in {(p \div 65536) % 65536 : p \in Held}
      BY <3>2 DEF Values, PositionLo, PositionHi
    <3>4. Lo(m.frame) = ws[1] /\ Hi(m.frame) = ws[2]
      BY <2>4, <2>5, <2>8, WordsReported DEF Lo, Hi
    <3> QED
      BY <2>3, <2>8, <3>3, <3>4
  <2>9. CASE f.index # 5
    <3>1. f.index \in {6, 7, 8}
      BY <2>3, <2>6, <2>9 DEF LsReads
    <3>2. Len(Plan(f)) = 1 /\ Plan(f)[1].reg \notin {PositionLo, PositionHi}
      BY <2>6, <3>1 DEF LsReads, Read, PositionLo, PositionHi
    <3>3. ws[1] = Status
      BY <2>7, <3>2 DEF Values
    <3>4. CASE f.index = 8
      BY <2>3, <2>4, <2>5, <3>3, <3>4, WordsReported
    <3>5. CASE f.index # 8
      BY <2>3, <2>4, <2>5, <2>9, <3>3, <3>5, WordsReported
    <3> QED
      BY <3>4, <3>5
  <2> QED
    BY <2>8, <2>9
<1>2. Spec => [](OrderInv /\ TraceInv /\ TypeInv /\ HonestInv)
  BY TypeInit, TypeStep, HonestInit, HonestStep, OrderInit, OrderStep, TraceInit, TraceStep,
     PTL DEF Spec
<1> QED
  BY <1>1, <1>2, PTL
=============================================================================
