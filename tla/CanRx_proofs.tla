---------------------------- MODULE CanRx_proofs ----------------------------
(***************************************************************************)
(* Proofs about the receive path of the CAN device, for every number of    *)
(* message nodes, every depth of the controller's FIFO and every number of *)
(* frames: every node is in exactly one place, and the reader is never     *)
(* left asleep with frames to read.                                        *)
(***************************************************************************)
EXTENDS CanRx, SeqLemmas, FiniteSetTheorems

(* A frame number, a box count and a counter are numbers.                  *)
LEMMA Constants == SemMax \in Nat /\ HwDepth \in Nat \ {0} /\ MaxFrames \in Nat
  BY SemAssumption, HwAssumption

(* The buffer is not empty, and the semaphore can count its nodes.         *)
LEMMA Boxes ==
  ASSUME nodes \in Buffers
  PROVE  Box \in Nat \ {0} /\ Box <= SemMax /\ NoNode \notin nodes
<1>1. IsFiniteSet(nodes) /\ nodes # {} /\ NoNode \notin nodes /\ Box <= SemMax
  BY BuffersAssumption DEF Box
<1> QED
  BY <1>1, FS_CardinalityType, FS_EmptySet DEF Box

(* No step changes it.                                                     *)
LEMMA SameBuffer == [Next]_vars => nodes' = nodes /\ Box' = Box
  BY DEF Next, Isr, Start, Thread, Arrive, RxIsr, RxIsrOverrun, SetIndicate, StartThread,
         SemTake, ReadPop, ReadCopy, ReadGiveBack, Filter, vars, Box

-----------------------------------------------------------------------------
(* Type correctness.                                                       *)

(* What the interrupt handler does to the types.                           *)
LEMMA StoreType ==
  ASSUME TypeOK, NEW f \in Frame, NEW lost \in {0, 1},
         StoreFree(f, lost) \/ StoreOldest(f, lost) \/ StoreNowhere(lost)
  PROVE  /\ freelist' \in Seq(nodes) /\ uselist' \in Seq(nodes)
         /\ freenumbers' \in Int /\ data' \in [nodes -> Frame] /\ dropedrcvpkg' \in Nat
<1>1. CASE StoreFree(f, lost)
  <2>1. Head(freelist) \in nodes /\ Tail(freelist) \in Seq(nodes)
    BY <1>1, HeadTailProperties DEF StoreFree, TypeOK
  <2> QED
    BY <1>1, <2>1, AppendProperties DEF StoreFree, TypeOK
<1>2. CASE StoreOldest(f, lost)
  <2>1. Head(uselist) \in nodes /\ Tail(uselist) \in Seq(nodes)
    BY <1>2, HeadTailProperties DEF StoreOldest, TypeOK
  <2> QED
    BY <1>2, <2>1, AppendProperties DEF StoreOldest, TypeOK
<1>3. CASE StoreNowhere(lost)
  BY <1>3 DEF StoreNowhere, TypeOK
<1> QED
  BY <1>1, <1>2, <1>3

LEMMA IndicateType ==
  ASSUME TypeOK, Indicate
  PROVE  /\ unannounced' \in Nat /\ sem' \in 0..SemMax
         /\ pc' \in {"take", "blocked", "read", "copy", "giveback", "queue"}
<1>1. CASE boot # "opened" /\ uselist' # << >>
  BY <1>1, Constants DEF Indicate, Release, TypeOK
<1>2. CASE ~(boot # "opened" /\ uselist' # << >>)
  BY <1>2, Constants DEF Indicate, TypeOK
<1> QED
  BY <1>1, <1>2

LEMMA HwCanIsrType ==
  ASSUME TypeOK, NEW lost \in {0, 1}, HwCanIsr(lost)
  PROVE  /\ hw' \in Seq(Frame) /\ Len(hw') <= HwDepth
         /\ freelist' \in Seq(nodes) /\ uselist' \in Seq(nodes)
         /\ freenumbers' \in Int /\ data' \in [nodes -> Frame]
         /\ held' \in nodes \cup {NoNode}
         /\ dropedrcvpkg' \in Nat /\ unannounced' \in Nat /\ sem' \in 0..SemMax
         /\ pc' \in {"take", "blocked", "read", "copy", "giveback", "queue"}
<1>1. CASE NothingReceived(lost)
  BY <1>1 DEF NothingReceived, TypeOK, fifoVars
<1>2. CASE Received(lost)
  <2>1. /\ Head(hw) \in Frame /\ Tail(hw) \in Seq(Frame)
        /\ Len(Tail(hw)) = Len(hw) - 1 /\ Len(hw) \in Nat
    BY <1>2, HeadTailProperties, LenProperties DEF Received, TypeOK
  <2>2. hw' \in Seq(Frame) /\ Len(hw') <= HwDepth /\ held' \in nodes \cup {NoNode}
    BY <1>2, <2>1, Constants DEF Received, TypeOK
  <2> QED
    BY <1>2, <2>1, <2>2, StoreType, IndicateType DEF Received
<1> QED
  BY <1>1, <1>2 DEF HwCanIsr

(* It does not change what the reader holds, nor wake a reader that is     *)
(* copying.                                                                *)
LEMMA HwCanIsrReader ==
  ASSUME TypeOK, ReaderHolds, NEW lost \in {0, 1}, HwCanIsr(lost)
  PROVE  held' = held /\ ReaderHolds'
<1>1. CASE NothingReceived(lost)
  BY <1>1 DEF NothingReceived, ReaderHolds, fifoVars
<1>2. CASE Received(lost)
  BY <1>2 DEF Received, Indicate, Release, ReaderHolds
<1> QED
  BY <1>1, <1>2 DEF HwCanIsr

(* TypeOK alone is not inductive: the reader copies from the node it       *)
(* holds.                                                                  *)
TypeInv == TypeOK /\ ReaderHolds

LEMMA TypeInit == Init => TypeInv
<1> SUFFICES ASSUME Init PROVE TypeInv
  OBVIOUS
<1>1. freelist \in Seq(nodes)
  BY Boxes DEF Init, Bijection, Injection
<1>2. << >> \in Seq(nodes) /\ << >> \in Seq(Frame) /\ Len(<< >>) = 0
  BY EmptySeq
<1>3. 0 \in Frame /\ [n \in nodes |-> 0] \in [nodes -> Frame]
  BY Constants DEF Frame
<1>4. /\ hw \in Seq(Frame) /\ uselist \in Seq(nodes) /\ out \in Seq(Frame)
      /\ Len(hw) <= HwDepth
  BY <1>2, Constants DEF Init
<1>5. /\ freenumbers \in Int /\ data \in [nodes -> Frame] /\ held \in nodes \cup {NoNode}
      /\ sem \in 0..SemMax /\ rxmsg \in Frame
      /\ heard \in Nat /\ dropedrcvpkg \in Nat /\ unannounced \in Nat
  BY <1>3, Constants, Boxes DEF Init
<1>6. /\ nodes \in Buffers /\ boot \in {"opened", "indicate", "run"}
      /\ overrun \in BOOLEAN /\ isr \in {"idle", "overrun"}
      /\ pc \in {"take", "blocked", "read", "copy", "giveback", "queue"}
      /\ ReaderHolds
  BY DEF Init, ReaderHolds
<1> QED
  BY <1>1, <1>4, <1>5, <1>6 DEF TypeInv, TypeOK

LEMMA TypeStep == TypeInv /\ [Next]_vars => TypeInv'
<1> SUFFICES ASSUME TypeOK, ReaderHolds, [Next]_vars PROVE TypeOK' /\ ReaderHolds'
  BY DEF TypeInv
<1>0. nodes' = nodes
  BY SameBuffer
<1>1. CASE Arrive
  <2>1. heard' \in Frame /\ heard' \in Nat /\ Len(hw) \in Nat
    BY <1>1, Constants, LenProperties DEF Arrive, TypeOK, Frame
  <2>2. hw' \in Seq(Frame) /\ Len(hw') <= HwDepth /\ overrun' \in BOOLEAN
    <3>1. CASE Len(hw) < HwDepth
      <4>1. Append(hw, heard') \in Seq(Frame) /\ Len(Append(hw, heard')) = Len(hw) + 1
        BY <2>1, AppendProperties DEF TypeOK
      <4>2. hw' = Append(hw, heard') /\ overrun' = overrun
        BY <1>1, <3>1 DEF Arrive
      <4> QED
        BY <2>1, <3>1, <4>1, <4>2, Constants DEF TypeOK
    <3>2. CASE ~(Len(hw) < HwDepth)
      <4>1. HwDepth \in 1..Len(hw)
        BY <2>1, <3>2, Constants DEF TypeOK
      <4>2. /\ [hw EXCEPT ![HwDepth] = heard'] \in Seq(Frame)
            /\ Len([hw EXCEPT ![HwDepth] = heard']) = Len(hw)
        BY <2>1, <4>1, ExceptSeq DEF TypeOK
      <4>3. hw' = [hw EXCEPT ![HwDepth] = heard'] /\ overrun' = TRUE
        BY <1>1, <3>2 DEF Arrive
      <4> QED
        BY <4>2, <4>3 DEF TypeOK
    <3> QED
      BY <3>1, <3>2
  <2> QED
    BY <1>1, <2>1, <2>2 DEF Arrive, TypeOK, ReaderHolds, fifoVars
<1>2. CASE RxIsr
  BY <1>0, <1>2, HwCanIsrType, HwCanIsrReader DEF RxIsr, TypeOK
<1>3. CASE RxIsrOverrun
  BY <1>0, <1>3, HwCanIsrType, HwCanIsrReader DEF RxIsrOverrun, TypeOK
<1>4. CASE SetIndicate
  BY <1>4 DEF SetIndicate, TypeOK, ReaderHolds, fifoVars, hwVars
<1>5. CASE StartThread
  BY <1>5 DEF StartThread, TypeOK, ReaderHolds, fifoVars, hwVars
<1>6. CASE SemTake
  BY <1>6, Constants DEF SemTake, TypeOK, ReaderHolds, fifoVars, hwVars
<1>7. CASE ReadPop
  <2>1. uselist # << >> => Head(uselist) \in nodes /\ Tail(uselist) \in Seq(nodes)
    BY HeadTailProperties DEF TypeOK
  <2> QED
    BY <1>7, <2>1, Boxes DEF ReadPop, TypeOK, ReaderHolds, hwVars
<1>8. CASE ReadCopy
  <2>1. held \in nodes
    BY <1>8 DEF ReadCopy, TypeOK, ReaderHolds
  <2>2. data[held] \in Frame
    BY <2>1 DEF TypeOK
  <2> QED
    BY <1>8, <2>1, <2>2 DEF ReadCopy, TypeOK, ReaderHolds, fifoVars, hwVars
<1>9. CASE ReadGiveBack
  <2>1. held \in nodes
    BY <1>9 DEF ReadGiveBack, TypeOK, ReaderHolds
  <2> QED
    BY <1>9, <2>1, AppendProperties DEF ReadGiveBack, TypeOK, ReaderHolds, hwVars
<1>10. CASE Filter
  BY <1>10, AppendProperties DEF Filter, TypeOK, ReaderHolds, fifoVars, hwVars
<1>11. CASE UNCHANGED vars
  BY <1>11 DEF vars, hwVars, fifoVars, TypeOK, ReaderHolds
<1> QED
  BY <1>1, <1>2, <1>3, <1>4, <1>5, <1>6, <1>7, <1>8, <1>9, <1>10, <1>11
     DEF Next, Isr, Start, Thread

(* Every variable stays within its type.                                   *)
THEOREM TypeCorrect == Spec => []TypeOK
<1>1. TypeInv => TypeOK
  BY DEF TypeInv
<1> QED
  BY <1>1, TypeInit, TypeStep, PTL DEF Spec
-----------------------------------------------------------------------------
(* Every node is in exactly one place.                                     *)

(* The nodes add up, so that freenumbers stays below their number.         *)
NodesAddUp ==
  Len(freelist) + Len(uselist) + (IF held = NoNode THEN 0 ELSE 1) = Box

NodesInv == NodesConserved /\ NodesAddUp

LEMMA NodesInit == Init => NodesInv
<1> SUFFICES ASSUME Init PROVE NodesInv
  OBVIOUS
<1>1. /\ freelist \in Seq(nodes) /\ Len(freelist) = Box /\ IsInjective(freelist)
      /\ DOMAIN freelist = 1..Box
  BY Boxes, LenProperties DEF Init, Bijection, Injection
<1>2. Range(freelist) = nodes
  <2>1. Range(freelist) \subseteq nodes
    BY <1>1, InRange
  <2>2. ASSUME NEW n \in nodes PROVE n \in Range(freelist)
    <3>1. PICK i \in 1..Box : freelist[i] = n
      BY DEF Init, Bijection, Surjection
    <3> QED
      BY <3>1, <1>1 DEF Range
  <2> QED
    BY <2>1, <2>2
<1>3. uselist = << >> /\ Len(uselist) = 0 /\ DOMAIN uselist = {}
  BY DEF Init
<1>4. Range(uselist) = {} /\ IsInjective(uselist)
  BY <1>3 DEF Range, IsInjective
<1>5. /\ held = NoNode /\ pc = "take" /\ freenumbers = Box
      /\ Box \in Nat /\ NoNode \notin nodes
  BY Boxes DEF Init
<1> QED
  BY <1>1, <1>2, <1>3, <1>4, <1>5 DEF NodesInv, NodesConserved, NodesAddUp, ReaderHolds

(* The interrupt moves a node from the head of one list to the tail of     *)
(* uselist.                                                                *)
LEMMA StoreNodes ==
  ASSUME TypeOK, NodesInv, NEW f \in Frame, NEW lost \in {0, 1},
         StoreFree(f, lost) \/ StoreOldest(f, lost) \/ StoreNowhere(lost),
         held' = held, ReaderHolds', nodes' = nodes, Box' = Box
  PROVE  NodesInv'
<1>0. /\ nodes' = nodes /\ Box' = Box
      /\ Box \in Nat \ {0} /\ Box <= SemMax /\ NoNode \notin nodes
  BY Boxes DEF TypeOK
<1>1. CASE StoreFree(f, lost)
  <2> DEFINE n == Head(freelist)
  <2>1. /\ freelist # << >> /\ freelist' = Tail(freelist)
        /\ uselist' = Append(uselist, n) /\ freenumbers' = freenumbers - 1
    BY <1>1 DEF StoreFree
  <2>2. /\ n \in nodes /\ Tail(freelist) \in Seq(nodes)
        /\ Len(freelist') = Len(freelist) - 1 /\ Len(freelist) \in Nat
    BY <2>1, HeadTailProperties, LenProperties DEF TypeOK
  <2>3. Len(uselist') = Len(uselist) + 1 /\ Len(uselist) \in Nat
    BY <2>1, <2>2, AppendProperties, LenProperties DEF TypeOK
  <2>4. /\ n \in Range(freelist) /\ Range(freelist) = Range(freelist') \cup {n}
        /\ IsInjective(freelist') /\ n \notin Range(freelist')
    BY <2>1, TailRange DEF TypeOK, NodesInv, NodesConserved
  <2>5. n \notin Range(uselist) /\ n # held
    BY <2>4 DEF NodesInv, NodesConserved
  <2>6. Range(uselist') = Range(uselist) \cup {n} /\ IsInjective(uselist')
    BY <2>1, <2>2, <2>5, AppendRange DEF TypeOK, NodesInv, NodesConserved
  <2> HIDE DEF n
  <2>7. NodesAddUp'
    BY <1>1, <2>2, <2>3, <1>0 DEF NodesInv, NodesAddUp
  <2>8. freenumbers' = Len(freelist') /\ freenumbers' <= Box
    BY <2>1, <2>2, <1>0 DEF NodesInv, NodesConserved
  <2>9. /\ Range(freelist') \cap Range(uselist') = {}
        /\ held' \notin Range(freelist') /\ held' \notin Range(uselist')
        /\ Range(freelist') \cup Range(uselist') \cup {held'} = nodes \cup {held'}
    BY <1>0, <2>4, <2>5, <2>6 DEF NodesInv, NodesConserved
  <2> QED
    BY <2>4, <2>6, <2>7, <2>8, <2>9 DEF NodesInv, NodesConserved
<1>2. CASE StoreOldest(f, lost)
  <2> DEFINE n == Head(uselist)
             t == Tail(uselist)
  <2>1. /\ uselist # << >> /\ freelist' = freelist
        /\ uselist' = Append(t, n) /\ freenumbers' = freenumbers
    BY <1>2 DEF StoreOldest
  <2>2. n \in nodes /\ t \in Seq(nodes) /\ Len(t) = Len(uselist) - 1 /\ Len(uselist) \in Nat
    BY <2>1, HeadTailProperties, LenProperties DEF TypeOK
  <2>3. /\ n \in Range(uselist) /\ Range(uselist) = Range(t) \cup {n}
        /\ IsInjective(t) /\ n \notin Range(t)
    BY <2>1, TailRange DEF TypeOK, NodesInv, NodesConserved
  <2> HIDE DEF n, t
  <2>4. Range(uselist') = Range(uselist) /\ IsInjective(uselist')
    BY <2>1, <2>2, <2>3, AppendRange
  <2>5. Len(uselist') = Len(uselist)
    BY <2>1, <2>2, AppendProperties
  <2> QED
    BY <1>0, <2>1, <2>4, <2>5 DEF NodesInv, NodesConserved, NodesAddUp
<1>3. CASE StoreNowhere(lost)
  BY <1>0, <1>3 DEF StoreNowhere, NodesInv, NodesConserved, NodesAddUp
<1> QED
  BY <1>1, <1>2, <1>3

LEMMA HwCanIsrNodes ==
  ASSUME TypeOK, NodesInv, NEW lost \in {0, 1}, HwCanIsr(lost),
         nodes' = nodes, Box' = Box
  PROVE  NodesInv'
<1>0. /\ nodes' = nodes /\ Box' = Box
      /\ Box \in Nat \ {0} /\ Box <= SemMax /\ NoNode \notin nodes
  BY Boxes DEF TypeOK
<1>1. held' = held /\ ReaderHolds'
  BY HwCanIsrReader DEF NodesInv, NodesConserved
<1>2. CASE NothingReceived(lost)
  BY <1>0, <1>1, <1>2 DEF NothingReceived, fifoVars, NodesInv, NodesConserved, NodesAddUp
<1>3. CASE Received(lost)
  <2>1. Head(hw) \in Frame
    BY <1>3, HeadTailProperties DEF Received, TypeOK
  <2> QED
    BY <1>0, <1>1, <1>3, <2>1, StoreNodes DEF Received
<1> QED
  BY <1>2, <1>3 DEF HwCanIsr

LEMMA NodesStep == TypeOK /\ NodesInv /\ [Next]_vars => NodesInv'
<1> SUFFICES ASSUME TypeOK, NodesInv, [Next]_vars PROVE NodesInv'
  OBVIOUS
<1> USE DEF NodesInv
<1>0. /\ nodes' = nodes /\ Box' = Box
      /\ Box \in Nat \ {0} /\ Box <= SemMax /\ NoNode \notin nodes
  BY SameBuffer, Boxes DEF TypeOK
<1>1. CASE Arrive \/ SetIndicate \/ StartThread \/ ReadCopy \/ Filter \/ SemTake \/ UNCHANGED vars
  <2>1. UNCHANGED << freelist, uselist, freenumbers, held >> /\ ReaderHolds'
    BY <1>1 DEF Arrive, SetIndicate, StartThread, ReadCopy, Filter, SemTake, vars,
                fifoVars, NodesConserved, ReaderHolds
  <2> QED
    BY <1>0, <2>1 DEF NodesConserved, NodesAddUp
<1>2. CASE RxIsr \/ RxIsrOverrun
  BY <1>0, <1>2, HwCanIsrNodes DEF RxIsr, RxIsrOverrun
<1>3. CASE ReadPop
  <2>1. CASE uselist = << >>
    BY <1>0, <1>3, <2>1 DEF ReadPop, NodesConserved, NodesAddUp, ReaderHolds
  <2>2. CASE uselist # << >>
    <3>1. /\ held = NoNode /\ held' = Head(uselist) /\ uselist' = Tail(uselist)
          /\ freelist' = freelist /\ freenumbers' = freenumbers /\ pc' = "copy"
      BY <1>3, <2>2 DEF ReadPop, NodesConserved, ReaderHolds
    <3>2. /\ held' \in nodes /\ Len(uselist') = Len(uselist) - 1
          /\ Len(uselist) \in Nat /\ Len(freelist) \in Nat
      BY <2>2, <3>1, HeadTailProperties, LenProperties DEF TypeOK
    <3>3. /\ held' \in Range(uselist) /\ Range(uselist) = Range(uselist') \cup {held'}
          /\ IsInjective(uselist') /\ held' \notin Range(uselist')
      BY <2>2, <3>1, TailRange DEF TypeOK, NodesConserved
    <3>4. /\ Range(freelist') \cap Range(uselist') = {}
          /\ held' \notin Range(freelist')
          /\ Range(freelist') \cup Range(uselist') \cup {held'} = nodes \cup {held'}
      <4>1. Range(freelist) \subseteq nodes /\ Range(uselist) \subseteq nodes
        BY InRange DEF TypeOK
      <4> QED
        BY <3>1, <3>2, <3>3, <4>1, <1>0 DEF NodesConserved
    <3>5. ReaderHolds' /\ held' # NoNode
      BY <3>1, <3>2, <1>0 DEF ReaderHolds
    <3>6. NodesAddUp'
      <4>1. Len(freelist) + Len(uselist) = Box
        BY <3>1, <3>2, <1>0 DEF NodesAddUp
      <4>2. Len(freelist') + Len(uselist') + 1 = Box
        BY <3>1, <3>2, <4>1, <1>0
      <4> QED
        BY <1>0, <3>5, <4>2 DEF NodesAddUp
    <3> QED
      BY <1>0, <3>1, <3>3, <3>4, <3>5, <3>6 DEF NodesConserved
  <2> QED
    BY <2>1, <2>2
<1>4. CASE ReadGiveBack
  <2>1. /\ held \in nodes /\ held # NoNode /\ held' = NoNode /\ pc' = "queue"
        /\ freelist' = Append(freelist, held) /\ freenumbers' = freenumbers + 1
        /\ uselist' = uselist
    BY <1>4 DEF ReadGiveBack, TypeOK, NodesConserved, ReaderHolds
  <2>2. /\ Len(freelist') = Len(freelist) + 1
        /\ Len(freelist) \in Nat /\ Len(uselist) \in Nat
    BY <2>1, AppendProperties, LenProperties DEF TypeOK
  <2>3. Range(freelist') = Range(freelist) \cup {held} /\ IsInjective(freelist')
    BY <2>1, AppendRange DEF TypeOK, NodesConserved
  <2>4. Range(freelist) \subseteq nodes /\ Range(uselist) \subseteq nodes
    BY InRange DEF TypeOK
  <2>5. /\ Range(freelist') \cap Range(uselist') = {}
        /\ held' \notin Range(freelist') /\ held' \notin Range(uselist')
        /\ Range(freelist') \cup Range(uselist') \cup {held'} = nodes \cup {held'}
    BY <2>1, <2>3, <2>4, <1>0 DEF NodesConserved
  <2>6. ReaderHolds' /\ NodesAddUp' /\ freenumbers' = Len(freelist') /\ freenumbers' <= Box
    BY <2>1, <2>2, <1>0 DEF NodesConserved, ReaderHolds, NodesAddUp
  <2> QED
    BY <1>0, <2>1, <2>3, <2>5, <2>6 DEF NodesConserved
<1> QED
  BY <1>1, <1>2, <1>3, <1>4 DEF Next, Isr, Start, Thread

(* Every message node is in exactly one place, freelist, uselist or the    *)
(* reader's hands, and freenumbers counts the free ones, whatever          *)
(* interleaves with the reader's critical sections.                        *)
THEOREM NodesAreConserved == Spec => []NodesConserved
<1>1. NodesInv => NodesConserved
  BY DEF NodesInv
<1> QED
  BY <1>1, NodesInit, NodesStep, TypeCorrect, PTL DEF Spec
-----------------------------------------------------------------------------
(* No lost wake-up.                                                        *)

(* The tokens cover the frames in uselist: those of rx_sem, the one the    *)
(* reader has taken and not yet used, and those never given because the    *)
(* callback was not set.  The reader sleeps only without tokens.           *)
TokensCoverFrames ==
  /\ Len(uselist) <= sem + unannounced + (IF pc = "read" THEN 1 ELSE 0)
  /\ pc = "blocked" => sem = 0

(* The semaphore is never too small for the tokens: uselist is bounded by  *)
(* the number of nodes, and that by RT_SEM_VALUE_MAX.                      *)
LEMMA UselistFits == TypeOK /\ NodesInv => Len(uselist) \in 0..SemMax
  BY Constants, Boxes, LenProperties DEF TypeOK, NodesInv, NodesAddUp

LEMMA IndicateCovers ==
  ASSUME TypeOK, TokensCoverFrames, Indicate, Len(uselist') \in 0..SemMax,
         Len(uselist') <= Len(uselist) + (IF uselist' = << >> THEN 0 ELSE 1)
  PROVE  TokensCoverFrames'
<1>0. /\ Len(uselist) \in Nat /\ sem \in 0..SemMax /\ unannounced \in Nat
      /\ Len(uselist) <= sem + unannounced + (IF pc = "read" THEN 1 ELSE 0)
      /\ pc = "blocked" => sem = 0
  BY LenProperties DEF TypeOK, TokensCoverFrames
<1>1. CASE boot # "opened" /\ uselist' # << >>
  <2>1. Release /\ unannounced' = unannounced
    BY <1>1 DEF Indicate
  <2>2. CASE pc = "blocked"
    <3>1. pc' = "read" /\ sem' = sem
      BY <2>1, <2>2 DEF Release
    <3> QED
      BY <1>0, <2>1, <2>2, <3>1, Constants DEF TokensCoverFrames
  <2>3. CASE pc # "blocked"
    <3>1. pc' = pc /\ sem' = IF sem < SemMax THEN sem + 1 ELSE sem
      BY <2>1, <2>3 DEF Release
    <3> QED
      BY <1>0, <2>1, <2>3, <3>1, Constants DEF TokensCoverFrames
  <2> QED
    BY <2>2, <2>3
<1>2. CASE boot = "opened" /\ uselist' # << >>
  <2>1. sem' = sem /\ pc' = pc /\ unannounced' = unannounced + 1
    BY <1>2 DEF Indicate
  <2> QED
    BY <1>0, <2>1 DEF TokensCoverFrames
<1>3. CASE uselist' = << >>
  <2>1. sem' = sem /\ pc' = pc /\ unannounced' = unannounced
    BY <1>3 DEF Indicate
  <2> QED
    BY <1>0, <1>3, <2>1 DEF TokensCoverFrames
<1> QED
  BY <1>1, <1>2, <1>3

LEMMA HwCanIsrCovers ==
  ASSUME TypeOK, NodesInv, TokensCoverFrames, NEW lost \in {0, 1}, HwCanIsr(lost),
         nodes' = nodes, Box' = Box
  PROVE  TokensCoverFrames'
<1>0. /\ nodes' = nodes /\ Box' = Box
      /\ Box \in Nat \ {0} /\ Box <= SemMax /\ NoNode \notin nodes
  BY Boxes DEF TypeOK
<1>1. CASE NothingReceived(lost)
  BY <1>1 DEF NothingReceived, fifoVars, TokensCoverFrames
<1>2. CASE Received(lost)
  <2>1. Len(uselist') \in 0..SemMax
    <3>1. /\ Len(freelist') \in Nat /\ Len(uselist') \in Nat
          /\ Len(freelist') + Len(uselist') + (IF held' = NoNode THEN 0 ELSE 1) = Box
      BY <1>0, HwCanIsrType, HwCanIsrNodes, LenProperties DEF NodesInv, NodesAddUp
    <3> QED
      BY <1>0, <3>1, Constants
  <2>2. Len(uselist') <= Len(uselist) + (IF uselist' = << >> THEN 0 ELSE 1)
    <3>1. CASE StoreFree(Head(hw), lost)
      <4>1. Head(freelist) \in nodes
        BY <3>1, HeadTailProperties DEF StoreFree, TypeOK
      <4>2. Len(uselist') = Len(uselist) + 1 /\ uselist' # << >> /\ Len(uselist) \in Nat
        <5>1. uselist' = Append(uselist, Head(freelist)) /\ uselist \in Seq(nodes)
          BY <3>1 DEF StoreFree, TypeOK
        <5> QED
          BY <4>1, <5>1, AppendProperties, LenProperties
      <4> QED
        BY <4>2
    <3>2. CASE StoreOldest(Head(hw), lost)
      <4>1. /\ Head(uselist) \in nodes /\ Tail(uselist) \in Seq(nodes)
            /\ Len(Tail(uselist)) = Len(uselist) - 1 /\ Len(uselist) \in Nat
        BY <3>2, HeadTailProperties, LenProperties DEF StoreOldest, TypeOK
      <4>2. Len(uselist') = Len(uselist) /\ uselist' # << >>
        BY <3>2, <4>1, AppendProperties DEF StoreOldest
      <4> QED
        BY <4>1, <4>2
    <3>3. CASE StoreNowhere(lost)
      BY <3>3, EmptySeq DEF StoreNowhere
    <3> QED
      BY <1>2, <3>1, <3>2, <3>3 DEF Received
  <2> QED
    BY <1>2, <2>1, <2>2, IndicateCovers DEF Received
<1> QED
  BY <1>1, <1>2 DEF HwCanIsr

LEMMA TokensStep ==
  TypeOK /\ NodesInv /\ TokensCoverFrames /\ [Next]_vars => TokensCoverFrames'
<1> SUFFICES ASSUME TypeOK, NodesInv, TokensCoverFrames, [Next]_vars
             PROVE  TokensCoverFrames'
  OBVIOUS
<1>0. Len(uselist) \in Nat /\ sem \in 0..SemMax /\ unannounced \in Nat
  BY LenProperties DEF TypeOK
<1>1. CASE Arrive \/ SetIndicate \/ StartThread \/ UNCHANGED vars
  BY <1>1 DEF Arrive, SetIndicate, StartThread, vars, fifoVars, TokensCoverFrames
<1>2. CASE RxIsr \/ RxIsrOverrun
  BY <1>2, SameBuffer, HwCanIsrCovers DEF RxIsr, RxIsrOverrun
<1>3. CASE SemTake
  BY <1>0, <1>3, Constants DEF SemTake, fifoVars, TokensCoverFrames
<1>4. CASE ReadPop
  <2>1. uselist # << >> => Len(Tail(uselist)) = Len(uselist) - 1
    BY HeadTailProperties DEF TypeOK
  <2>2. uselist = << >> => Len(uselist) = 0
    BY EmptySeq
  <2> QED
    BY <1>0, <1>4, <2>1, <2>2 DEF ReadPop, TokensCoverFrames
<1>5. CASE ReadCopy \/ ReadGiveBack \/ Filter
  BY <1>0, <1>5 DEF ReadCopy, ReadGiveBack, Filter, fifoVars, TokensCoverFrames
<1> QED
  BY <1>1, <1>2, <1>3, <1>4, <1>5 DEF Next, Isr, Start, Thread

(* can_rx_thread is never asleep on rx_sem while uselist holds frames      *)
(* other than those that arrived before the callback was set: no           *)
(* interleaving of the interrupt with the thread loses a wake-up.          *)
THEOREM NoLostWakeup == Spec => []NoStranded
<1>1. Init => TokensCoverFrames
  BY EmptySeq DEF Init, TokensCoverFrames
<1>2. TypeOK /\ TokensCoverFrames => NoStranded
  BY LenProperties DEF TypeOK, TokensCoverFrames, NoStranded
<1>3. Spec => []NodesInv
  BY NodesInit, NodesStep, TypeCorrect, PTL DEF Spec
<1> QED
  BY <1>1, <1>2, <1>3, TokensStep, TypeCorrect, PTL DEF Spec

-----------------------------------------------------------------------------
(* The frames: they are queued in the order they arrived, and one that is  *)
(* lost shows in the counter of lost frames.                               *)

RxInv == TypeOK /\ NodesInv

LEMMA RxInvHolds == Spec => []RxInv
<1>1. Spec => []NodesInv
  BY NodesInit, NodesStep, TypeCorrect, PTL DEF Spec
<1> QED
  BY <1>1, TypeCorrect, PTL DEF RxInv

LEMMA Types ==
  ASSUME RxInv
  PROVE  /\ hw \in Seq(Frame) /\ uselist \in Seq(nodes) /\ freelist \in Seq(nodes)
         /\ data \in [nodes -> Frame] /\ out \in Seq(Frame) /\ rxmsg \in Frame
         /\ Len(hw) \in Nat /\ Len(uselist) \in Nat /\ Len(out) \in Nat
         /\ heard \in Nat /\ dropedrcvpkg \in Nat /\ sem \in Nat
         /\ \A i \in 1..Len(hw) : hw[i] \in Frame /\ hw[i] \in Int
         /\ \A i \in 1..Len(out) : out[i] \in Frame /\ out[i] \in Int
         /\ \A i \in 1..Len(uselist) : /\ uselist[i] \in nodes /\ uselist[i] \in Range(uselist)
                                       /\ data[uselist[i]] \in Int
         /\ Frame \subseteq Int
         /\ pc \in {"copy", "giveback"} => held \in nodes /\ held # NoNode /\ data[held] \in Int
<1>1. /\ hw \in Seq(Frame) /\ uselist \in Seq(nodes) /\ freelist \in Seq(nodes)
      /\ data \in [nodes -> Frame] /\ out \in Seq(Frame) /\ rxmsg \in Frame
      /\ heard \in Nat /\ dropedrcvpkg \in Nat /\ sem \in Nat
      /\ pc \in {"copy", "giveback"} => held \in nodes /\ held # NoNode
  BY Constants DEF RxInv, NodesInv, NodesConserved, ReaderHolds, TypeOK
<1>2. Len(hw) \in Nat /\ Len(uselist) \in Nat /\ Len(out) \in Nat
  BY <1>1, LenProperties
<1>3. Frame \subseteq Int
  BY Constants DEF Frame
<1>4. /\ \A i \in 1..Len(hw) : hw[i] \in Frame
      /\ \A i \in 1..Len(out) : out[i] \in Frame
      /\ \A i \in 1..Len(uselist) : uselist[i] \in nodes /\ uselist[i] \in Range(uselist)
  BY <1>1, ElementOfSeq, InRange
<1>5. \A n \in nodes : data[n] \in Int
  BY <1>1, <1>3
<1> QED
  BY <1>1, <1>2, <1>3, <1>4, <1>5

-----------------------------------------------------------------------------
(* What storing a frame does to the frames in uselist: it appends the new  *)
(* one, after removing the oldest when that one is overwritten, and leaves *)
(* the node in the reader's hands alone.                                   *)

Unread(i) == data[uselist[i]]

Shifted(f, s) ==
  /\ Len(uselist') = Len(uselist) + 1 - s
  /\ \A i \in 1..(Len(uselist') - 1) :
       i + s \in 1..Len(uselist) /\ data'[uselist'[i]] = Unread(i + s)
  /\ data'[uselist'[Len(uselist')]] = f

HeldKept == held \in nodes => data'[held] = data[held]

LEMMA StoreFreeShifts ==
  ASSUME RxInv, NEW f, NEW lost, StoreFree(f, lost)
  PROVE  Shifted(f, 0) /\ HeldKept
<1>1. PICK n : n = Head(freelist)
  OBVIOUS
<1>2. /\ freelist # << >> /\ freelist \in Seq(nodes) /\ uselist' = Append(uselist, n)
      /\ data' = [data EXCEPT ![n] = f]
  BY <1>1, Types DEF StoreFree
<1>3. n \in nodes /\ n \in Range(freelist)
  BY <1>1, <1>2, TailRange, HeadTailProperties
<1>4. n \notin Range(uselist) /\ n # held
  BY <1>3 DEF RxInv, NodesInv, NodesConserved
<1>5. /\ Len(uselist') = Len(uselist) + 1 /\ uselist'[Len(uselist) + 1] = n
      /\ \A i \in 1..Len(uselist) : uselist'[i] = uselist[i]
  BY <1>2, <1>3, Types, AppendProperties
<1>6. data'[n] = f /\ \A m \in nodes : m # n => data'[m] = data[m]
  BY <1>2, <1>3, Types
<1>7. \A i \in 1..Len(uselist) : data'[uselist'[i]] = data[uselist[i]]
  <2>1. \A i \in 1..Len(uselist) : uselist[i] \in nodes /\ uselist[i] # n
    BY <1>4, Types
  <2> QED
    BY <1>5, <1>6, <2>1
<1>8. Len(uselist) \in Nat
  BY Types
<1> QED
  BY <1>4, <1>5, <1>6, <1>7, <1>8 DEF Shifted, Unread, HeldKept

LEMMA StoreOldestShifts ==
  ASSUME RxInv, NEW f, NEW lost, StoreOldest(f, lost)
  PROVE  Shifted(f, 1) /\ HeldKept
<1>1. PICK n, t : n = Head(uselist) /\ t = Tail(uselist)
  OBVIOUS
<1>2. /\ uselist # << >> /\ uselist \in Seq(nodes) /\ uselist' = Append(t, n)
      /\ data' = [data EXCEPT ![n] = f]
  BY <1>1, Types DEF StoreOldest
<1>3. /\ n \in nodes /\ t \in Seq(nodes) /\ Len(t) = Len(uselist) - 1 /\ Len(uselist) \in Nat
      /\ \A i \in 1..Len(t) : t[i] = uselist[i + 1]
  <2>1. /\ n \in nodes /\ t \in Seq(nodes) /\ Len(t) = Len(uselist) - 1
        /\ \A i \in 1..Len(t) : t[i] = uselist[i + 1]
    BY <1>1, <1>2, HeadTailProperties
  <2> QED
    BY <2>1, Types
<1>4. n \in Range(uselist) /\ n \notin Range(t) /\ n # held
  BY <1>1, <1>2, TailRange DEF RxInv, NodesInv, NodesConserved
<1>5. /\ Len(uselist') = Len(t) + 1 /\ uselist'[Len(t) + 1] = n
      /\ \A i \in 1..Len(t) : uselist'[i] = t[i]
  BY <1>2, <1>3, AppendProperties
<1>6. data'[n] = f /\ \A m \in nodes : m # n => data'[m] = data[m]
  BY <1>2, <1>3, Types
<1>7. \A i \in 1..Len(t) : data'[uselist'[i]] = data[uselist[i + 1]] /\ i + 1 \in 1..Len(uselist)
  <2>1. \A i \in 1..Len(t) : t[i] \in nodes /\ t[i] # n
    BY <1>3, <1>4, InRange
  <2> QED
    BY <1>3, <1>5, <1>6, <2>1
<1> QED
  BY <1>3, <1>4, <1>5, <1>6, <1>7 DEF Shifted, Unread, HeldKept

-----------------------------------------------------------------------------
(* The order of the frames: those queued, the one the reader has read last *)
(* or is about to, those in uselist, those in the controller's FIFO.       *)

(* Frame x is older than all that wait to be read.                         *)
Older(x) ==
  /\ \A i \in 1..Len(uselist) : x < Unread(i)
  /\ \A j \in 1..Len(hw) : x < hw[j]
  /\ x <= heard

WaitingSorted ==
  /\ \A i, j \in 1..Len(uselist) : i < j => Unread(i) < Unread(j)
  /\ \A i \in 1..Len(uselist) : Unread(i) <= heard /\ \A j \in 1..Len(hw) : Unread(i) < hw[j]
  /\ \A i, j \in 1..Len(hw) : i < j => hw[i] < hw[j]
  /\ \A j \in 1..Len(hw) : hw[j] <= heard

ReadSorted ==
  /\ Older(rxmsg)
  /\ pc = "copy" => rxmsg < data[held] /\ Older(data[held])
  /\ \A i \in 1..Len(out) :
       /\ out[i] <= rxmsg
       /\ pc = "giveback" \/ (pc = "queue" /\ dropedrcvpkg = 0) => out[i] < rxmsg

(* Until a frame is overwritten, every token stands for a frame in uselist.*)
TokensAreFrames ==
  dropedrcvpkg = 0 => sem + (IF pc = "read" THEN 1 ELSE 0) <= Len(uselist)

FramesInv == WaitingSorted /\ ReadSorted /\ TokensAreFrames /\ QueuedInOrder

LEMMA FramesInit == Init => FramesInv
<1> SUFFICES ASSUME Init PROVE FramesInv
  OBVIOUS
<1>1. /\ uselist = << >> /\ hw = << >> /\ out = << >> /\ Len(<< >>) = 0 /\ 1..0 = {}
      /\ rxmsg = 0 /\ heard = 0 /\ pc = "take" /\ sem = 0
  BY DEF Init
<1>2. 0 <= 0 /\ 0 + 0 <= 0
  OBVIOUS
<1>3. WaitingSorted /\ ReadSorted /\ QueuedInOrder
  BY <1>1, <1>2 DEF WaitingSorted, ReadSorted, QueuedInOrder, Older
<1>4. TokensAreFrames
  BY <1>1 DEF TokensAreFrames
<1> QED
  BY <1>3, <1>4 DEF FramesInv

(* A frame arrives: it is newer than every other.                          *)
LEMMA ArriveOrder ==
  ASSUME RxInv, FramesInv, Arrive
  PROVE  FramesInv'
<1>1. /\ heard' = heard + 1 /\ heard \in Nat
      /\ UNCHANGED << uselist, data, held, pc, rxmsg, out, sem, dropedrcvpkg >>
  BY Types DEF Arrive, fifoVars
<1>2. /\ Len(hw) \in Nat
      /\ \/ Len(hw') = Len(hw) + 1 /\ \A j \in 1..Len(hw) : hw'[j] = hw[j]
         \/ Len(hw') = Len(hw) /\ \A j \in 1..(Len(hw) - 1) : hw'[j] = hw[j]
      /\ hw'[Len(hw')] = heard' /\ Len(hw') >= 1
  <2>1. hw \in Seq(Frame) /\ Len(hw) \in Nat /\ Len(hw) <= HwDepth /\ heard' \in Frame
    BY Types, Constants DEF RxInv, TypeOK, Arrive, Frame
  <2>2. CASE Len(hw) < HwDepth
    <3>1. hw' = Append(hw, heard')
      BY <2>2 DEF Arrive
    <3> QED
      BY <2>1, <3>1, AppendProperties
  <2>3. CASE ~(Len(hw) < HwDepth)
    <3>1. hw' = [hw EXCEPT ![HwDepth] = heard'] /\ HwDepth = Len(hw) /\ HwDepth \in 1..Len(hw)
      BY <2>1, <2>3, Constants DEF Arrive
    <3>2. /\ Len([hw EXCEPT ![HwDepth] = heard']) = Len(hw)
          /\ \A j \in 1..Len(hw) :
               [hw EXCEPT ![HwDepth] = heard'][j] = IF j = HwDepth THEN heard' ELSE hw[j]
      BY <2>1, <3>1, ExceptSeq
    <3> QED
      BY <2>1, <3>1, <3>2
  <2> QED
    BY <2>2, <2>3
<1>3. \A j \in 1..Len(hw') : \/ j = Len(hw') /\ hw'[j] = heard + 1
                             \/ j < Len(hw') /\ j \in 1..Len(hw) /\ hw'[j] = hw[j]
  BY <1>1, <1>2
<1>4. \A x \in Int : Older(x) => /\ \A j \in 1..Len(hw') : x < hw'[j]
                                /\ x <= heard'
  BY <1>1, <1>3 DEF Older
<1>5. WaitingSorted'
  <2>1. \A i, j \in 1..Len(uselist') : i < j => data'[uselist'[i]] < data'[uselist'[j]]
    BY <1>1 DEF FramesInv, WaitingSorted, Unread
  <2>2. \A i \in 1..Len(uselist') : /\ data'[uselist'[i]] <= heard'
                                    /\ \A j \in 1..Len(hw') : data'[uselist'[i]] < hw'[j]
    <3>1. \A i \in 1..Len(uselist) : /\ data[uselist[i]] \in Int /\ data[uselist[i]] <= heard
                                     /\ \A j \in 1..Len(hw) : data[uselist[i]] < hw[j]
      BY Types DEF FramesInv, WaitingSorted, Unread
    <3> QED
      BY <1>1, <1>3, <3>1
  <2>3. \A i, j \in 1..Len(hw') : i < j => hw'[i] < hw'[j]
    <3>1. \A i, j \in 1..Len(hw) : i < j => hw[i] < hw[j]
      BY DEF FramesInv, WaitingSorted
    <3>2. \A i \in 1..Len(hw) : hw[i] <= heard /\ hw[i] \in Int
      BY Types DEF FramesInv, WaitingSorted
    <3>3. ASSUME NEW i \in 1..Len(hw'), NEW j \in 1..Len(hw'), i < j PROVE hw'[i] < hw'[j]
      <4>1. i < Len(hw') /\ i \in 1..Len(hw) /\ hw'[i] = hw[i]
        BY <1>2, <1>3, <3>3
      <4> QED
        BY <1>1, <1>3, <3>1, <3>2, <3>3, <4>1
    <3> QED
      BY <3>3
  <2>4. \A j \in 1..Len(hw') : hw'[j] <= heard'
    <3>1. \A j \in 1..Len(hw) : hw[j] <= heard /\ hw[j] \in Int
      BY Types DEF FramesInv, WaitingSorted
    <3> QED
      BY <1>1, <1>3, <3>1
  <2> QED
    BY <2>1, <2>2, <2>3, <2>4 DEF WaitingSorted, Unread
<1>6. ReadSorted'
  <2>1. Older(rxmsg)'
    BY <1>1, <1>4, Types DEF FramesInv, ReadSorted, Older, Unread
  <2>2. pc = "copy" => rxmsg < data[held] /\ Older(data[held])'
    BY <1>1, <1>4, Types DEF FramesInv, ReadSorted, Older, Unread
  <2> QED
    BY <1>1, <2>1, <2>2 DEF FramesInv, ReadSorted
<1>7. TokensAreFrames' /\ QueuedInOrder'
  BY <1>1 DEF FramesInv, TokensAreFrames, QueuedInOrder
<1> QED
  BY <1>5, <1>6, <1>7 DEF FramesInv

(* The interrupt moves the oldest frame of the controller to the end of    *)
(* uselist.                                                                *)
LEMMA ReceivedMoves ==
  ASSUME RxInv, NEW lost \in {0, 1}, Received(lost)
  PROVE  /\ Len(hw) >= 1 /\ Len(hw') = Len(hw) - 1
         /\ \A j \in 1..Len(hw') : hw'[j] = hw[j + 1]
         /\ HeldKept /\ held' = held
         /\ \/ Shifted(hw[1], 0) /\ dropedrcvpkg' = dropedrcvpkg + lost
            \/ Shifted(hw[1], 1) /\ dropedrcvpkg' = dropedrcvpkg + lost + 1
            \/ /\ Len(uselist) = 0 /\ uselist' = uselist /\ data' = data
               /\ dropedrcvpkg' = dropedrcvpkg + lost
<1>1. hw \in Seq(Frame) /\ hw # << >> /\ hw' = Tail(hw) /\ Len(hw) \in Nat /\ held' = held
  BY Types DEF Received
<1>2. /\ Len(hw) >= 1 /\ Len(hw') = Len(hw) - 1 /\ Head(hw) = hw[1]
      /\ \A j \in 1..Len(hw') : hw'[j] = hw[j + 1]
  BY <1>1, HeadTailProperties, EmptySeq
<1>3. CASE StoreFree(Head(hw), lost)
  BY <1>1, <1>2, <1>3, StoreFreeShifts DEF StoreFree
<1>4. CASE StoreOldest(Head(hw), lost)
  BY <1>1, <1>2, <1>4, StoreOldestShifts DEF StoreOldest
<1>5. CASE StoreNowhere(lost)
  BY <1>1, <1>2, <1>5, EmptySeq DEF StoreNowhere, HeldKept
<1> QED
  BY <1>1, <1>2, <1>3, <1>4, <1>5 DEF Received

LEMMA ReceivedOrder ==
  ASSUME RxInv, RxInv', FramesInv, NEW lost \in {0, 1}, Received(lost), heard' = heard
  PROVE  /\ WaitingSorted'
         /\ \A x \in Int : Older(x) => Older(x)'
<1>1. /\ Len(hw) >= 1 /\ Len(hw') = Len(hw) - 1 /\ Len(hw) \in Nat /\ Len(uselist) \in Nat
      /\ Len(uselist') \in Nat
      /\ \A j \in 1..Len(hw') : hw'[j] = hw[j + 1] /\ j + 1 \in 1..Len(hw) /\ 1 < j + 1
      /\ 1 \in 1..Len(hw)
  <2>1. Len(uselist') \in Nat
    BY LenProperties DEF RxInv, TypeOK
  <2>2. Len(hw) \in Nat /\ Len(uselist) \in Nat
    BY Types
  <2> QED
    BY <2>1, <2>2, ReceivedMoves
<1>2. PICK s \in {0, 1} :
        \A i \in 1..Len(uselist') :
          \/ i + s \in 1..Len(uselist) /\ data'[uselist'[i]] = Unread(i + s)
          \/ i = Len(uselist') /\ data'[uselist'[i]] = hw[1]
  <2>1. ASSUME NEW s \in {0, 1}, Shifted(hw[1], s), NEW i \in 1..Len(uselist')
        PROVE  \/ i + s \in 1..Len(uselist) /\ data'[uselist'[i]] = Unread(i + s)
               \/ i = Len(uselist') /\ data'[uselist'[i]] = hw[1]
    <3>1. i = Len(uselist') \/ i \in 1..(Len(uselist') - 1)
      BY <1>1
    <3> QED
      BY <2>1, <3>1 DEF Shifted
  <2>2. ASSUME Len(uselist) = 0, uselist' = uselist PROVE 1..Len(uselist') = {}
    BY <2>2
  <2> QED
    BY <2>1, <2>2, ReceivedMoves
<1>3. /\ \A i \in 1..Len(uselist) : Unread(i) \in Int /\ Unread(i) <= heard
      /\ \A i \in 1..Len(uselist) : \A j \in 1..Len(hw) : Unread(i) < hw[j]
      /\ \A i, j \in 1..Len(uselist) : i < j => Unread(i) < Unread(j)
      /\ \A j \in 1..Len(hw) : hw[j] \in Int /\ hw[j] <= heard
      /\ \A i, j \in 1..Len(hw) : i < j => hw[i] < hw[j]
  BY Types DEF FramesInv, WaitingSorted, Unread
<1>4. \A i, j \in 1..Len(uselist') : i < j => data'[uselist'[i]] < data'[uselist'[j]]
  <2>1. ASSUME NEW i \in 1..Len(uselist'), NEW j \in 1..Len(uselist'), i < j
        PROVE  data'[uselist'[i]] < data'[uselist'[j]]
    <3>1. i + s \in 1..Len(uselist) /\ data'[uselist'[i]] = Unread(i + s) /\ i + s < j + s
      BY <1>1, <1>2, <2>1
    <3>2. CASE j + s \in 1..Len(uselist) /\ data'[uselist'[j]] = Unread(j + s)
      BY <1>3, <3>1, <3>2
    <3>3. CASE data'[uselist'[j]] = hw[1]
      BY <1>1, <1>3, <3>1, <3>3
    <3> QED
      BY <1>2, <3>2, <3>3
  <2> QED
    BY <2>1
<1>5. ASSUME NEW i \in 1..Len(uselist')
      PROVE  /\ data'[uselist'[i]] <= heard'
             /\ \A j \in 1..Len(hw') : data'[uselist'[i]] < hw'[j]
  <2>1. CASE i + s \in 1..Len(uselist) /\ data'[uselist'[i]] = Unread(i + s)
    BY <1>1, <1>3, <2>1
  <2>2. CASE data'[uselist'[i]] = hw[1]
    BY <1>1, <1>3, <2>2
  <2> QED
    BY <1>2, <2>1, <2>2
<1>6. \A i, j \in 1..Len(hw') : i < j => hw'[i] < hw'[j]
  <2>1. ASSUME NEW i \in 1..Len(hw'), NEW j \in 1..Len(hw'), i < j PROVE hw'[i] < hw'[j]
    <3>1. i + 1 < j + 1
      BY <2>1
    <3> QED
      BY <1>1, <1>3, <3>1
  <2> QED
    BY <2>1
<1>7. \A j \in 1..Len(hw') : hw'[j] <= heard'
  BY <1>1, <1>3
<1>8. WaitingSorted'
  BY <1>4, <1>5, <1>6, <1>7 DEF WaitingSorted, Unread
<1>9. ASSUME NEW x \in Int, Older(x) PROVE Older(x)'
  <2>1. \A i \in 1..Len(uselist') : x < data'[uselist'[i]]
    <3>1. ASSUME NEW i \in 1..Len(uselist') PROVE x < data'[uselist'[i]]
      <4>1. CASE i + s \in 1..Len(uselist) /\ data'[uselist'[i]] = Unread(i + s)
        BY <1>9, <4>1 DEF Older
      <4>2. CASE data'[uselist'[i]] = hw[1]
        BY <1>1, <1>9, <4>2 DEF Older
      <4> QED
        BY <1>2, <4>1, <4>2
    <3> QED
      BY <3>1
  <2>2. \A j \in 1..Len(hw') : x < hw'[j]
    BY <1>1, <1>9 DEF Older
  <2>3. x <= heard'
    BY <1>9 DEF Older
  <2> QED
    BY <2>1, <2>2, <2>3 DEF Older, Unread
<1> QED
  BY <1>8, <1>9

LEMMA ReceivedTokens ==
  ASSUME RxInv, FramesInv, NEW lost \in {0, 1}, Received(lost)
  PROVE  TokensAreFrames' /\ dropedrcvpkg' >= dropedrcvpkg
<1>1. /\ dropedrcvpkg \in Nat /\ Len(uselist) \in Nat /\ sem \in Nat
  BY Types
<1>2. dropedrcvpkg' >= dropedrcvpkg /\ dropedrcvpkg' \in Nat
  BY <1>1, ReceivedMoves
<1>3. CASE dropedrcvpkg' = 0
  <2>1. dropedrcvpkg = 0 /\ sem + (IF pc = "read" THEN 1 ELSE 0) <= Len(uselist)
    BY <1>1, <1>2, <1>3 DEF FramesInv, TokensAreFrames
  <2>2. \/ Len(uselist') = Len(uselist) + 1
        \/ uselist' = uselist /\ uselist' = << >>
    <3>1. CASE Shifted(hw[1], 0)
      BY <1>1, <3>1 DEF Shifted
    <3>2. CASE Len(uselist) = 0 /\ uselist' = uselist
      <4>1. uselist = << >>
        BY <3>2, Types, EmptySeq
      <4> QED
        BY <3>2, <4>1
    <3>3. CASE dropedrcvpkg' = dropedrcvpkg + lost + 1
      BY <1>1, <1>3, <3>3
    <3> QED
      BY <3>1, <3>2, <3>3, ReceivedMoves
  <2>3. sem' + (IF pc' = "read" THEN 1 ELSE 0) <= sem + (IF pc = "read" THEN 1 ELSE 0)
                                                   + (IF uselist' = << >> THEN 0 ELSE 1)
    <3>1. CASE uselist' = << >>
      BY <1>1, <3>1 DEF Received, Indicate
    <3>2. CASE uselist' # << >> /\ pc = "blocked"
      BY <1>1, <3>2 DEF Received, Indicate, Release
    <3>3. CASE uselist' # << >> /\ pc # "blocked"
      BY <1>1, <3>3, Constants DEF Received, Indicate, Release
    <3> QED
      BY <3>1, <3>2, <3>3
  <2>4. sem' \in Int
    BY <1>1, Constants DEF Received, Indicate, Release
  <2>5. Len(uselist') = Len(uselist) + (IF uselist' = << >> THEN 0 ELSE 1)
    <3>1. CASE uselist' = << >>
      <4>1. Len(uselist') = 0
        BY <3>1
      <4> QED
        BY <1>1, <2>2, <3>1, <4>1
    <3>2. CASE uselist' # << >>
      BY <1>1, <2>2, <3>2
    <3> QED
      BY <3>1, <3>2
  <2>6. sem' + (IF pc' = "read" THEN 1 ELSE 0) <= Len(uselist')
    <3> DEFINE a == IF pc' = "read" THEN 1 ELSE 0
               b == IF pc = "read" THEN 1 ELSE 0
               c == IF uselist' = << >> THEN 0 ELSE 1
    <3>1. /\ a \in Int /\ b \in Int /\ c \in Int
          /\ sem + b <= Len(uselist) /\ sem' + a <= sem + b + c /\ Len(uselist') = Len(uselist) + c
      BY <2>1, <2>3, <2>5
    <3> HIDE DEF a, b, c
    <3>2. \A x, y, m, n, u, v, w \in Int :
             x + v <= m /\ y + u <= x + v + w /\ n = m + w => y + u <= n
      OBVIOUS
    <3>3. sem \in Int /\ Len(uselist) \in Int /\ Len(uselist') \in Int
      BY <1>1, <3>1
    <3>4. sem' + a <= Len(uselist')
      BY <2>4, <3>1, <3>2, <3>3
    <3> QED
      BY <3>4 DEF a
  <2> QED
    BY <1>2, <2>6 DEF TokensAreFrames
<1>4. CASE dropedrcvpkg' # 0
  BY <1>2, <1>4 DEF TokensAreFrames
<1> QED
  BY <1>2, <1>3, <1>4

LEMMA HwCanIsrOrder ==
  ASSUME RxInv, RxInv', FramesInv, NEW lost \in {0, 1}, HwCanIsr(lost),
         UNCHANGED << heard, rxmsg, out >>
  PROVE  FramesInv'
<1>1. CASE NothingReceived(lost)
  <2>1. /\ UNCHANGED << hw, uselist, data, held, sem, pc >>
        /\ dropedrcvpkg \in Nat /\ dropedrcvpkg' = dropedrcvpkg + lost
    BY <1>1, Types DEF NothingReceived, fifoVars
  <2>2. dropedrcvpkg' = 0 => dropedrcvpkg = 0
    BY <2>1
  <2>3. WaitingSorted' /\ Older(rxmsg)' /\ (pc = "copy" => Older(data[held])')
    BY <2>1 DEF FramesInv, WaitingSorted, ReadSorted, Older, Unread
  <2>4. ReadSorted' /\ TokensAreFrames'
    BY <2>1, <2>2, <2>3 DEF FramesInv, ReadSorted, TokensAreFrames
  <2>5. QueuedInOrder'
    BY <2>1 DEF FramesInv, QueuedInOrder
  <2> QED
    BY <2>3, <2>4, <2>5 DEF FramesInv
<1>2. CASE Received(lost)
  <2>1. WaitingSorted' /\ TokensAreFrames' /\ dropedrcvpkg' >= dropedrcvpkg
    BY <1>2, ReceivedOrder, ReceivedTokens
  <2>2. dropedrcvpkg \in Nat /\ dropedrcvpkg' \in Nat
    BY DEF RxInv, TypeOK
  <2>3. pc' \in {"copy", "giveback", "queue"} => pc' = pc
    BY <1>2 DEF Received, Indicate, Release
  <2>4. Older(rxmsg)'
    <3>1. PICK x \in Int : x = rxmsg
      BY Types
    <3>2. Older(x)'
      BY <1>2, <3>1, ReceivedOrder DEF FramesInv, ReadSorted
    <3> QED
      BY <3>1, <3>2
  <2>5. pc = "copy" => data'[held'] = data[held] /\ rxmsg < data[held] /\ Older(data[held])'
    <3>1. SUFFICES ASSUME pc = "copy"
                   PROVE  data'[held'] = data[held] /\ rxmsg < data[held] /\ Older(data[held])'
      OBVIOUS
    <3>2. PICK x \in Int : x = data[held]
      BY <3>1, Types
    <3>3. rxmsg < data[held] /\ Older(x)'
      BY <1>2, <3>1, <3>2, ReceivedOrder DEF FramesInv, ReadSorted
    <3>4. held' = held /\ data'[held] = data[held]
      BY <1>2, <3>1, Types, ReceivedMoves DEF HeldKept
    <3> QED
      BY <3>2, <3>3, <3>4
  <2>6. ReadSorted'
    BY <2>1, <2>2, <2>3, <2>4, <2>5 DEF FramesInv, ReadSorted
  <2>7. QueuedInOrder'
    BY <2>1, <2>2, Types DEF FramesInv, QueuedInOrder
  <2> QED
    BY <2>1, <2>6, <2>7 DEF FramesInv
<1> QED
  BY <1>1, <1>2 DEF HwCanIsr

(* The reader takes the oldest frame of uselist.  It finds none only after *)
(* a frame was overwritten, and then reads what it read before.            *)
LEMMA ReadPopOrder ==
  ASSUME RxInv, FramesInv, ReadPop
  PROVE  FramesInv'
<1>1. UNCHANGED << heard, hw, data, dropedrcvpkg, sem, rxmsg, out >> /\ pc = "read"
  BY DEF ReadPop, hwVars
<1>2. QueuedInOrder'
  BY <1>1 DEF FramesInv, QueuedInOrder
<1>3. CASE uselist = << >>
  <2>1. uselist' = uselist /\ held' = held /\ pc' = "queue" /\ Len(uselist) = 0
    BY <1>3 DEF ReadPop
  <2>2. dropedrcvpkg # 0
    <3>1. sem \in Nat /\ ~(sem + 1 <= 0)
      BY Types
    <3> QED
      BY <1>1, <2>1, <3>1 DEF FramesInv, TokensAreFrames
  <2>3. WaitingSorted' /\ Older(rxmsg)'
    BY <1>1, <2>1 DEF FramesInv, WaitingSorted, ReadSorted, Older, Unread
  <2>4. ReadSorted'
    BY <1>1, <2>1, <2>2, <2>3 DEF FramesInv, ReadSorted
  <2>5. TokensAreFrames'
    BY <1>1, <2>2 DEF TokensAreFrames
  <2> QED
    BY <1>2, <2>3, <2>4, <2>5 DEF FramesInv
<1>4. CASE uselist # << >>
  <2>1. /\ held' = uselist[1] /\ uselist' = Tail(uselist) /\ pc' = "copy"
        /\ Len(uselist) \in Nat /\ Len(uselist) >= 1 /\ Len(uselist') = Len(uselist) - 1
        /\ \A i \in 1..Len(uselist') : uselist'[i] = uselist[i + 1]
    <3>1. uselist \in Seq(nodes) /\ Len(uselist) \in Nat
      BY Types
    <3>2. held' = Head(uselist) /\ uselist' = Tail(uselist) /\ pc' = "copy"
      BY <1>4 DEF ReadPop
    <3> QED
      BY <1>4, <3>1, <3>2, HeadTailProperties, EmptySeq
  <2>2. \A i \in 1..Len(uselist') : i + 1 \in 1..Len(uselist) /\ 1 < i + 1
    BY <2>1
  <2>3. 1 \in 1..Len(uselist) /\ data'[held'] = Unread(1) /\ data[uselist[1]] = Unread(1)
    BY <1>1, <2>1 DEF Unread
  <2>4. \A i \in 1..Len(uselist') : data'[uselist'[i]] = Unread(i + 1)
    BY <1>1, <2>1 DEF Unread
  <2>5. WaitingSorted'
    <3>1. ASSUME NEW i \in 1..Len(uselist'), NEW j \in 1..Len(uselist'), i < j
          PROVE  data'[uselist'[i]] < data'[uselist'[j]]
      <4>1. i + 1 < j + 1
        BY <3>1
      <4> QED
        BY <2>2, <2>4, <4>1 DEF FramesInv, WaitingSorted
    <3>2. \A i \in 1..Len(uselist') : /\ data'[uselist'[i]] <= heard'
                                      /\ \A j \in 1..Len(hw') : data'[uselist'[i]] < hw'[j]
      BY <1>1, <2>2, <2>4 DEF FramesInv, WaitingSorted
    <3>3. /\ \A i, j \in 1..Len(hw') : i < j => hw'[i] < hw'[j]
          /\ \A j \in 1..Len(hw') : hw'[j] <= heard'
      BY <1>1 DEF FramesInv, WaitingSorted
    <3> QED
      BY <3>1, <3>2, <3>3 DEF WaitingSorted, Unread
  <2>6. Older(rxmsg)'
    <3>1. /\ \A i \in 1..Len(uselist') : rxmsg < data'[uselist'[i]]
          /\ \A j \in 1..Len(hw') : rxmsg < hw'[j]
          /\ rxmsg <= heard'
      BY <1>1, <2>2, <2>4 DEF FramesInv, ReadSorted, Older
    <3> QED
      BY <1>1, <3>1 DEF Older, Unread
  <2>7. rxmsg < data'[held']
    BY <2>3 DEF FramesInv, ReadSorted, Older
  <2>8. Older(data[held])'
    <3>1. /\ \A i \in 1..Len(uselist') : Unread(1) < data'[uselist'[i]]
          /\ \A j \in 1..Len(hw') : Unread(1) < hw'[j]
          /\ Unread(1) <= heard'
      BY <1>1, <2>2, <2>3, <2>4 DEF FramesInv, WaitingSorted
    <3> QED
      BY <2>3, <3>1 DEF Older, Unread
  <2>9. ReadSorted'
    BY <1>1, <2>1, <2>6, <2>7, <2>8 DEF FramesInv, ReadSorted
  <2>10. TokensAreFrames'
    BY <1>1, <2>1, Types DEF FramesInv, TokensAreFrames
  <2> QED
    BY <1>2, <2>5, <2>9, <2>10 DEF FramesInv
<1> QED
  BY <1>3, <1>4

(* It copies the frame, gives the node back and queues the frame.          *)
LEMMA ReaderOrder ==
  ASSUME RxInv, FramesInv, SemTake \/ ReadCopy \/ ReadGiveBack \/ Filter
  PROVE  FramesInv'
<1>1. /\ UNCHANGED << heard, hw, data, dropedrcvpkg, uselist >> /\ rxmsg \in Int
      /\ \A i \in 1..Len(out) : out[i] \in Int
  BY Types DEF SemTake, ReadCopy, ReadGiveBack, Filter, hwVars, fifoVars
<1>2. WaitingSorted'
  BY <1>1 DEF FramesInv, WaitingSorted, Unread
<1>3. TokensAreFrames'
  <2>1. CASE SemTake
    BY <1>1, <2>1, Types DEF SemTake, FramesInv, TokensAreFrames
  <2>2. CASE ReadCopy \/ ReadGiveBack \/ Filter
    <3>1. sem' = sem /\ pc # "read" /\ pc' # "read"
      BY <2>2 DEF ReadCopy, ReadGiveBack, Filter
    <3> QED
      BY <1>1, <3>1 DEF FramesInv, TokensAreFrames
  <2> QED
    BY <2>1, <2>2
<1>4. CASE SemTake \/ ReadGiveBack
  <2>1. /\ rxmsg' = rxmsg /\ out' = out
        /\ \/ pc' \in {"read", "blocked"}
           \/ pc = "giveback" /\ pc' = "queue"
    BY <1>4 DEF SemTake, ReadGiveBack
  <2>2. Older(rxmsg)'
    BY <1>1, <2>1 DEF FramesInv, ReadSorted, Older, Unread
  <2>3. ReadSorted' /\ QueuedInOrder'
    BY <1>1, <2>1, <2>2 DEF FramesInv, ReadSorted, QueuedInOrder
  <2> QED
    BY <1>2, <1>3, <2>3 DEF FramesInv
<1>5. CASE ReadCopy
  <2>1. rxmsg' = data[held] /\ pc = "copy" /\ pc' = "giveback" /\ out' = out
    BY <1>5 DEF ReadCopy
  <2>2. rxmsg < data[held] /\ Older(data[held]) /\ data[held] \in Int
    BY <2>1, Types DEF FramesInv, ReadSorted
  <2>3. Older(rxmsg)'
    BY <1>1, <2>1, <2>2 DEF Older, Unread
  <2>4. \A i \in 1..Len(out) : out[i] < rxmsg' /\ out[i] <= rxmsg'
    BY <1>1, <2>1, <2>2 DEF FramesInv, ReadSorted
  <2>5. ReadSorted' /\ QueuedInOrder'
    BY <1>1, <2>1, <2>3, <2>4 DEF FramesInv, ReadSorted, QueuedInOrder
  <2> QED
    BY <1>2, <1>3, <2>5 DEF FramesInv
<1>6. CASE Filter
  <2>1. /\ rxmsg' = rxmsg /\ pc = "queue" /\ pc' = "take"
        /\ out' = out \/ out' = Append(out, rxmsg)
    BY <1>6 DEF Filter
  <2>2. Older(rxmsg)'
    BY <1>1, <2>1 DEF FramesInv, ReadSorted, Older, Unread
  <2>3. CASE out' = out
    <3>1. ReadSorted' /\ QueuedInOrder'
      BY <1>1, <2>1, <2>2, <2>3 DEF FramesInv, ReadSorted, QueuedInOrder
    <3> QED
      BY <1>2, <1>3, <3>1 DEF FramesInv
  <2>4. CASE out' = Append(out, rxmsg)
    <3>1. /\ Len(out) \in Nat /\ Len(out') = Len(out) + 1 /\ out'[Len(out) + 1] = rxmsg
          /\ \A i \in 1..Len(out) : out'[i] = out[i]
      BY <2>4, Types, AppendProperties
    <3>2. \A i \in 1..Len(out') : out'[i] <= rxmsg'
      BY <1>1, <2>1, <3>1 DEF FramesInv, ReadSorted
    <3>3. ReadSorted'
      BY <1>1, <2>1, <2>2, <3>2 DEF ReadSorted
    <3>4. ASSUME NEW i \in 1..Len(out'), NEW j \in 1..Len(out'), i < j
          PROVE  out'[i] < out'[j] \/ (out'[i] = out'[j] /\ dropedrcvpkg > 0)
      <4>1. i \in 1..Len(out) /\ out'[i] = out[i]
        BY <3>1, <3>4
      <4>2. CASE j \in 1..Len(out)
        BY <3>1, <3>4, <4>1, <4>2 DEF FramesInv, QueuedInOrder
      <4>3. CASE j = Len(out) + 1
        <5>1. out'[j] = rxmsg /\ out[i] <= rxmsg /\ (dropedrcvpkg = 0 => out[i] < rxmsg)
          BY <2>1, <3>1, <4>1, <4>3 DEF FramesInv, ReadSorted
        <5>2. dropedrcvpkg \in Nat
          BY Types
        <5> QED
          BY <1>1, <4>1, <5>1, <5>2
      <4> QED
        BY <3>1, <4>2, <4>3
    <3>5. QueuedInOrder'
      BY <1>1, <3>4 DEF QueuedInOrder
    <3> QED
      BY <1>2, <1>3, <3>3, <3>5 DEF FramesInv
  <2> QED
    BY <2>1, <2>3, <2>4
<1> QED
  BY <1>4, <1>5, <1>6

LEMMA FramesStep == RxInv /\ RxInv' /\ FramesInv /\ [Next]_vars => FramesInv'
<1> SUFFICES ASSUME RxInv, RxInv', FramesInv, [Next]_vars PROVE FramesInv'
  OBVIOUS
<1>1. CASE Arrive
  BY <1>1, ArriveOrder
<1>2. CASE RxIsr \/ RxIsrOverrun
  BY <1>2, HwCanIsrOrder DEF RxIsr, RxIsrOverrun
<1>3. CASE Start \/ UNCHANGED vars
  <2>1. UNCHANGED << heard, hw, uselist, data, held, dropedrcvpkg, sem, pc, rxmsg, out >>
    BY <1>3 DEF Start, SetIndicate, StartThread, vars, hwVars, fifoVars
  <2>2. WaitingSorted' /\ Older(rxmsg)' /\ (pc = "copy" => Older(data[held])')
    BY <2>1 DEF FramesInv, WaitingSorted, ReadSorted, Older, Unread
  <2>3. ReadSorted' /\ TokensAreFrames' /\ QueuedInOrder'
    BY <2>1, <2>2 DEF FramesInv, ReadSorted, TokensAreFrames, QueuedInOrder
  <2> QED
    BY <2>2, <2>3 DEF FramesInv
<1>4. CASE Thread
  BY <1>4, ReadPopOrder, ReaderOrder DEF Thread
<1> QED
  BY <1>1, <1>2, <1>3, <1>4 DEF Next, Isr

(* Frames are queued in the order they arrived, and a frame is queued      *)
(* twice only after the interrupt has overwritten one.                     *)
THEOREM FramesAreInOrder == Spec => []QueuedInOrder
<1>1. FramesInv => QueuedInOrder
  BY DEF FramesInv
<1> QED
  BY <1>1, FramesInit, FramesStep, RxInvHolds, PTL DEF Spec

-----------------------------------------------------------------------------
(* No frame is lost in silence.                                            *)

(* Until the node is given back, the reader's copy is also in the node.    *)
CopyInNode == pc = "giveback" => rxmsg = data[held]

LEMMA CopyStep == RxInv /\ CopyInNode /\ [Next]_vars => CopyInNode'
<1> SUFFICES ASSUME RxInv, CopyInNode, [Next]_vars PROVE CopyInNode'
  OBVIOUS
<1>1. CASE Arrive \/ Start \/ UNCHANGED vars
  BY <1>1 DEF Arrive, Start, SetIndicate, StartThread, vars, fifoVars, CopyInNode
<1>2. ASSUME NEW lost \in {0, 1}, HwCanIsr(lost), rxmsg' = rxmsg PROVE CopyInNode'
  <2>1. CASE NothingReceived(lost)
    BY <1>2, <2>1 DEF NothingReceived, fifoVars, CopyInNode
  <2>2. CASE Received(lost)
    <3>1. pc' = "giveback" => pc = "giveback"
      BY <2>2 DEF Received, Indicate, Release
    <3>2. held' = held /\ (held \in nodes => data'[held] = data[held])
      BY <2>2, ReceivedMoves DEF HeldKept
    <3> QED
      BY <1>2, <3>1, <3>2, Types DEF CopyInNode
  <2> QED
    BY <1>2, <2>1, <2>2 DEF HwCanIsr
<1>3. CASE RxIsr \/ RxIsrOverrun
  BY <1>2, <1>3 DEF RxIsr, RxIsrOverrun
<1>4. CASE Thread
  BY <1>4 DEF Thread, SemTake, ReadPop, ReadCopy, ReadGiveBack, Filter, fifoVars, CopyInNode
<1> QED
  BY <1>1, <1>3, <1>4 DEF Next, Isr

(* With two nodes, the interrupt always finds one to store a frame in.     *)
LEMMA SomeNode ==
  ASSUME RxInv, Box > 1
  PROVE  freelist # << >> \/ uselist # << >>
<1>1. Len(freelist) + Len(uselist) + (IF held = NoNode THEN 0 ELSE 1) = Box /\ Box \in Nat
  BY Boxes DEF RxInv, TypeOK, NodesInv, NodesAddUp
<1>2. Len(<< >>) = 0
  OBVIOUS
<1> QED
  BY <1>1, <1>2

(* A frame on its way stays on its way while nothing is overwritten.       *)
LEMMA ReceivedTransit ==
  ASSUME RxInv, Box > 1, Received(0), dropedrcvpkg' = 0, UNCHANGED << rxmsg, out >>
  PROVE  InTransit \subseteq InTransit'
<1>1. dropedrcvpkg \in Nat /\ hw \in Seq(Frame) /\ hw # << >> /\ hw' = Tail(hw) /\ held' = held
  BY Types DEF Received
<1>2. PICK n, f : n = Head(freelist) /\ f = Head(hw)
  OBVIOUS
<1>3. /\ freelist # << >> /\ freelist \in Seq(nodes) /\ uselist \in Seq(nodes)
      /\ uselist' = Append(uselist, n) /\ data' = [data EXCEPT ![n] = f]
  <2>1. ~StoreOldest(f, 0)
    <3>1. dropedrcvpkg + 0 + 1 # 0
      BY <1>1
    <3> QED
      BY <3>1 DEF StoreOldest
  <2>2. ~StoreNowhere(0)
    BY SomeNode DEF StoreNowhere
  <2>3. StoreFree(f, 0)
    BY <1>2, <2>1, <2>2 DEF Received
  <2> QED
    BY <1>2, <2>3, Types DEF StoreFree
<1>4. n \in nodes /\ n \in Range(freelist)
  BY <1>2, <1>3, TailRange, HeadTailProperties
<1>5. n \notin Range(uselist) /\ n # held /\ Range(uselist) \subseteq nodes
  BY <1>3, <1>4, InRange DEF RxInv, NodesInv, NodesConserved
<1>6. data'[n] = f /\ \A m \in nodes : m # n => data'[m] = data[m]
  BY <1>3, <1>4, Types
<1>7. Range(uselist') = Range(uselist) \cup {n}
  BY <1>3, <1>4, AppendRange
<1>8. Range(hw) = Range(hw') \cup {f}
  BY <1>1, <1>2, TailRange
<1>9. pc = "queue" => pc' = "queue"
  BY DEF Received, Indicate, Release
<1>10. held # NoNode => held \in nodes
  BY DEF RxInv, TypeOK
<1> QED
  <2>1. ASSUME NEW x \in InTransit PROVE x \in InTransit'
    <3>1. CASE x \in Range(hw)
      BY <3>1, <1>6, <1>7, <1>8 DEF InTransit
    <3>2. CASE \E m \in Range(uselist) : x = data[m]
      BY <3>2, <1>5, <1>6, <1>7 DEF InTransit
    <3>3. CASE x \in Range(out)
      BY <3>3 DEF InTransit
    <3>4. CASE held # NoNode /\ x = data[held]
      BY <3>4, <1>1, <1>5, <1>6, <1>10 DEF InTransit
    <3>5. CASE pc = "queue" /\ x = rxmsg
      BY <3>5, <1>9 DEF InTransit
    <3> QED
      BY <3>1, <3>2, <3>3, <3>4, <3>5 DEF InTransit
  <2> QED
    BY <2>1

LEMMA ThreadTransit ==
  ASSUME RxInv, CopyInNode, Thread
  PROVE  InTransit \subseteq InTransit' \cup Unwanted
<1>1. UNCHANGED << hw, data >>
  BY DEF Thread, SemTake, ReadPop, ReadCopy, ReadGiveBack, Filter, hwVars, fifoVars
<1>2. CASE SemTake \/ ReadCopy
  BY <1>1, <1>2 DEF SemTake, ReadCopy, InTransit, fifoVars
<1>3. CASE ReadPop
  <2>1. pc = "read" /\ out' = out
    BY <1>3 DEF ReadPop
  <2>2. CASE uselist = << >>
    BY <1>1, <1>3, <2>1, <2>2 DEF ReadPop, InTransit
  <2>3. CASE uselist # << >>
    <3>1. held' = Head(uselist) /\ uselist' = Tail(uselist) /\ uselist \in Seq(nodes)
      BY <1>3, <2>3, Types DEF ReadPop
    <3>2. Range(uselist) = Range(uselist') \cup {held'} /\ held' \in nodes
      BY <2>3, <3>1, TailRange, HeadTailProperties
    <3>3. held = NoNode /\ held' # NoNode
      <4>1. NoNode \notin nodes /\ held = NoNode
        BY <2>1, Boxes DEF RxInv, TypeOK, NodesInv, NodesConserved, ReaderHolds
      <4> QED
        BY <3>2, <4>1
    <3> QED
      BY <1>1, <2>1, <3>2, <3>3 DEF InTransit
  <2> QED
    BY <2>2, <2>3
<1>4. CASE ReadGiveBack
  BY <1>1, <1>4 DEF ReadGiveBack, InTransit, CopyInNode
<1>5. CASE Filter
  <2>1. /\ pc = "queue" /\ UNCHANGED << uselist, held >>
        /\ out' = IF rxmsg \in Unwanted THEN out ELSE Append(out, rxmsg)
    BY <1>5 DEF Filter, fifoVars
  <2>2. out \in Seq(Frame) /\ rxmsg \in Frame
    BY Types
  <2>3. Range(Append(out, rxmsg)) = Range(out) \cup {rxmsg}
    BY <2>2, AppendRange
  <2>4. Range(out) \subseteq Range(out') /\ (rxmsg \in Unwanted \/ rxmsg \in Range(out'))
    BY <2>1, <2>3
  <2> QED
    BY <1>1, <2>1, <2>4 DEF InTransit
<1> QED
  BY <1>2, <1>3, <1>4, <1>5 DEF Thread

LEMMA LossStep ==
  RxInv /\ CopyInNode /\ LossReported /\ [Next]_vars => LossReported'
<1> SUFFICES ASSUME RxInv, CopyInNode, LossReported, [Next]_vars, Box' > 1,
                    NEW f \in (1..heard') \ Unwanted, ~(dropedrcvpkg' > 0), ~overrun'
             PROVE  f \in InTransit'
  BY DEF LossReported
<1>0. Box = Box' /\ dropedrcvpkg \in Nat /\ heard \in Nat
  BY SameBuffer, Types
<1>1. ASSUME heard' = heard, dropedrcvpkg' = dropedrcvpkg, overrun' = overrun
      PROVE  f \in InTransit
  BY <1>0, <1>1 DEF LossReported
<1>2. CASE Arrive
  <2>1. /\ Len(hw) < HwDepth /\ hw' = Append(hw, heard') /\ overrun' = overrun
        /\ heard' = heard + 1 /\ heard' \in Frame
        /\ UNCHANGED << uselist, data, held, dropedrcvpkg, pc, rxmsg, out >>
    BY <1>2, Constants, Types DEF Arrive, fifoVars, Frame
  <2>2. Range(hw') = Range(hw) \cup {heard'}
    BY <2>1, Types, AppendRange
  <2>3. CASE f \in 1..heard
    <3>1. f \in InTransit
      BY <1>0, <2>1, <2>3 DEF LossReported
    <3> QED
      BY <2>1, <2>2, <3>1 DEF InTransit
  <2>4. CASE f = heard'
    BY <2>2, <2>4 DEF InTransit
  <2> QED
    BY <1>0, <2>1, <2>3, <2>4
<1>3. CASE RxIsr
  <2>1. Received(0) /\ UNCHANGED << heard, overrun, rxmsg, out >>
    BY <1>3 DEF RxIsr, HwCanIsr, NothingReceived
  <2>2. dropedrcvpkg' \in Nat /\ dropedrcvpkg' >= dropedrcvpkg
    BY <1>0, <2>1, ReceivedMoves
  <2>3. dropedrcvpkg' = 0 /\ dropedrcvpkg = 0
    BY <1>0, <2>2
  <2> QED
    BY <1>0, <1>1, <2>1, <2>3, ReceivedTransit
<1>4. CASE RxIsrOverrun
  <2>1. dropedrcvpkg' > 0
    <3>1. CASE NothingReceived(1)
      BY <1>0, <3>1 DEF NothingReceived
    <3>2. CASE Received(1)
      BY <1>0, <3>2, ReceivedMoves
    <3> QED
      BY <1>4, <3>1, <3>2 DEF RxIsrOverrun, HwCanIsr
  <2> QED
    BY <2>1
<1>5. CASE Start \/ UNCHANGED vars
  <2>1. UNCHANGED << heard, hw, overrun, uselist, data, held, dropedrcvpkg, pc, rxmsg, out >>
    BY <1>5 DEF Start, SetIndicate, StartThread, vars, hwVars, fifoVars
  <2> QED
    BY <1>1, <2>1 DEF InTransit
<1>6. CASE Thread
  <2>1. UNCHANGED << heard, overrun, dropedrcvpkg >>
    BY <1>6 DEF Thread, SemTake, ReadPop, ReadCopy, ReadGiveBack, Filter, hwVars
  <2> QED
    BY <1>1, <1>6, <2>1, ThreadTransit
<1> QED
  BY <1>2, <1>3, <1>4, <1>5, <1>6 DEF Next, Isr

(* With two nodes or more, a frame that other nodes sent and the filter    *)
(* wants is on its way to can_rx_queue, or its loss shows in dropedrcvpkg, *)
(* or will once the overrun is served.                                     *)
THEOREM LossesAreReported == Spec => []LossReported
<1>1. Init => LossReported /\ CopyInNode
  BY DEF Init, LossReported, CopyInNode
<1> QED
  BY <1>1, CopyStep, LossStep, RxInvHolds, PTL DEF Spec
=============================================================================
