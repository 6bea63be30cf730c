------------------------------ MODULE Heap_proofs ------------------------------
(***************************************************************************)
(* Proofs about the small-memory heap, for memory of every size, any sizes *)
(* asked for and any number of blocks: the four invariants of Heap.        *)
(*                                                                         *)
(* The argument has three layers.  A heap is Sound when its chain of       *)
(* headers is whole; cutting a block in two and joining two blocks keep it *)
(* so.  It is Good when, besides, lfree is the lowest free block, no two   *)
(* free blocks touch and used counts the units in use; what rt_malloc,     *)
(* rt_free and rt_realloc do to it leaves it Good and the other blocks in  *)
(* use as they were.  The callers are Served: each has a block in use that *)
(* holds what it has written, and no block is in use without a caller.     *)
(***************************************************************************)
EXTENDS Heap, FiniteSetTheorems, WellFoundedInduction, TLAPS

-----------------------------------------------------------------------------
(* The heap's record and its chain of headers.                             *)

Fields == {"item", "lfree", "used", "cell"}

Shaped(h) ==
  /\ DOMAIN h = Fields
  /\ {0, End} \subseteq DOMAIN h.item /\ DOMAIN h.item \subseteq 0..End
  /\ \A a \in DOMAIN h.item : h.item[a] \in Item
  /\ DOMAIN h.cell = 0..(End + Header - 1)

(* The blocks below heap_end.                                              *)
BlocksOf(h) == DOMAIN h.item \ {End}
NextOf(h, a) == h.item[a].next
PrevOf(h, a) == h.item[a].prev
UsedIn(h, a) == h.item[a].used

(* Each block ends where the next begins, which is told of it; and each    *)
(* but the first begins where another ends.                                *)
Chained(h) ==
  /\ \A a \in BlocksOf(h) :
       /\ NextOf(h, a) \in DOMAIN h.item /\ NextOf(h, a) > a + Header
       /\ \A b \in DOMAIN h.item : ~(a < b /\ b < NextOf(h, a))
       /\ NextOf(h, a) # End => PrevOf(h, NextOf(h, a)) = a
  /\ \A n \in DOMAIN h.item \ {0} : \E a \in BlocksOf(h) : NextOf(h, a) = n
  /\ PrevOf(h, 0) = 0
  /\ UsedIn(h, End) /\ NextOf(h, End) = End

HeadersIntact(h) ==
  \A a \in BlocksOf(h) : \A c \in Span(a, Header) : h.cell[c] = HeaderCell

Sound(h) == Shaped(h) /\ Chained(h) /\ HeadersIntact(h)

(* What it is for g to be h with a header written at a, or dropped there.  *)
HasPut(h, g, a, item) ==
  /\ DOMAIN g = Fields /\ g.lfree = h.lfree /\ g.used = h.used
  /\ DOMAIN g.item = DOMAIN h.item \cup {a}
  /\ g.item[a] = item
  /\ \A b \in DOMAIN h.item \ {a} : g.item[b] = h.item[b]
  /\ DOMAIN g.cell = DOMAIN h.cell
  /\ \A c \in DOMAIN h.cell :
       g.cell[c] = IF c \in Span(a, Header) THEN HeaderCell ELSE h.cell[c]
HasDropped(h, g, a) ==
  /\ DOMAIN g = Fields /\ g.lfree = h.lfree /\ g.used = h.used
  /\ DOMAIN g.item = DOMAIN h.item \ {a}
  /\ \A b \in DOMAIN h.item \ {a} : g.item[b] = h.item[b]
  /\ DOMAIN g.cell = DOMAIN h.cell
  /\ \A c \in DOMAIN h.cell :
       g.cell[c] = IF c \in Span(a, Header) THEN Unwritten ELSE h.cell[c]

(* PutItem does that.                                                      *)
LEMMA PutItemPuts ==
  ASSUME NEW h, DOMAIN h = Fields, NEW a, NEW item
  PROVE  HasPut(h, PutItem(h, a, item), a, item)
  BY DEF PutItem, Written, With, HasPut, Fields

(* So does DropItem.                                                       *)
LEMMA DropItemDrops ==
  ASSUME NEW h, DOMAIN h = Fields, NEW a
  PROVE  HasDropped(h, DropItem(h, a), a)
  BY DEF DropItem, Written, HasDropped, Fields

(* A header with one of its fields changed.                                *)
LEMMA ItemUpdates ==
  ASSUME NEW i \in Item, NEW v
  PROVE  /\ i = [used |-> i.used, next |-> i.next, prev |-> i.prev]
         /\ [i EXCEPT !.next = v] = [used |-> i.used, next |-> v, prev |-> i.prev]
         /\ [i EXCEPT !.prev = v] = [used |-> i.used, next |-> i.next, prev |-> v]
         /\ [i EXCEPT !.used = v] = [used |-> v, next |-> i.next, prev |-> i.prev]
  BY DEF Item

(* The constants of the layout.                                            *)
LEMMA Sizing ==
  Size \in Nat /\ Size > 0 /\ End \in Nat /\ End = Size + 2 /\ Header = 2 /\ MinSize = 2
  BY SizeAssumption DEF End, Header, MinSize

(* What follows from the chain: the blocks do not overlap.                 *)
LEMMA ChainFacts ==
  ASSUME NEW h, Shaped(h), Chained(h)
  PROVE  /\ \A a \in DOMAIN h.item : a \in Nat /\ a <= End
         /\ \A a \in BlocksOf(h) :
              /\ a < End /\ a \in DOMAIN h.item
              /\ NextOf(h, a) \in Nat /\ NextOf(h, a) <= End /\ PrevOf(h, a) \in Nat
              /\ NextOf(h, a) > a + Header /\ NextOf(h, a) \in DOMAIN h.item
              /\ \A b \in DOMAIN h.item : b > a => b >= NextOf(h, a)
         /\ \A n \in BlocksOf(h) \ {0} : PrevOf(h, n) \in BlocksOf(h) /\ NextOf(h, PrevOf(h, n)) = n
<1> USE Sizing DEF Shaped, Chained, BlocksOf, NextOf, PrevOf, Item
<1>1. \A a \in DOMAIN h.item : a \in Nat /\ a <= End
  OBVIOUS
<1>2. \A a \in BlocksOf(h) : 
              /\ a < End /\ a \in DOMAIN h.item
              /\ NextOf(h, a) \in Nat /\ NextOf(h, a) <= End /\ PrevOf(h, a) \in Nat
  BY <1>1
<1>3. \A a \in BlocksOf(h) : 
         /\ NextOf(h, a) > a + Header /\ NextOf(h, a) \in DOMAIN h.item
              /\ \A b \in DOMAIN h.item : b > a => b >= NextOf(h, a)
  BY <1>1, <1>2
<1>4. ASSUME NEW n \in BlocksOf(h) \ {0} PROVE PrevOf(h, n) \in BlocksOf(h) /\ NextOf(h, PrevOf(h, n)) = n
  OBVIOUS
<1> QED
  BY <1>1, <1>2, <1>3, <1>4

-----------------------------------------------------------------------------
(* g is h with block a ending at r, where a free block takes up the rest.  *)
IsSplit(h, g, a, r) ==
  /\ DOMAIN g = Fields /\ g.lfree = h.lfree /\ g.used = h.used
  /\ DOMAIN g.item = DOMAIN h.item \cup {r}
  /\ g.item[r] = [used |-> FALSE, next |-> NextOf(h, a), prev |-> a]
  /\ g.item[a] = [used |-> UsedIn(h, a), next |-> r, prev |-> PrevOf(h, a)]
  /\ \A x \in DOMAIN h.item \ {a} :
       g.item[x] = [used |-> UsedIn(h, x), next |-> NextOf(h, x),
                    prev |-> IF x = NextOf(h, a) /\ x # End THEN r ELSE PrevOf(h, x)]
  /\ DOMAIN g.cell = DOMAIN h.cell
  /\ \A c \in DOMAIN h.cell :
       g.cell[c] = IF c \in Span(r, Header) THEN HeaderCell ELSE h.cell[c]

(* Split does that.                                                        *)
LEMMA SplitIsSplit ==
  ASSUME NEW h, Sound(h), NEW a \in BlocksOf(h), NEW n \in Nat,
         n > 0, a + Header + n + Header < NextOf(h, a)
  PROVE  IsSplit(h, Split(h, a, n), a, a + Header + n)
<1> DEFINE r == a + Header + n
           after == NextOf(h, a)
           g1 == PutItem(h, r, [used |-> FALSE, next |-> after, prev |-> a])
           g2 == PutItem(g1, a, [h.item[a] EXCEPT !.next = r])
           g3 == PutItem(g2, after, [g2.item[after] EXCEPT !.prev = r])
           g == IF after # End THEN g3 ELSE g2
<1>1. g = Split(h, a, n)
  BY DEF Split, NextOf
<1>2. /\ a \in Nat /\ r \in Nat /\ after \in Nat /\ after \in DOMAIN h.item
      /\ a \in DOMAIN h.item /\ r \notin DOMAIN h.item /\ a # after
      /\ a < r /\ r < after /\ after <= End
      /\ DOMAIN h = Fields /\ DOMAIN h.cell = 0..(End + Header - 1)
      /\ \A x \in DOMAIN h.item : h.item[x] \in Item
  BY ChainFacts, Sizing DEF Sound, Shaped
<1> HIDE DEF r, after
<1>3. HasPut(h, g1, r, [used |-> FALSE, next |-> after, prev |-> a])
  BY <1>2, PutItemPuts
<1> HIDE DEF g1
<1>4. HasPut(g1, g2, a, [h.item[a] EXCEPT !.next = r])
  BY <1>3, PutItemPuts DEF HasPut
<1> HIDE DEF g2
<1>5. HasPut(g2, g3, after, [g2.item[after] EXCEPT !.prev = r])
  BY <1>4, PutItemPuts DEF HasPut
<1> HIDE DEF g3
<1> USE DEF HasPut
<1>6. \A c \in Span(a, Header) : h.cell[c] = HeaderCell
  BY DEF Sound, HeadersIntact
<1>7. after # End => \A c \in Span(after, Header) : h.cell[c] = HeaderCell
  BY <1>2 DEF Sound, HeadersIntact, BlocksOf
<1>8. \A c \in DOMAIN h.cell :
       g.cell[c] = IF c \in Span(r, Header) THEN HeaderCell ELSE h.cell[c]
  BY <1>3, <1>4, <1>5, <1>6, <1>7
<1>9. \A x \in DOMAIN h.item : h.item[x] = [used |-> UsedIn(h, x), next |-> NextOf(h, x), prev |-> PrevOf(h, x)]
  BY <1>2, ItemUpdates DEF UsedIn, NextOf, PrevOf
<1>10. /\ g.item[r] = [used |-> FALSE, next |-> after, prev |-> a]
       /\ g.item[a] = [used |-> UsedIn(h, a), next |-> r, prev |-> PrevOf(h, a)]
       /\ \A x \in DOMAIN h.item \ {a} :
           g.item[x] = [used |-> UsedIn(h, x), next |-> NextOf(h, x),
                        prev |-> IF x = after /\ x # End THEN r ELSE PrevOf(h, x)]
  <2>1. g.item[r] = [used |-> FALSE, next |-> after, prev |-> a]
    BY <1>2, <1>3, <1>4, <1>5
  <2>2. g.item[a] = [used |-> UsedIn(h, a), next |-> r, prev |-> PrevOf(h, a)]
    BY <1>2, <1>4, <1>5, ItemUpdates DEF UsedIn, PrevOf
  <2>3. ASSUME NEW x \in DOMAIN h.item \ {a}, ~(x = after /\ x # End) PROVE g.item[x] = h.item[x]
    BY <1>2, <1>3, <1>4, <1>5, <2>3
  <2>4. ASSUME after # End 
        PROVE g.item[after] = [used |-> UsedIn(h, after), next |-> NextOf(h, after), prev |-> r]
    <3>1. g.item[after] = [h.item[after] EXCEPT !.prev = r] /\ h.item[after] \in Item
      BY <1>2, <1>3, <1>4, <1>5, <2>4
    <3>2. [h.item[after] EXCEPT !.prev = r] =
            [used |-> h.item[after].used, next |-> h.item[after].next, prev |-> r]
      BY <3>1, ItemUpdates
    <3> QED
      BY <3>1, <3>2 DEF UsedIn, NextOf
  <2> QED
    BY <2>1, <2>2, <2>3, <2>4, <1>9
<1>11. DOMAIN g = Fields /\ g.lfree = h.lfree /\ g.used = h.used
       /\ DOMAIN g.item = DOMAIN h.item \cup {r} /\ DOMAIN g.cell = DOMAIN h.cell
  BY <1>2, <1>3, <1>4, <1>5
<1> HIDE DEF g
<1>12. IsSplit(h, g, a, r)
  BY <1>8, <1>10, <1>11 DEF IsSplit, after
<1> QED
  BY <1>1, <1>12 DEF r

-----------------------------------------------------------------------------
(* g is h with the block n, the one after p, swallowed by p.               *)
IsJoined(h, g, p, n) ==
  /\ DOMAIN g = Fields /\ g.used = h.used
  /\ g.lfree = IF h.lfree = n THEN p ELSE h.lfree
  /\ DOMAIN g.item = DOMAIN h.item \ {n}
  /\ g.item[p] = [used |-> UsedIn(h, p), next |-> NextOf(h, n), prev |-> PrevOf(h, p)]
  /\ \A x \in DOMAIN h.item \ {p, n} :
       g.item[x] = [used |-> UsedIn(h, x), next |-> NextOf(h, x),
                    prev |-> IF x = NextOf(h, n) THEN p ELSE PrevOf(h, x)]
  /\ DOMAIN g.cell = DOMAIN h.cell
  /\ \A c \in DOMAIN h.cell :
       c < End => g.cell[c] = IF c \in Span(n, Header) THEN Unwritten ELSE h.cell[c]

(* What plug_holes does with two free blocks that touch.                   *)
Joined(h, p, n) ==
  LET after == h.item[n].next
      g == DropItem([h EXCEPT !.lfree = IF @ = n THEN p ELSE @], n)
  IN  PutItem(PutItem(g, p, [g.item[p] EXCEPT !.next = after]),
              after, [g.item[after] EXCEPT !.prev = p])

(* Joined swallows the block.                                              *)
LEMMA JoinedIsJoined ==
  ASSUME NEW h, Sound(h), NEW p \in BlocksOf(h), NEW n \in BlocksOf(h), n = NextOf(h, p)
  PROVE  IsJoined(h, Joined(h, p, n), p, n)
<1> DEFINE after == NextOf(h, n)
           g0 == [h EXCEPT !.lfree = IF @ = n THEN p ELSE @]
           g1 == DropItem(g0, n)
           g2 == PutItem(g1, p, [g1.item[p] EXCEPT !.next = after])
           g == PutItem(g2, after, [g1.item[after] EXCEPT !.prev = p])
<1>1. g = Joined(h, p, n)
  BY DEF Joined, NextOf
<1>2. /\ p \in Nat /\ n \in Nat /\ after \in Nat /\ after \in DOMAIN h.item
      /\ p \in DOMAIN h.item /\ n \in DOMAIN h.item
      /\ p + Header < n /\ n + Header < after /\ after <= End /\ End \in Nat /\ Header = 2
      /\ DOMAIN h = Fields /\ DOMAIN h.cell = 0..(End + Header - 1)
      /\ \A x \in DOMAIN h.item : h.item[x] \in Item
  BY ChainFacts, Sizing DEF Sound, Shaped
<1> HIDE DEF after
<1>3. /\ DOMAIN g0 = Fields /\ g0.item = h.item /\ g0.cell = h.cell /\ g0.used = h.used
      /\ g0.lfree = IF h.lfree = n THEN p ELSE h.lfree
  BY <1>2 DEF Fields
<1> HIDE DEF g0
<1>4. HasDropped(g0, g1, n)
  BY <1>3, DropItemDrops
<1> HIDE DEF g1
<1>5. HasPut(g1, g2, p, [g1.item[p] EXCEPT !.next = after])
  BY <1>4, PutItemPuts DEF HasDropped
<1> HIDE DEF g2
<1>6. HasPut(g2, g, after, [g1.item[after] EXCEPT !.prev = p])
  BY <1>5, PutItemPuts DEF HasPut
<1> HIDE DEF g
<1> USE DEF HasPut, HasDropped
<1>7. /\ \A c \in Span(p, Header) : h.cell[c] = HeaderCell
      /\ after # End => \A c \in Span(after, Header) : h.cell[c] = HeaderCell
      /\ \A c \in DOMAIN h.cell : c \in Span(p, Header) => c \notin Span(n, Header)
      /\ \A c \in DOMAIN h.cell : c \in Span(after, Header) =>
            c \notin Span(n, Header) /\ (after = End => c >= End)
  <2>1. (\A c \in Span(p, Header) : h.cell[c] = HeaderCell)
        /\ (after # End => \A c \in Span(after, Header) : h.cell[c] = HeaderCell)
    BY <1>2 DEF Sound, HeadersIntact, BlocksOf
  <2>2. ASSUME NEW c \in DOMAIN h.cell
        PROVE  /\ c \in Span(p, Header) => c \notin Span(n, Header)
               /\ c \in Span(after, Header) => c \notin Span(n, Header) /\ (after = End => c >= End)
    BY <1>2 DEF Span
  <2> QED
    BY <2>1, <2>2
<1>8. \A c \in DOMAIN h.cell :
        g.cell[c] = IF c \in Span(n, Header) THEN Unwritten
                    ELSE IF c \in Span(p, Header) \cup Span(after, Header) THEN HeaderCell ELSE h.cell[c]
  BY <1>3, <1>4, <1>5, <1>6, <1>7
<1>9. ASSUME NEW c \in DOMAIN h.cell, c < End
      PROVE  g.cell[c] = IF c \in Span(n, Header) THEN Unwritten ELSE h.cell[c]
  BY <1>2, <1>7, <1>8, <1>9
<1>10. g.item[p] = [used |-> UsedIn(h, p), next |-> after, prev |-> PrevOf(h, p)]
  <2>1. g.item[p] = [h.item[p] EXCEPT !.next = after]
    BY <1>2, <1>3, <1>4, <1>5, <1>6
  <2> QED
    BY <2>1, <1>2, ItemUpdates DEF UsedIn, PrevOf
<1>11. g.item[after] = [used |-> UsedIn(h, after), next |-> NextOf(h, after), prev |-> p]
  <2>1. g1.item[after] = h.item[after] /\ after \in DOMAIN g2.item
    BY <1>2, <1>3, <1>4, <1>5
  <2>2. g.item[after] = [h.item[after] EXCEPT !.prev = p]
    BY <2>1, <1>6
  <2> QED
    BY <2>2, <1>2, ItemUpdates DEF UsedIn, NextOf
<1>12. \A x \in DOMAIN h.item \ {p, n, after} :
          g.item[x] = [used |-> UsedIn(h, x), next |-> NextOf(h, x), prev |-> PrevOf(h, x)]
  <2> SUFFICES ASSUME NEW x \in DOMAIN h.item \ {p, n, after}
               PROVE  g.item[x] = [used |-> UsedIn(h, x), next |-> NextOf(h, x), prev |-> PrevOf(h, x)]
    OBVIOUS
  <2>1. g.item[x] = h.item[x]
    BY <1>2, <1>3, <1>4, <1>5, <1>6
  <2> QED
    BY <2>1, <1>2, ItemUpdates DEF UsedIn, NextOf, PrevOf
<1>13. /\ DOMAIN g = Fields /\ g.used = h.used
       /\ g.lfree = IF h.lfree = n THEN p ELSE h.lfree
       /\ DOMAIN g.item = DOMAIN h.item \ {n} /\ DOMAIN g.cell = DOMAIN h.cell
  BY <1>2, <1>3, <1>4, <1>5, <1>6
<1>14. IsJoined(h, g, p, n)
  BY <1>9, <1>10, <1>11, <1>12, <1>13 DEF IsJoined, after
<1> QED
  BY <1>1, <1>14

(* The same, for the links of the blocks.                                  *)
LEMMA SplitLinks ==
  ASSUME NEW h, NEW g, NEW a, NEW r, IsSplit(h, g, a, r)
  PROVE  /\ ~UsedIn(g, r) /\ NextOf(g, r) = NextOf(h, a) /\ PrevOf(g, r) = a
         /\ UsedIn(g, a) = UsedIn(h, a) /\ NextOf(g, a) = r /\ PrevOf(g, a) = PrevOf(h, a)
         /\ \A x \in DOMAIN h.item \ {a} :
              /\ UsedIn(g, x) = UsedIn(h, x) /\ NextOf(g, x) = NextOf(h, x)
              /\ PrevOf(g, x) = IF x = NextOf(h, a) /\ x # End THEN r ELSE PrevOf(h, x)
<1>1. ASSUME NEW x, NEW u, NEW n, NEW p, g.item[x] = [used |-> u, next |-> n, prev |-> p]
      PROVE  UsedIn(g, x) = u /\ NextOf(g, x) = n /\ PrevOf(g, x) = p
  BY <1>1 DEF UsedIn, NextOf, PrevOf
<1>2. UsedIn(g, r) = FALSE /\ NextOf(g, r) = NextOf(h, a) /\ PrevOf(g, r) = a
  BY <1>1 DEF IsSplit
<1>3. UsedIn(g, a) = UsedIn(h, a) /\ NextOf(g, a) = r /\ PrevOf(g, a) = PrevOf(h, a)
  BY <1>1 DEF IsSplit
<1>4. ASSUME NEW x \in DOMAIN h.item \ {a}
      PROVE  /\ UsedIn(g, x) = UsedIn(h, x) /\ NextOf(g, x) = NextOf(h, x)
             /\ PrevOf(g, x) = IF x = NextOf(h, a) /\ x # End THEN r ELSE PrevOf(h, x)
  <2> DEFINE q == IF x = NextOf(h, a) /\ x # End THEN r ELSE PrevOf(h, x)
  <2>1. g.item[x] = [used |-> UsedIn(h, x), next |-> NextOf(h, x), prev |-> q]
    BY DEF IsSplit
  <2> HIDE DEF q
  <2>2. UsedIn(g, x) = UsedIn(h, x) /\ NextOf(g, x) = NextOf(h, x) /\ PrevOf(g, x) = q
    BY <1>1, <2>1
  <2> QED
    BY <2>2 DEF q
<1> QED
  BY <1>2, <1>3, <1>4

(* And of a join.                                                          *)
LEMMA JoinLinks ==
  ASSUME NEW h, NEW g, NEW p, NEW n, IsJoined(h, g, p, n)
  PROVE  /\ UsedIn(g, p) = UsedIn(h, p) /\ NextOf(g, p) = NextOf(h, n) /\ PrevOf(g, p) = PrevOf(h, p)
         /\ \A x \in DOMAIN h.item \ {p, n} :
              /\ UsedIn(g, x) = UsedIn(h, x) /\ NextOf(g, x) = NextOf(h, x)
              /\ PrevOf(g, x) = IF x = NextOf(h, n) THEN p ELSE PrevOf(h, x)
<1>1. ASSUME NEW x, NEW u, NEW m, NEW q, g.item[x] = [used |-> u, next |-> m, prev |-> q]
      PROVE  UsedIn(g, x) = u /\ NextOf(g, x) = m /\ PrevOf(g, x) = q
  BY <1>1 DEF UsedIn, NextOf, PrevOf
<1>2. UsedIn(g, p) = UsedIn(h, p) /\ NextOf(g, p) = NextOf(h, n) /\ PrevOf(g, p) = PrevOf(h, p)
  BY <1>1 DEF IsJoined
<1>3. ASSUME NEW x \in DOMAIN h.item \ {p, n}
      PROVE  /\ UsedIn(g, x) = UsedIn(h, x) /\ NextOf(g, x) = NextOf(h, x)
             /\ PrevOf(g, x) = IF x = NextOf(h, n) THEN p ELSE PrevOf(h, x)
  <2> DEFINE q == IF x = NextOf(h, n) THEN p ELSE PrevOf(h, x)
  <2>1. g.item[x] = [used |-> UsedIn(h, x), next |-> NextOf(h, x), prev |-> q]
    BY DEF IsJoined
  <2> HIDE DEF q
  <2>2. UsedIn(g, x) = UsedIn(h, x) /\ NextOf(g, x) = NextOf(h, x) /\ PrevOf(g, x) = q
    BY <1>1, <2>1
  <2> QED
    BY <2>2 DEF q
<1> QED
  BY <1>2, <1>3

(* Cutting a block in two leaves the chain whole.                          *)
LEMMA SplitKeepsSound ==
  ASSUME NEW h, Sound(h), NEW g, NEW a \in BlocksOf(h), NEW r \in Nat, IsSplit(h, g, a, r),
         a + Header < r, r + Header < NextOf(h, a)
  PROVE  Sound(g)
<1>1. Shaped(g)
  <2>1. NextOf(h, a) \in 0..End /\ r \in 0..End /\ a \in 0..End /\ PrevOf(h, a) \in 0..End
    BY ChainFacts, Sizing DEF Sound, Shaped, PrevOf, Item, BlocksOf
  <2>2. \A x \in DOMAIN h.item : /\ UsedIn(h, x) \in BOOLEAN
                                 /\ NextOf(h, x) \in 0..End /\ PrevOf(h, x) \in 0..End
    BY DEF Sound, Shaped, Item, UsedIn, NextOf, PrevOf
  <2>3. \A x \in DOMAIN g.item : g.item[x] \in Item
    <3>1. g.item[r] \in Item /\ g.item[a] \in Item
      BY <2>1, <2>2 DEF IsSplit, Item, BlocksOf
    <3>2. ASSUME NEW x \in DOMAIN h.item \ {a} PROVE g.item[x] \in Item
      <4>1. PICK q \in 0..End : g.item[x] = [used |-> UsedIn(h, x), next |-> NextOf(h, x), prev |-> q]
        BY <2>1, <2>2 DEF IsSplit
      <4> QED
        BY <4>1, <2>2 DEF Item
    <3> QED
      BY <3>1, <3>2 DEF IsSplit
  <2> QED
    BY <2>1, <2>3 DEF IsSplit, Shaped, Sound
<1>2. Chained(g)
  <2> DEFINE n == NextOf(h, a)
  <2>1. /\ DOMAIN g.item = DOMAIN h.item \cup {r} /\ BlocksOf(g) = BlocksOf(h) \cup {r}
        /\ r \notin DOMAIN h.item /\ r > a + Header /\ n > r + Header /\ n \in DOMAIN h.item
        /\ a \in DOMAIN h.item /\ a \in Nat /\ n \in Nat /\ r # End
        /\ NextOf(h, a) = n /\ Header = 2
    BY ChainFacts, Sizing DEF Sound, IsSplit, BlocksOf
  <2>l. /\ NextOf(g, r) = n /\ PrevOf(g, r) = a /\ NextOf(g, a) = r /\ PrevOf(g, a) = PrevOf(h, a)
        /\ \A x \in DOMAIN h.item \ {a} :
              /\ NextOf(g, x) = NextOf(h, x)
              /\ PrevOf(g, x) = IF x = n /\ x # End THEN r ELSE PrevOf(h, x)
    BY SplitLinks
  <2>c. /\ \A x \in DOMAIN h.item : x \in Nat
        /\ \A x \in BlocksOf(h) :
              /\ x \in DOMAIN h.item
              /\ NextOf(h, x) \in Nat /\ NextOf(h, x) > x + Header /\ NextOf(h, x) \in DOMAIN h.item
              /\ \A b \in DOMAIN h.item : b > x => b >= NextOf(h, x)
              /\ NextOf(h, x) # End => PrevOf(h, NextOf(h, x)) = x
    BY ChainFacts DEF Sound, Chained
  <2> HIDE DEF n
  <2>2. ASSUME NEW x \in BlocksOf(g)
        PROVE /\ NextOf(g, x) \in DOMAIN g.item /\ NextOf(g, x) > x + Header
              /\ \A b \in DOMAIN g.item : ~(x < b /\ b < NextOf(g, x))
              /\ NextOf(g, x) # End => PrevOf(g, NextOf(g, x)) = x
    <3>1. CASE x = a
      BY <2>1, <2>l, <2>c, <3>1
    <3>2. CASE x = r
      BY <2>1, <2>l, <2>c, <3>2
    <3>3. CASE x \in BlocksOf(h) \ {a}
      BY <2>1, <2>l, <2>c, <3>3
    <3> QED
      BY <2>1, <3>1, <3>2, <3>3
  <2>3. ASSUME NEW x \in DOMAIN g.item \ {0} PROVE \E y \in BlocksOf(g) : NextOf(g, y) = x
    <3>1. CASE x = r
      BY <2>1, <3>1, SplitLinks
    <3>2. CASE x = n
      BY <2>1, <2>l, <3>2
    <3>3. CASE x \in DOMAIN h.item \ {0, n}
      <4>1. PICK y \in BlocksOf(h) : NextOf(h, y) = x
        BY <3>3 DEF Sound, Chained
      <4> QED
        BY <4>1, <3>3, <2>1, SplitLinks DEF BlocksOf
    <3> QED
      BY <2>1, <3>1, <3>2, <3>3
  <2>4. PrevOf(g, 0) = 0 /\ UsedIn(g, End) /\ NextOf(g, End) = End
    BY <2>1, SplitLinks, ChainFacts, Sizing DEF Sound, Chained, Shaped, BlocksOf
  <2> QED
    BY <2>2, <2>3, <2>4 DEF Chained
<1>3. HeadersIntact(g)
  <2>1. ASSUME NEW x \in BlocksOf(g), NEW c \in Span(x, Header) PROVE g.cell[c] = HeaderCell
    <3>1. c \in DOMAIN h.cell
      <4>1. x \in 0..End /\ x < End
        BY <1>1, Sizing DEF BlocksOf, Shaped
      <4> QED
        BY <4>1, Sizing DEF Span, Sound, Shaped
    <3>2. x \in BlocksOf(h) \/ x = r
      BY DEF IsSplit, BlocksOf
    <3>3. x \in BlocksOf(h) => h.cell[c] = HeaderCell
      BY <2>1 DEF Sound, HeadersIntact
    <3> QED
      BY <2>1, <3>1, <3>2, <3>3 DEF IsSplit
  <2> QED
    BY <2>1 DEF HeadersIntact
<1> QED
  BY <1>1, <1>2, <1>3 DEF Sound

(* So does joining two.                                                    *)
LEMMA JoinKeepsSound ==
  ASSUME NEW h, Sound(h), NEW g, NEW p \in BlocksOf(h), NEW n \in BlocksOf(h), n = NextOf(h, p),
         IsJoined(h, g, p, n)
  PROVE  Sound(g)
<1> DEFINE m == NextOf(h, n)
<1>1. /\ DOMAIN g.item = DOMAIN h.item \ {n} /\ BlocksOf(g) = BlocksOf(h) \ {n}
      /\ n > p + Header /\ m > n + Header /\ m \in DOMAIN h.item /\ m <= End
      /\ p \in DOMAIN h.item /\ p \in Nat /\ n \in Nat /\ m \in Nat /\ n \in DOMAIN h.item
      /\ NextOf(h, p) = n /\ NextOf(h, n) = m /\ n # End /\ p # End /\ n # 0
      /\ Header = 2 /\ End \in Nat
  BY ChainFacts, Sizing DEF Sound, IsJoined, BlocksOf
<1>2. /\ UsedIn(g, p) = UsedIn(h, p) /\ NextOf(g, p) = m /\ PrevOf(g, p) = PrevOf(h, p)
      /\ \A x \in DOMAIN h.item \ {p, n} :
              /\ UsedIn(g, x) = UsedIn(h, x) /\ NextOf(g, x) = NextOf(h, x)
              /\ PrevOf(g, x) = IF x = m THEN p ELSE PrevOf(h, x)
  BY JoinLinks
<1>3. /\ \A x \in DOMAIN h.item : x \in Nat
      /\ \A x \in BlocksOf(h) :
              /\ x \in DOMAIN h.item
              /\ NextOf(h, x) \in Nat /\ NextOf(h, x) > x + Header /\ NextOf(h, x) \in DOMAIN h.item
              /\ \A b \in DOMAIN h.item : b > x => b >= NextOf(h, x)
              /\ NextOf(h, x) # End => PrevOf(h, NextOf(h, x)) = x
  BY ChainFacts DEF Sound, Chained
<1>4. Shaped(g)
  <2>1. \A x \in DOMAIN h.item : /\ UsedIn(h, x) \in BOOLEAN
                                 /\ NextOf(h, x) \in 0..End /\ PrevOf(h, x) \in 0..End
    BY DEF Sound, Shaped, Item, UsedIn, NextOf, PrevOf
  <2>2. ASSUME NEW x \in DOMAIN g.item PROVE g.item[x] \in Item
    <3>1. PICK u \in BOOLEAN, v \in 0..End, w \in 0..End : g.item[x] = [used |-> u, next |-> v, prev |-> w]
      <4>1. CASE x = p
        BY <1>1, <2>1, <4>1 DEF IsJoined
      <4>2. CASE x \in DOMAIN h.item \ {p, n}
        <5>1. PICK w \in 0..End : g.item[x] = [used |-> UsedIn(h, x), next |-> NextOf(h, x), prev |-> w]
          BY <1>1, <2>1, <4>2 DEF IsJoined
        <5> QED
          BY <5>1, <2>1, <4>2
      <4> QED
        BY <1>1, <4>1, <4>2
    <3> QED
      BY <3>1 DEF Item
  <2> QED
    BY <1>1, <2>2 DEF IsJoined, Shaped, Sound
<1> HIDE DEF m
<1>5. Chained(g)
  <2>1. ASSUME NEW x \in BlocksOf(g)
        PROVE /\ NextOf(g, x) \in DOMAIN g.item /\ NextOf(g, x) > x + Header
              /\ \A b \in DOMAIN g.item : ~(x < b /\ b < NextOf(g, x))
              /\ NextOf(g, x) # End => PrevOf(g, NextOf(g, x)) = x
    <3>1. CASE x = p
      BY <1>1, <1>2, <1>3, <3>1
    <3>2. CASE x \in BlocksOf(h) \ {p, n}
      BY <1>1, <1>2, <1>3, <3>2
    <3> QED
      BY <1>1, <3>1, <3>2
  <2>2. ASSUME NEW x \in DOMAIN g.item \ {0} PROVE \E y \in BlocksOf(g) : NextOf(g, y) = x
    <3>1. CASE x = m
      BY <1>1, <1>2, <3>1 DEF BlocksOf
    <3>2. CASE x \in DOMAIN h.item \ {0, n, m}
      <4>1. PICK y \in BlocksOf(h) : NextOf(h, y) = x
        BY <3>2 DEF Sound, Chained
      <4> QED
        BY <4>1, <3>2, <1>1, <1>2, <1>3
    <3> QED
      BY <1>1, <3>1, <3>2
  <2>3. PrevOf(g, 0) = 0 /\ UsedIn(g, End) /\ NextOf(g, End) = End
    BY <1>1, <1>2, Sizing DEF Sound, Chained, Shaped
  <2> QED
    BY <2>1, <2>2, <2>3 DEF Chained
<1>6. HeadersIntact(g)
  <2>1. ASSUME NEW x \in BlocksOf(g), NEW c \in Span(x, Header) PROVE g.cell[c] = HeaderCell
    <3>1. x \in BlocksOf(h) /\ x # n /\ x \in Nat /\ c >= x /\ c < x + Header /\ c \in Nat
      BY <1>1, <1>3 DEF Span
    <3>2. c < End /\ c \in DOMAIN h.cell
      BY <1>1, <3>1, ChainFacts DEF Sound, Shaped
    <3>3. c \notin Span(n, Header)
      BY <1>1, <1>3, <3>1 DEF Span
    <3>4. h.cell[c] = HeaderCell
      BY <2>1, <3>1 DEF Sound, HeadersIntact
    <3> QED
      BY <3>2, <3>3, <3>4 DEF IsJoined
  <2> QED
    BY <2>1 DEF HeadersIntact
<1> QED
  BY <1>4, <1>5, <1>6 DEF Sound

-----------------------------------------------------------------------------
(* The blocks in use, the free ones, and plug_holes.                       *)
UsedBlocks(h) == {a \in BlocksOf(h) : UsedIn(h, a)}
FreeBlocks(h) == {a \in BlocksOf(h) : ~UsedIn(h, a)}

(* lfree is the lowest free block, or heap_end when there is none.         *)
LowestFree(h) ==
  /\ h.lfree \in FreeBlocks(h) \cup {End}
  /\ \A a \in FreeBlocks(h) : h.lfree <= a

(* No two free blocks touch, but perhaps a and a block next to it.         *)
ApartBut(h, a) ==
  \A x \in FreeBlocks(h) : UsedIn(h, NextOf(h, x)) \/ x = a \/ NextOf(h, x) = a
Apart(h) == \A x \in FreeBlocks(h) : UsedIn(h, NextOf(h, x))

(* g has the blocks in use of h, with what is in them.                     *)
Keeps(h, g, S) ==
  /\ \A x \in S :
       /\ NextOf(g, x) = NextOf(h, x)
       /\ \A c \in x..(NextOf(h, x) - 1) : g.cell[c] = h.cell[c]
  /\ DOMAIN g.cell = DOMAIN h.cell
SameUse(h, g) ==
  UsedBlocks(g) = UsedBlocks(h) /\ g.used = h.used /\ Keeps(h, g, UsedBlocks(h))

(* Joining two free blocks concerns no block in use.                       *)
LEMMA JoinKeepsUse ==
  ASSUME NEW h, Sound(h), LowestFree(h), NEW p \in FreeBlocks(h), NEW n \in FreeBlocks(h),
         n = NextOf(h, p)
  PROVE  LET g == Joined(h, p, n) IN
         /\ Sound(g) /\ LowestFree(g) /\ SameUse(h, g)
         /\ FreeBlocks(g) = FreeBlocks(h) \ {n} /\ NextOf(g, p) = NextOf(h, n)
         /\ \A x \in DOMAIN h.item \ {n} : UsedIn(g, x) = UsedIn(h, x)
         /\ \A x \in DOMAIN h.item \ {p, n} : NextOf(g, x) = NextOf(h, x)
         /\ \A x \in DOMAIN h.item \ {NextOf(h, n), n} : PrevOf(g, x) = PrevOf(h, x)
<1> DEFINE g == Joined(h, p, n)
<1>1. IsJoined(h, g, p, n) /\ p \in BlocksOf(h) /\ n \in BlocksOf(h)
  BY JoinedIsJoined DEF FreeBlocks
<1> HIDE DEF g
<1>2. Sound(g)
  BY <1>1, JoinKeepsSound
<1>3. /\ UsedIn(g, p) = UsedIn(h, p) /\ NextOf(g, p) = NextOf(h, n) /\ PrevOf(g, p) = PrevOf(h, p)
      /\ \A x \in DOMAIN h.item \ {p, n} :
              /\ UsedIn(g, x) = UsedIn(h, x) /\ NextOf(g, x) = NextOf(h, x)
              /\ PrevOf(g, x) = IF x = NextOf(h, n) THEN p ELSE PrevOf(h, x)
  BY <1>1, JoinLinks
<1>4. DOMAIN g.item = DOMAIN h.item \ {n} /\ BlocksOf(g) = BlocksOf(h) \ {n}
  BY <1>1 DEF IsJoined, BlocksOf
<1>5. ~UsedIn(h, p) /\ ~UsedIn(h, n) /\ p < n /\ p \in Nat /\ n \in Nat
  BY ChainFacts, Sizing DEF Sound, FreeBlocks
<1>6. \A x \in DOMAIN h.item \ {n} : UsedIn(g, x) <=> UsedIn(h, x)
  BY <1>3
<1>7. UsedBlocks(g) = UsedBlocks(h) /\ FreeBlocks(g) = FreeBlocks(h) \ {n}
  BY <1>4, <1>5, <1>6 DEF UsedBlocks, FreeBlocks, BlocksOf
<1>8. LowestFree(g)
  <2>1. h.lfree # n /\ g.lfree = h.lfree
    BY <1>1, <1>5 DEF LowestFree, IsJoined
  <2> QED
    BY <1>7, <2>1 DEF LowestFree
<1>9. SameUse(h, g)
  <2>1. ASSUME NEW x \in UsedBlocks(h)
        PROVE /\ NextOf(g, x) = NextOf(h, x)
              /\ \A c \in x..(NextOf(h, x) - 1) : g.cell[c] = h.cell[c]
    <3>1. x \in BlocksOf(h) /\ x # p /\ x # n /\ x \in DOMAIN h.item
      BY <1>5 DEF UsedBlocks, BlocksOf
    <3>2. NextOf(g, x) = NextOf(h, x)
      BY <1>3, <3>1
    <3>3. ASSUME NEW c \in x..(NextOf(h, x) - 1) PROVE g.cell[c] = h.cell[c]
      <4>1. /\ x \in Nat /\ NextOf(h, x) \in Nat /\ NextOf(h, x) <= End /\ n \in Nat
            /\ (n > x => n >= NextOf(h, x)) /\ (x > n => x > n + Header) /\ Header = 2
            /\ End \in Nat /\ DOMAIN h.cell = 0..(End + Header - 1)
        BY <1>1, <3>1, ChainFacts, Sizing DEF Sound, Shaped, BlocksOf
      <4>2. c \in Nat /\ c < End /\ x <= c /\ c < NextOf(h, x) /\ c \in DOMAIN h.cell
        BY <4>1
      <4>3. c \notin Span(n, Header)
        BY <3>1, <4>1, <4>2 DEF Span
      <4> QED
        BY <1>1, <4>2, <4>3 DEF IsJoined
    <3> QED
      BY <3>2, <3>3
  <2> QED
    BY <1>1, <1>7, <2>1 DEF SameUse, Keeps, IsJoined
<1>10. /\ \A x \in DOMAIN h.item \ {p, n} : NextOf(g, x) = NextOf(h, x)
       /\ \A x \in DOMAIN h.item \ {NextOf(h, n), n} : PrevOf(g, x) = PrevOf(h, x)
       /\ \A x \in DOMAIN h.item \ {n} : UsedIn(g, x) = UsedIn(h, x)
  BY <1>3
<1> QED
  BY <1>2, <1>3, <1>7, <1>8, <1>9, <1>10 DEF g

(* What two steps each leave in use, they leave so together.               *)
LEMMA SameUseTransitive ==
  ASSUME NEW h, NEW g, NEW k, SameUse(h, g), SameUse(g, k)
  PROVE  SameUse(h, k)
<1>1. ASSUME NEW x \in UsedBlocks(h), NEW c \in x..(NextOf(h, x) - 1)
      PROVE  k.cell[c] = h.cell[c]
  BY <1>1 DEF SameUse, Keeps
<1> QED
  BY <1>1 DEF SameUse, Keeps

(* Nothing done leaves all in use.                                         *)
LEMMA SameUseReflexive ==
  ASSUME NEW h
  PROVE  SameUse(h, h)
  BY DEF SameUse, Keeps

(* After the first half of plug_holes only a and the block before it may   *)
(* both be free.                                                           *)
LEMMA PlugForwardKeepsUse ==
  ASSUME NEW h, Sound(h), LowestFree(h), NEW a \in FreeBlocks(h), ApartBut(h, a)
  PROVE  LET g == PlugForward(h, a) IN
         /\ Sound(g) /\ LowestFree(g) /\ SameUse(h, g)
         /\ a \in FreeBlocks(g) /\ PrevOf(g, a) = PrevOf(h, a)
         /\ \A x \in FreeBlocks(g) : UsedIn(g, NextOf(g, x)) \/ NextOf(g, x) = a
<1> DEFINE n == NextOf(h, a)
           g == PlugForward(h, a)
<1>1. /\ a \in BlocksOf(h) /\ a \in Nat /\ n \in Nat /\ n # a /\ n \in DOMAIN h.item
      /\ n > a /\ a \in DOMAIN h.item /\ Header = 2
  BY ChainFacts, Sizing DEF FreeBlocks, Sound
<1>2. UsedIn(h, End)
  BY DEF Sound, Chained
<1>3. CASE UsedIn(h, n)
  <2>1. g = h
    BY <1>3 DEF PlugForward, UsedIn, NextOf
  <2>2. ASSUME NEW x \in FreeBlocks(h), ~UsedIn(h, NextOf(h, x)) PROVE NextOf(h, x) = a
    BY <1>3, <2>2 DEF ApartBut
  <2> QED
    BY <2>1, <2>2, SameUseReflexive
<1>4. CASE ~UsedIn(h, n)
  <2>1. g = Joined(h, a, n)
    BY <1>1, <1>2, <1>4 DEF PlugForward, Joined, UsedIn, NextOf
  <2>2. n \in FreeBlocks(h)
    BY <1>1, <1>2, <1>4 DEF FreeBlocks, BlocksOf
  <2> DEFINE m == NextOf(h, n)
  <2>3. /\ Sound(g) /\ LowestFree(g) /\ SameUse(h, g)
        /\ FreeBlocks(g) = FreeBlocks(h) \ {n} /\ NextOf(g, a) = m
        /\ \A x \in DOMAIN h.item \ {n} : UsedIn(g, x) = UsedIn(h, x)
        /\ \A x \in DOMAIN h.item \ {a, n} : NextOf(g, x) = NextOf(h, x)
        /\ \A x \in DOMAIN h.item \ {m, n} : PrevOf(g, x) = PrevOf(h, x)
    BY <2>1, <2>2, JoinKeepsUse
  <2>4. n \in BlocksOf(h) /\ m \in DOMAIN h.item /\ m > n /\ m \in Nat
    BY <2>2, ChainFacts, Sizing DEF FreeBlocks, Sound
  <2> HIDE DEF g, m, n
  <2>5. UsedIn(h, m)
    BY <1>1, <2>2, <2>4 DEF ApartBut, m
  <2>6. ASSUME NEW x \in FreeBlocks(g), x # a PROVE UsedIn(g, NextOf(g, x)) \/ NextOf(g, x) = a
    <3>1. x \in FreeBlocks(h) /\ x \in DOMAIN h.item /\ x # n
      BY <2>3 DEF FreeBlocks, BlocksOf
    <3>2. NextOf(g, x) = NextOf(h, x) /\ NextOf(h, x) \in DOMAIN h.item
      BY <2>3, <2>6, <3>1, ChainFacts DEF FreeBlocks, Sound
    <3>3. UsedIn(h, NextOf(h, x)) \/ NextOf(h, x) = a
      BY <2>6, <3>1 DEF ApartBut
    <3>4. NextOf(h, x) # n
      <4>1. x \in BlocksOf(h)
        BY <3>1 DEF FreeBlocks
      <4>2. x < a \/ x > a
        BY <2>6, <3>1, <1>1, ChainFacts DEF Sound
      <4>3. (x < a => NextOf(h, x) <= a) /\ (x > a => x >= n) /\ NextOf(h, x) > x + Header
            /\ NextOf(h, x) \in Nat /\ x \in Nat
        BY <1>1, <3>1, <4>1, ChainFacts DEF Sound, n
      <4> QED
        BY <4>2, <4>3, <1>1
    <3> QED
      BY <2>3, <3>2, <3>3, <3>4
  <2>7. UsedIn(g, NextOf(g, a))
    BY <2>3, <2>4, <2>5
  <2>8. a \in FreeBlocks(g) /\ PrevOf(g, a) = PrevOf(h, a)
    BY <1>1, <2>3, <2>4
  <2> QED
    BY <2>3, <2>6, <2>7, <2>8 DEF g
<1> QED
  BY <1>3, <1>4

(* After the second half no two free blocks touch.                         *)
LEMMA PlugBackwardKeepsUse ==
  ASSUME NEW h, Sound(h), LowestFree(h), NEW a \in FreeBlocks(h),
         \A x \in FreeBlocks(h) : UsedIn(h, NextOf(h, x)) \/ NextOf(h, x) = a
  PROVE  LET g == PlugBackward(h, a) IN
         Sound(g) /\ LowestFree(g) /\ SameUse(h, g) /\ Apart(g)
<1> DEFINE p == PrevOf(h, a)
           g == PlugBackward(h, a)
<1>1. /\ a \in BlocksOf(h) /\ a \in Nat /\ a \in DOMAIN h.item /\ PrevOf(h, 0) = 0
  BY ChainFacts DEF FreeBlocks, Sound, Chained
<1>2. CASE a = 0 \/ UsedIn(h, p)
  <2>1. g = h
    BY <1>1, <1>2 DEF PlugBackward, UsedIn, PrevOf
  <2>2. ASSUME NEW x \in FreeBlocks(h), NextOf(h, x) = a PROVE FALSE
    <3>1. x \in BlocksOf(h) /\ a # End /\ ~UsedIn(h, x)
      BY <1>1 DEF FreeBlocks, BlocksOf
    <3>2. PrevOf(h, a) = x
      BY <2>2, <3>1 DEF Sound, Chained
    <3>3. a > x /\ x \in Nat
      BY <2>2, <3>1, ChainFacts, Sizing DEF Sound
    <3> QED
      BY <1>2, <3>1, <3>2, <3>3
  <2> QED
    BY <2>1, <2>2, SameUseReflexive DEF Apart
<1>3. CASE a # 0 /\ ~UsedIn(h, p)
  <2>1. p \in BlocksOf(h) /\ NextOf(h, p) = a /\ p \in FreeBlocks(h) /\ p # a /\ p \in Nat
    <3>1. p \in BlocksOf(h) /\ NextOf(h, p) = a
      BY <1>1, <1>3, ChainFacts DEF Sound
    <3> QED
      BY <3>1, <1>1, <1>3, ChainFacts, Sizing DEF FreeBlocks, Sound
  <2>2. g = Joined(h, p, a)
    BY <2>1, <1>3 DEF PlugBackward, Joined, UsedIn, PrevOf
  <2> DEFINE m == NextOf(h, a)
  <2>3. /\ Sound(g) /\ LowestFree(g) /\ SameUse(h, g)
        /\ FreeBlocks(g) = FreeBlocks(h) \ {a} /\ NextOf(g, p) = m
        /\ \A x \in DOMAIN h.item \ {a} : UsedIn(g, x) = UsedIn(h, x)
        /\ \A x \in DOMAIN h.item \ {p, a} : NextOf(g, x) = NextOf(h, x)
    BY <2>1, <2>2, JoinKeepsUse
  <2>4. m \in DOMAIN h.item /\ m > a /\ m \in Nat
    BY <1>1, ChainFacts, Sizing DEF Sound
  <2> HIDE DEF g, m, p
  <2>5. UsedIn(h, m)
    BY <1>1, <2>4 DEF m
  <2>6. ASSUME NEW x \in FreeBlocks(g), x # p PROVE UsedIn(g, NextOf(g, x))
    <3>1. x \in FreeBlocks(h) /\ x \in DOMAIN h.item /\ x # a /\ x \in BlocksOf(h)
      BY <2>3 DEF FreeBlocks, BlocksOf
    <3>2. NextOf(g, x) = NextOf(h, x) /\ NextOf(h, x) \in DOMAIN h.item
      BY <2>3, <2>6, <3>1, ChainFacts DEF Sound
    <3>3. NextOf(h, x) # a
      <4>1. a # End
        BY <1>1 DEF BlocksOf
      <4> QED
        BY <3>1, <2>6, <4>1 DEF Sound, Chained, p
    <3> QED
      BY <2>3, <3>1, <3>2, <3>3
  <2>7. UsedIn(g, NextOf(g, p))
    BY <1>1, <2>3, <2>4, <2>5
  <2> QED
    BY <2>3, <2>6, <2>7 DEF g, Apart
<1> QED
  BY <1>2, <1>3

(* plug_holes joins a free block with those it touches, and no more.       *)
LEMMA PlugHolesKeepsUse ==
  ASSUME NEW h, Sound(h), LowestFree(h), NEW a \in FreeBlocks(h), ApartBut(h, a)
  PROVE  LET g == PlugHoles(h, a) IN
         Sound(g) /\ LowestFree(g) /\ SameUse(h, g) /\ Apart(g)
<1> DEFINE k == PlugForward(h, a)
<1>1. /\ Sound(k) /\ LowestFree(k) /\ SameUse(h, k) /\ a \in FreeBlocks(k)
      /\ \A x \in FreeBlocks(k) : UsedIn(k, NextOf(k, x)) \/ NextOf(k, x) = a
  BY PlugForwardKeepsUse
<1> HIDE DEF k
<1>2. LET g == PlugBackward(k, a) IN
      Sound(g) /\ LowestFree(g) /\ SameUse(k, g) /\ Apart(g)
  BY <1>1, PlugBackwardKeepsUse
<1> QED
  BY <1>1, <1>2, SameUseTransitive DEF PlugHoles, k

-----------------------------------------------------------------------------
(* The units of the blocks in use, which used counts.                      *)
Units(h) == UNION {a..(NextOf(h, a) - 1) : a \in UsedBlocks(h)}
Counted(h) == h.used = Cardinality(Units(h))

(* A unit counts when it lies in a block in use.                           *)
LEMMA UnitsMember ==
  ASSUME NEW h, NEW c
  PROVE  c \in Units(h) <=> \E a \in UsedBlocks(h) : c \in a..(NextOf(h, a) - 1)
  BY DEF Units

(* There are no more of them than the memory has.                          *)
LEMMA UnitsBounded ==
  ASSUME NEW h, Sound(h)
  PROVE  /\ IsFiniteSet(Units(h)) /\ Cardinality(Units(h)) \in Nat
         /\ Cardinality(Units(h)) <= End
<1>1. Units(h) \subseteq 0..(End - 1)
  <2>1. ASSUME NEW c \in Units(h) PROVE c \in 0..(End - 1)
    <3>1. PICK a \in UsedBlocks(h) : c \in a..(NextOf(h, a) - 1)
      BY UnitsMember
    <3>2. a \in Nat /\ NextOf(h, a) \in Nat /\ NextOf(h, a) <= End
      BY ChainFacts DEF Sound, UsedBlocks
    <3> QED
      BY <3>1, <3>2, Sizing
  <2> QED
    BY <2>1
<1>2. IsFiniteSet(0..(End - 1)) /\ Cardinality(0..(End - 1)) = End
  BY FS_Interval, Sizing
<1> QED
  BY <1>1, <1>2, FS_Subset, FS_CardinalityType

(* A block apart from the others adds its length.                          *)
LEMMA UnitsAdded ==
  ASSUME NEW S, IsFiniteSet(S), NEW i \in Nat, NEW j \in Nat, i <= j,
         S \cap (i..(j - 1)) = {}
  PROVE  Cardinality(S \cup (i..(j - 1))) = Cardinality(S) + (j - i)
<1>1. IsFiniteSet(i..(j - 1)) /\ Cardinality(i..(j - 1)) = j - i
  <2>1. i \in Int /\ j - 1 \in Int
    OBVIOUS
  <2>2. IsFiniteSet(i..(j - 1)) /\ Cardinality(i..(j - 1)) = IF i > j - 1 THEN 0 ELSE (j - 1) - i + 1
    BY <2>1, FS_Interval
  <2> QED
    BY <2>2
<1>2. Cardinality(S \cap (i..(j - 1))) = 0
  BY FS_EmptySet
<1>3. Cardinality(S) \in Nat
  BY FS_CardinalityType
<1>4. Cardinality(S \cup (i..(j - 1))) = Cardinality(S) + Cardinality(i..(j - 1)) - Cardinality(S \cap (i..(j - 1)))
  BY <1>1, FS_Union
<1> QED
  BY <1>1, <1>2, <1>3, <1>4

(* The same blocks in use count the same.                                  *)
LEMMA UnitsOfSameUse ==
  ASSUME NEW h, NEW g, SameUse(h, g), Counted(h)
  PROVE  Counted(g)
<1>1. Units(g) = Units(h)
  BY DEF SameUse, Keeps, Units
<1> QED
  BY <1>1 DEF SameUse, Keeps, Counted

(* A change of what the blocks hold, or of whether they are used, keeps    *)
(* the chain.                                                              *)
LEMMA SameChainIsSound ==
  ASSUME NEW h, Sound(h), NEW g, DOMAIN g = Fields, DOMAIN g.item = DOMAIN h.item,
         \A x \in DOMAIN h.item : /\ NextOf(g, x) = NextOf(h, x) /\ PrevOf(g, x) = PrevOf(h, x)
                                 /\ g.item[x] \in Item,
         UsedIn(g, End),
         DOMAIN g.cell = DOMAIN h.cell,
         \A x \in BlocksOf(h) : \A c \in Span(x, Header) : g.cell[c] = h.cell[c]
  PROVE  Sound(g)
<1>1. Shaped(g)
  BY DEF Sound, Shaped
<1>2. BlocksOf(g) = BlocksOf(h)
  BY DEF BlocksOf
<1>3. Chained(g)
  <2>1. 0 \in DOMAIN h.item /\ End \in DOMAIN h.item
    BY DEF Sound, Shaped
  <2>2. \A x \in BlocksOf(h) : x \in DOMAIN h.item /\ NextOf(h, x) \in DOMAIN h.item
    BY DEF Sound, Chained, BlocksOf
  <2> QED
    BY <1>2, <2>1, <2>2 DEF Sound, Chained
<1>4. HeadersIntact(g)
  BY <1>2 DEF Sound, HeadersIntact
<1> QED
  BY <1>1, <1>3, <1>4 DEF Sound

(* A unit of data belongs to no header.                                    *)
LEMMA DataIsNoHeader ==
  ASSUME NEW h, Sound(h), NEW a \in BlocksOf(h), NEW c, c \in (a + Header)..(NextOf(h, a) - 1),
         NEW x \in BlocksOf(h)
  PROVE  c \notin Span(x, Header)
<1>1. /\ a \in Nat /\ x \in Nat /\ NextOf(h, a) \in Nat /\ NextOf(h, x) \in Nat
      /\ (x > a => x >= NextOf(h, a)) /\ (a > x => a >= NextOf(h, x))
      /\ NextOf(h, x) > x + Header /\ Header = 2
  BY ChainFacts, Sizing DEF Sound
<1> QED
  BY <1>1 DEF Span

(* Two blocks share no unit.                                               *)
LEMMA BlocksApart ==
  ASSUME NEW h, Sound(h), NEW a \in BlocksOf(h), NEW x \in BlocksOf(h), x # a
  PROVE  (a..(NextOf(h, a) - 1)) \cap (x..(NextOf(h, x) - 1)) = {}
<1>1. /\ a \in Nat /\ x \in Nat /\ NextOf(h, a) \in Nat /\ NextOf(h, x) \in Nat
      /\ (x > a => x >= NextOf(h, a)) /\ (a > x => a >= NextOf(h, x))
  BY ChainFacts DEF Sound
<1> QED
  BY <1>1

-----------------------------------------------------------------------------
(* rt_free.                                                                *)
Good(h) == Sound(h) /\ LowestFree(h) /\ Apart(h) /\ Counted(h)

(* The block a is marked used or free in g, and may hold something else.   *)
LEMMA MarkIsSound ==
  ASSUME NEW h, Sound(h), NEW g, NEW a \in BlocksOf(h), NEW v \in BOOLEAN,
         DOMAIN g = Fields, DOMAIN g.item = DOMAIN h.item,
         g.item[a] = [h.item[a] EXCEPT !.used = v],
         \A x \in DOMAIN h.item \ {a} : g.item[x] = h.item[x],
         DOMAIN g.cell = DOMAIN h.cell,
         \A c \in DOMAIN h.cell :
           c \notin (a + Header)..(NextOf(h, a) - 1) => g.cell[c] = h.cell[c]
  PROVE  /\ Sound(g) /\ BlocksOf(g) = BlocksOf(h) /\ UsedIn(g, a) = v
         /\ \A x \in DOMAIN h.item : NextOf(g, x) = NextOf(h, x)
         /\ \A x \in DOMAIN h.item \ {a} : UsedIn(g, x) = UsedIn(h, x)
<1>1. a \in DOMAIN h.item /\ h.item[a] \in Item /\ a # End /\ End \in DOMAIN h.item
  BY DEF BlocksOf, Sound, Shaped
<1>2. g.item[a] = [used |-> v, next |-> h.item[a].next, prev |-> h.item[a].prev]
  BY <1>1, ItemUpdates
<1>3. g.item[a] \in Item /\ UsedIn(g, a) = v /\ NextOf(g, a) = NextOf(h, a) /\ PrevOf(g, a) = PrevOf(h, a)
  BY <1>1, <1>2 DEF Item, UsedIn, NextOf, PrevOf
<1>4. \A x \in DOMAIN h.item \ {a} :
         /\ UsedIn(g, x) = UsedIn(h, x) /\ NextOf(g, x) = NextOf(h, x) /\ PrevOf(g, x) = PrevOf(h, x)
         /\ g.item[x] \in Item
  BY DEF UsedIn, NextOf, PrevOf, Sound, Shaped
<1>5. \A x \in DOMAIN h.item : /\ NextOf(g, x) = NextOf(h, x) /\ PrevOf(g, x) = PrevOf(h, x)
                              /\ g.item[x] \in Item
  BY <1>3, <1>4
<1>6. UsedIn(g, End)
  BY <1>1, <1>4 DEF Sound, Chained
<1>7. ASSUME NEW x \in BlocksOf(h), NEW c \in Span(x, Header) PROVE g.cell[c] = h.cell[c]
  <2>1. c \notin (a + Header)..(NextOf(h, a) - 1)
    BY <1>7, DataIsNoHeader
  <2>2. c \in DOMAIN h.cell
    <3>1. x \in Nat /\ x < End
      BY ChainFacts DEF Sound
    <3> QED
      BY <3>1, Sizing DEF Span, Sound, Shaped
  <2> QED
    BY <2>1, <2>2
<1>8. Sound(g)
  BY <1>5, <1>6, <1>7, SameChainIsSound
<1> QED
  BY <1>3, <1>4, <1>5, <1>8 DEF BlocksOf

(* What two steps each keep, they keep together.                           *)
LEMMA KeepsTransitive ==
  ASSUME NEW h, NEW g, NEW k, NEW S, NEW T, S \subseteq T, Keeps(h, g, S), Keeps(g, k, T)
  PROVE  Keeps(h, k, S)
  BY DEF Keeps

(* rt_smem_free gives the heap back the block, and nothing else.           *)
LEMMA FreedIsGood ==
  ASSUME NEW h, Good(h), NEW a \in UsedBlocks(h)
  PROVE  LET g == Freed(h, a) IN
         /\ Good(g) /\ UsedBlocks(g) = UsedBlocks(h) \ {a}
         /\ Keeps(h, g, UsedBlocks(h) \ {a})
<1> DEFINE g1 == PutItem(h, a, [h.item[a] EXCEPT !.used = FALSE])
           n == NextOf(h, a)
           k == [g1 EXCEPT !.used = @ - (n - a),
                           !.lfree = IF a < @ THEN a ELSE @,
                           !.cell = Written(@, a + Header, DataSize(h, a), Unwritten)]
<1>1. Freed(h, a) = PlugHoles(k, a)
  BY DEF Freed, NextOf
<1>2. /\ a \in BlocksOf(h) /\ a \in Nat /\ n \in Nat /\ n > a + Header /\ n <= End
      /\ Header = 2 /\ End \in Nat
      /\ n \in DOMAIN h.item /\ a \in DOMAIN h.item /\ UsedIn(h, a)
      /\ DOMAIN h.cell = 0..(End + Header - 1) /\ DOMAIN h = Fields /\ Sound(h)
  BY ChainFacts, Sizing DEF Good, Sound, Shaped, UsedBlocks, BlocksOf
<1>3. DataSize(h, a) = n - (a + Header)
  BY DEF DataSize, NextOf
<1> HIDE DEF n
<1>4. HasPut(h, g1, a, [h.item[a] EXCEPT !.used = FALSE])
  BY <1>2, PutItemPuts
<1> HIDE DEF g1
<1>5. /\ DOMAIN k = Fields /\ k.item = g1.item /\ DOMAIN k.cell = DOMAIN g1.cell
      /\ k.used = g1.used - (n - a) /\ k.lfree = IF a < g1.lfree THEN a ELSE g1.lfree
      /\ \A c \in DOMAIN g1.cell :
           k.cell[c] = IF c \in Span(a + Header, DataSize(h, a)) THEN Unwritten ELSE g1.cell[c]
  BY <1>4 DEF HasPut, Fields, Written
<1> HIDE DEF k
<1>6. /\ k.used = h.used - (n - a) /\ k.lfree = IF a < h.lfree THEN a ELSE h.lfree
      /\ DOMAIN k.item = DOMAIN h.item /\ k.item[a] = [h.item[a] EXCEPT !.used = FALSE]
      /\ \A x \in DOMAIN h.item \ {a} : k.item[x] = h.item[x]
      /\ DOMAIN k.cell = DOMAIN h.cell
  BY <1>2, <1>4, <1>5 DEF HasPut
<1>7. \A c \in DOMAIN h.cell :
        k.cell[c] = IF c \in (a + Header)..(n - 1) THEN Unwritten ELSE h.cell[c]
  <2> SUFFICES ASSUME NEW c \in DOMAIN h.cell
               PROVE  k.cell[c] = IF c \in (a + Header)..(n - 1) THEN Unwritten ELSE h.cell[c]
    OBVIOUS
  <2>1. c \in Span(a + Header, DataSize(h, a)) <=> c \in (a + Header)..(n - 1)
    BY <1>2, <1>3 DEF Span
  <2>2. c \in Span(a, Header) => h.cell[c] = HeaderCell /\ c \notin (a + Header)..(n - 1)
    BY <1>2 DEF Sound, HeadersIntact, Span
  <2> QED
    BY <1>4, <1>5, <2>1, <2>2 DEF HasPut
<1>8. /\ Sound(k) /\ BlocksOf(k) = BlocksOf(h) /\ ~UsedIn(k, a)
      /\ \A x \in DOMAIN h.item : NextOf(k, x) = NextOf(h, x)
      /\ \A x \in DOMAIN h.item \ {a} : UsedIn(k, x) = UsedIn(h, x)
  <2>1. \A c \in DOMAIN h.cell : c \notin (a + Header)..(NextOf(h, a) - 1) => k.cell[c] = h.cell[c]
    BY <1>7 DEF n
  <2>2. /\ Sound(k) /\ BlocksOf(k) = BlocksOf(h) /\ UsedIn(k, a) = FALSE
        /\ \A x \in DOMAIN h.item : NextOf(k, x) = NextOf(h, x)
        /\ \A x \in DOMAIN h.item \ {a} : UsedIn(k, x) = UsedIn(h, x)
    BY <1>2, <1>5, <1>6, <2>1, MarkIsSound
  <2> QED
    BY <2>2
<1>9. UsedBlocks(k) = UsedBlocks(h) \ {a} /\ FreeBlocks(k) = FreeBlocks(h) \cup {a}
  BY <1>2, <1>8 DEF UsedBlocks, FreeBlocks, BlocksOf
<1>10. \A x \in DOMAIN h.item : x \in Nat
  BY <1>2, ChainFacts DEF Sound
<1>11. LowestFree(k)
  <2>1. h.lfree \in Nat /\ End \in DOMAIN h.item
    BY <1>10, Sizing DEF Good, LowestFree, FreeBlocks, BlocksOf, Sound, Shaped
  <2> QED
    BY <1>2, <1>6, <1>9, <1>10, <2>1 DEF LowestFree, Good, FreeBlocks, BlocksOf
<1>12. ApartBut(k, a)
  <2>1. ASSUME NEW x \in FreeBlocks(k), x # a, NextOf(k, x) # a PROVE UsedIn(k, NextOf(k, x))
    <3>1. x \in FreeBlocks(h) /\ x \in BlocksOf(h) /\ x \in DOMAIN h.item
      BY <1>9, <2>1 DEF FreeBlocks, BlocksOf
    <3>2. NextOf(k, x) = NextOf(h, x) /\ NextOf(h, x) \in DOMAIN h.item
      BY <1>2, <1>8, <3>1, ChainFacts DEF Sound
    <3>3. UsedIn(h, NextOf(h, x))
      BY <3>1 DEF Good, Apart
    <3> QED
      BY <1>8, <2>1, <3>2, <3>3
  <2> QED
    BY <2>1 DEF ApartBut
<1>13. Keeps(h, k, UsedBlocks(h) \ {a})
  <2>1. ASSUME NEW x \in UsedBlocks(h) \ {a}
        PROVE  /\ NextOf(k, x) = NextOf(h, x)
               /\ \A c \in x..(NextOf(h, x) - 1) : k.cell[c] = h.cell[c]
    <3>1. x \in BlocksOf(h) /\ x # a /\ x \in DOMAIN h.item
      BY DEF UsedBlocks, BlocksOf
    <3>2. ASSUME NEW c \in x..(NextOf(h, x) - 1) PROVE k.cell[c] = h.cell[c]
      <4>1. c \notin a..(n - 1)
        BY <1>2, <3>1, BlocksApart DEF n
      <4>2. c \notin (a + Header)..(n - 1)
        BY <1>2, <4>1
      <4>3. x \in Nat /\ NextOf(h, x) \in Nat /\ NextOf(h, x) <= End
        BY <1>2, <3>1, ChainFacts DEF Sound
      <4>4. c \in DOMAIN h.cell
        BY <1>2, <4>3
      <4> QED
        BY <1>7, <4>2, <4>4
    <3> QED
      BY <1>8, <3>1, <3>2
  <2> QED
    BY <1>6, <2>1 DEF Keeps
<1>14. Counted(k)
  <2>1. Units(h) = Units(k) \cup (a..(n - 1))
    <3>1. ASSUME NEW c \in Units(h) PROVE c \in Units(k) \cup (a..(n - 1))
      <4>1. PICK x \in UsedBlocks(h) : c \in x..(NextOf(h, x) - 1)
        BY UnitsMember
      <4>2. x # a => x \in UsedBlocks(k) /\ NextOf(k, x) = NextOf(h, x)
        BY <1>8, <1>9 DEF UsedBlocks, BlocksOf
      <4> QED
        BY <4>1, <4>2, UnitsMember DEF n
    <3>2. ASSUME NEW c \in Units(k) PROVE c \in Units(h)
      <4>1. PICK x \in UsedBlocks(k) : c \in x..(NextOf(k, x) - 1)
        BY UnitsMember
      <4>2. x \in UsedBlocks(h) /\ NextOf(k, x) = NextOf(h, x)
        BY <1>8, <1>9 DEF UsedBlocks, BlocksOf
      <4> QED
        BY <4>1, <4>2, UnitsMember
    <3>3. ASSUME NEW c \in a..(n - 1) PROVE c \in Units(h)
      BY UnitsMember DEF n
    <3> QED
      BY <3>1, <3>2, <3>3
  <2>2. Units(k) \cap (a..(n - 1)) = {}
    <3>1. ASSUME NEW c \in Units(k) PROVE c \notin a..(n - 1)
      <4>1. PICK x \in UsedBlocks(k) : c \in x..(NextOf(k, x) - 1)
        BY UnitsMember
      <4>2. x \in BlocksOf(h) /\ x # a /\ NextOf(k, x) = NextOf(h, x)
        BY <1>8, <1>9 DEF UsedBlocks, BlocksOf
      <4> QED
        BY <1>2, <4>1, <4>2, BlocksApart DEF n
    <3> QED
      BY <3>1
  <2>3. IsFiniteSet(Units(k)) /\ Cardinality(Units(k)) \in Nat
    BY <1>8, UnitsBounded
  <2>4. Cardinality(Units(h)) = Cardinality(Units(k)) + (n - a)
    <3>1. a <= n
      BY <1>2
    <3>2. Cardinality(Units(k) \cup (a..(n - 1))) = Cardinality(Units(k)) + (n - a)
      BY <1>2, <2>2, <2>3, <3>1, UnitsAdded
    <3> QED
      BY <2>1, <3>2
  <2> QED
    BY <1>2, <1>6, <2>3, <2>4 DEF Counted, Good
<1>15. /\ Sound(PlugHoles(k, a)) /\ LowestFree(PlugHoles(k, a))
       /\ SameUse(k, PlugHoles(k, a)) /\ Apart(PlugHoles(k, a))
  BY <1>8, <1>9, <1>11, <1>12, PlugHolesKeepsUse
<1>16. Good(PlugHoles(k, a))
  BY <1>14, <1>15, UnitsOfSameUse DEF Good
<1>17. Keeps(h, PlugHoles(k, a), UsedBlocks(h) \ {a}) /\ UsedBlocks(PlugHoles(k, a)) = UsedBlocks(h) \ {a}
  BY <1>9, <1>13, <1>15, KeepsTransitive DEF SameUse
<1> QED
  BY <1>1, <1>16, <1>17

-----------------------------------------------------------------------------
(* rt_realloc to a smaller size.                                           *)
Shrunk(h, a, size) ==
  LET g == Split(h, a, size)
      rest == a + Header + size
  IN  PlugHoles([g EXCEPT !.used = @ - (DataSize(h, a) - size),
                          !.lfree = IF rest < @ THEN rest ELSE @,
                          !.cell = Written(@, rest + Header, DataSize(g, rest), Unwritten)], rest)

(* rt_realloc to a smaller size gives the end of the block back, and the   *)
(* rest of it stays as it was.                                             *)
LEMMA ShrunkIsGood ==
  ASSUME NEW h, Good(h), NEW a \in UsedBlocks(h), NEW size \in Nat, size > 0,
         size + Header + MinSize <= DataSize(h, a)
  PROVE  LET g == Shrunk(h, a, size) IN
         /\ Good(g) /\ UsedBlocks(g) = UsedBlocks(h)
         /\ Keeps(h, g, UsedBlocks(h) \ {a})
         /\ NextOf(g, a) = a + Header + size
         /\ \A c \in a..(a + Header + size - 1) : g.cell[c] = h.cell[c]
<1> DEFINE r == a + Header + size
           n == NextOf(h, a)
           g == Split(h, a, size)
           k == [g EXCEPT !.used = @ - (DataSize(h, a) - size),
                          !.lfree = IF r < @ THEN r ELSE @,
                          !.cell = Written(@, r + Header, DataSize(g, r), Unwritten)]
<1>1. Shrunk(h, a, size) = PlugHoles(k, r)
  BY DEF Shrunk
<1>2. /\ a \in BlocksOf(h) /\ a \in Nat /\ n \in Nat /\ n > a + Header /\ n <= End
      /\ Header = 2 /\ End \in Nat
      /\ n \in DOMAIN h.item /\ a \in DOMAIN h.item /\ UsedIn(h, a) /\ MinSize = 2
      /\ DOMAIN h.cell = 0..(End + Header - 1) /\ DOMAIN h = Fields /\ Sound(h)
      /\ \A b \in DOMAIN h.item : b > a => b >= n
  BY ChainFacts, Sizing DEF Good, Sound, Shaped, UsedBlocks, BlocksOf
<1>3. DataSize(h, a) = n - (a + Header)
  BY DEF DataSize, NextOf
<1>4. r \in Nat /\ r > a + Header /\ r + Header < n /\ r \notin DOMAIN h.item /\ r # a
  BY <1>2, <1>3
<1>5. IsSplit(h, g, a, r) /\ Sound(g)
  <2>1. IsSplit(h, g, a, r)
    BY <1>2, <1>4, SplitIsSplit
  <2> HIDE DEF g, r
  <2> QED
    BY <1>2, <1>4, <2>1, SplitKeepsSound
<1> HIDE DEF g, n, r
<1>6. /\ ~UsedIn(g, r) /\ NextOf(g, r) = n /\ PrevOf(g, r) = a
      /\ UsedIn(g, a) = UsedIn(h, a) /\ NextOf(g, a) = r
      /\ \A x \in DOMAIN h.item \ {a} : UsedIn(g, x) = UsedIn(h, x) /\ NextOf(g, x) = NextOf(h, x)
  BY <1>5, SplitLinks DEF n
<1>7. /\ DOMAIN g = Fields /\ g.lfree = h.lfree /\ g.used = h.used
      /\ DOMAIN g.item = DOMAIN h.item \cup {r} /\ DOMAIN g.cell = DOMAIN h.cell
      /\ \A c \in DOMAIN h.cell :
           g.cell[c] = IF c \in Span(r, Header) THEN HeaderCell ELSE h.cell[c]
  BY <1>5 DEF IsSplit
<1>8. DataSize(g, r) = n - (r + Header)
  BY <1>6 DEF DataSize, NextOf
<1>9. /\ DOMAIN k = Fields /\ k.item = g.item /\ DOMAIN k.cell = DOMAIN h.cell
      /\ k.used = h.used - (n - r) /\ k.lfree = IF r < h.lfree THEN r ELSE h.lfree
      /\ \A c \in DOMAIN h.cell :
           k.cell[c] = IF c \in Span(r + Header, DataSize(g, r)) THEN Unwritten ELSE g.cell[c]
  <2>1. DataSize(h, a) - size = n - r
    BY <1>2, <1>3 DEF r
  <2> HIDE DEF k
  <2>2. k.used = g.used - (DataSize(h, a) - size) /\ k.lfree = IF r < g.lfree THEN r ELSE g.lfree
    BY <1>7 DEF k, Fields
  <2>3. /\ DOMAIN k = Fields /\ k.item = g.item /\ DOMAIN k.cell = DOMAIN g.cell
        /\ \A c \in DOMAIN g.cell :
             k.cell[c] = IF c \in Span(r + Header, DataSize(g, r)) THEN Unwritten ELSE g.cell[c]
    BY <1>7 DEF k, Fields, Written
  <2> QED
    BY <1>7, <2>1, <2>2, <2>3
<1> HIDE DEF k
<1>10. \A c \in DOMAIN h.cell : c \in Span(r + Header, DataSize(g, r)) <=> c \in (r + Header)..(n - 1)
  BY <1>2, <1>4, <1>8 DEF Span
<1>11. BlocksOf(g) = BlocksOf(h) \cup {r} /\ BlocksOf(k) = BlocksOf(g) /\ r \in BlocksOf(g) /\ r # End
  BY <1>2, <1>4, <1>7, <1>9 DEF BlocksOf
<1>12. \A x \in DOMAIN g.item :
          UsedIn(k, x) = UsedIn(g, x) /\ NextOf(k, x) = NextOf(g, x) /\ PrevOf(k, x) = PrevOf(g, x)
  BY <1>9 DEF UsedIn, NextOf, PrevOf
<1>13. Sound(k)
  <2>1. ASSUME NEW x \in BlocksOf(g), NEW c \in Span(x, Header) PROVE k.cell[c] = g.cell[c]
    <3>1. c \notin (r + Header)..(NextOf(g, r) - 1)
      BY <1>5, <1>11, <2>1, DataIsNoHeader
    <3>2. c \in DOMAIN h.cell
      <4>1. x \in Nat /\ x < End
        BY <1>5, ChainFacts DEF Sound
      <4> QED
        BY <1>2, <4>1 DEF Span
    <3> QED
      BY <1>6, <1>9, <1>10, <3>1, <3>2
  <2>2. \A x \in DOMAIN g.item : k.item[x] \in Item
    BY <1>5, <1>9 DEF Sound, Shaped
  <2>3. UsedIn(k, End)
    BY <1>5, <1>12 DEF Sound, Chained, Shaped
  <2> QED
    BY <1>5, <1>7, <1>9, <1>12, <2>1, <2>2, <2>3, SameChainIsSound
<1>14. UsedBlocks(k) = UsedBlocks(h) /\ FreeBlocks(k) = FreeBlocks(h) \cup {r}
  <2>1. \A x \in DOMAIN h.item : UsedIn(k, x) = UsedIn(h, x)
    BY <1>6, <1>7, <1>12
  <2>2. ~UsedIn(k, r) /\ r \notin BlocksOf(h) /\ BlocksOf(k) = BlocksOf(h) \cup {r}
    BY <1>4, <1>6, <1>11, <1>12, <1>7 DEF BlocksOf
  <2> QED
    BY <2>1, <2>2 DEF UsedBlocks, FreeBlocks, BlocksOf
<1>15. /\ NextOf(k, r) = n /\ NextOf(k, a) = r
       /\ \A x \in DOMAIN h.item \ {a} : NextOf(k, x) = NextOf(h, x)
  BY <1>2, <1>6, <1>7, <1>12
<1>16. \A c \in DOMAIN h.cell :
         k.cell[c] = IF c \in Span(r, Header) THEN HeaderCell
                     ELSE IF c \in (r + Header)..(n - 1) THEN Unwritten ELSE h.cell[c]
  <2> SUFFICES ASSUME NEW c \in DOMAIN h.cell
      PROVE  k.cell[c] = IF c \in Span(r, Header) THEN HeaderCell
                         ELSE IF c \in (r + Header)..(n - 1) THEN Unwritten ELSE h.cell[c]
    OBVIOUS
  <2>1. c \in Span(r, Header) => c \notin (r + Header)..(n - 1)
    BY <1>2, <1>4 DEF Span
  <2> QED
    BY <1>7, <1>9, <1>10, <2>1
<1>17. \A c \in DOMAIN h.cell : ~(r <= c /\ c < n) => k.cell[c] = h.cell[c]
  <2> SUFFICES ASSUME NEW c \in DOMAIN h.cell, ~(r <= c /\ c < n) PROVE k.cell[c] = h.cell[c]
    OBVIOUS
  <2>1. c \notin Span(r, Header) /\ c \notin (r + Header)..(n - 1)
    BY <1>2, <1>4 DEF Span
  <2> QED
    BY <1>16, <2>1
<1>18. \A x \in DOMAIN h.item : x \in Nat
  BY <1>2, ChainFacts DEF Sound
<1>19. LowestFree(k)
  <2>1. h.lfree \in Nat /\ End \in DOMAIN h.item
    BY <1>18, Sizing DEF Good, LowestFree, FreeBlocks, BlocksOf, Sound, Shaped
  <2> QED
    BY <1>4, <1>9, <1>14, <1>18, <2>1 DEF LowestFree, Good, FreeBlocks, BlocksOf
<1>20. ApartBut(k, r)
  <2>1. ASSUME NEW x \in FreeBlocks(k), x # r PROVE UsedIn(k, NextOf(k, x))
    <3>1. x \in FreeBlocks(h) /\ x \in BlocksOf(h) /\ x \in DOMAIN h.item /\ x # a
      BY <1>2, <1>14, <2>1 DEF FreeBlocks, BlocksOf
    <3>2. NextOf(k, x) = NextOf(h, x) /\ NextOf(h, x) \in DOMAIN h.item
      BY <1>2, <1>15, <3>1, ChainFacts DEF Sound
    <3>3. UsedIn(h, NextOf(h, x))
      BY <3>1 DEF Good, Apart
    <3> QED
      BY <1>6, <1>7, <1>12, <3>2, <3>3
  <2> QED
    BY <2>1 DEF ApartBut
<1>21. Keeps(h, k, UsedBlocks(h) \ {a})
  <2>1. ASSUME NEW x \in UsedBlocks(h) \ {a}
        PROVE  /\ NextOf(k, x) = NextOf(h, x)
               /\ \A c \in x..(NextOf(h, x) - 1) : k.cell[c] = h.cell[c]
    <3>1. x \in BlocksOf(h) /\ x # a /\ x \in DOMAIN h.item
      BY DEF UsedBlocks, BlocksOf
    <3>2. ASSUME NEW c \in x..(NextOf(h, x) - 1) PROVE k.cell[c] = h.cell[c]
      <4>1. c \notin a..(n - 1)
        BY <1>2, <3>1, BlocksApart DEF n
      <4>2. x \in Nat /\ NextOf(h, x) \in Nat /\ NextOf(h, x) <= End
        BY <1>2, <3>1, ChainFacts DEF Sound
      <4>3. c \in DOMAIN h.cell /\ ~(r <= c /\ c < n)
        BY <1>2, <1>4, <4>1, <4>2
      <4> QED
        BY <1>17, <4>3
    <3> QED
      BY <1>15, <3>1, <3>2
  <2> QED
    BY <1>9, <2>1 DEF Keeps
<1>22. Counted(k)
  <2>1. Units(h) = Units(k) \cup (r..(n - 1))
    <3>1. ASSUME NEW c \in Units(h) PROVE c \in Units(k) \cup (r..(n - 1))
      <4>1. PICK x \in UsedBlocks(h) : c \in x..(NextOf(h, x) - 1)
        BY UnitsMember
      <4>2. x \in DOMAIN h.item /\ x \in UsedBlocks(k)
        BY <1>14 DEF UsedBlocks, BlocksOf
      <4>3. CASE x = a
        <5>1. c \in a..(r - 1) \/ c \in r..(n - 1)
          BY <1>2, <1>4, <4>1, <4>3 DEF n
        <5> QED
          BY <4>2, <4>3, <5>1, <1>15, UnitsMember
      <4>4. CASE x # a
        BY <4>1, <4>2, <4>4, <1>15, UnitsMember
      <4> QED
        BY <4>3, <4>4
    <3>2. ASSUME NEW c \in Units(k) PROVE c \in Units(h)
      <4>1. PICK x \in UsedBlocks(k) : c \in x..(NextOf(k, x) - 1)
        BY UnitsMember
      <4>2. x \in DOMAIN h.item /\ x \in UsedBlocks(h)
        BY <1>14, <4>1 DEF UsedBlocks, BlocksOf
      <4>3. c \in x..(NextOf(h, x) - 1)
        <5>1. CASE x = a
          BY <1>2, <1>4, <1>15, <4>1, <5>1 DEF n
        <5>2. CASE x # a
          BY <1>15, <4>1, <4>2, <5>2
        <5> QED
          BY <5>1, <5>2
      <4> QED
        BY <4>2, <4>3, UnitsMember
    <3>3. ASSUME NEW c \in r..(n - 1) PROVE c \in Units(h)
      <4>1. c \in a..(NextOf(h, a) - 1)
        BY <1>2, <1>4 DEF n
      <4> QED
        BY <4>1, UnitsMember
    <3> QED
      BY <3>1, <3>2, <3>3
  <2>2. Units(k) \cap (r..(n - 1)) = {}
    <3>1. ASSUME NEW c \in Units(k) PROVE c \notin r..(n - 1)
      <4>1. PICK x \in UsedBlocks(k) : c \in x..(NextOf(k, x) - 1)
        BY UnitsMember
      <4>2. x \in BlocksOf(k) /\ r \in BlocksOf(k) /\ x # r
        BY <1>4, <1>11, <1>14, <4>1 DEF UsedBlocks, BlocksOf
      <4> QED
        BY <1>13, <1>15, <4>1, <4>2, BlocksApart
    <3> QED
      BY <3>1
  <2>3. IsFiniteSet(Units(k)) /\ Cardinality(Units(k)) \in Nat
    BY <1>13, UnitsBounded
  <2>4. Cardinality(Units(h)) = Cardinality(Units(k)) + (n - r)
    <3>1. r <= n
      BY <1>2, <1>4
    <3>2. Cardinality(Units(k) \cup (r..(n - 1))) = Cardinality(Units(k)) + (n - r)
      BY <1>2, <1>4, <2>2, <2>3, <3>1, UnitsAdded
    <3> QED
      BY <2>1, <3>2
  <2> QED
    BY <1>2, <1>4, <1>9, <2>3, <2>4 DEF Counted, Good
<1>23. /\ Sound(PlugHoles(k, r)) /\ LowestFree(PlugHoles(k, r))
       /\ SameUse(k, PlugHoles(k, r)) /\ Apart(PlugHoles(k, r))
  BY <1>13, <1>14, <1>19, <1>20, PlugHolesKeepsUse
<1>24. Good(PlugHoles(k, r))
  BY <1>22, <1>23, UnitsOfSameUse DEF Good
<1>25. Keeps(h, PlugHoles(k, r), UsedBlocks(h) \ {a}) /\ UsedBlocks(PlugHoles(k, r)) = UsedBlocks(h)
  BY <1>14, <1>21, <1>23, KeepsTransitive DEF SameUse
<1>26. /\ NextOf(PlugHoles(k, r), a) = r
       /\ \A c \in a..(r - 1) : PlugHoles(k, r).cell[c] = h.cell[c]
  <2>1. a \in UsedBlocks(k)
    BY <1>14
  <2>2. NextOf(PlugHoles(k, r), a) = r /\ \A c \in a..(r - 1) : PlugHoles(k, r).cell[c] = k.cell[c]
    BY <1>15, <1>23, <2>1 DEF SameUse, Keeps
  <2>3. ASSUME NEW c \in a..(r - 1) PROVE k.cell[c] = h.cell[c]
    <3>1. c \in DOMAIN h.cell /\ ~(r <= c /\ c < n)
      BY <1>2, <1>4
    <3> QED
      BY <1>17, <3>1
  <2> QED
    BY <2>2, <2>3
<1> QED
  <2>1. r = a + Header + size
    BY DEF r
  <2> DEFINE s == PlugHoles(k, r)
  <2>2. Shrunk(h, a, size) = s
    BY <1>1
  <2>3. Good(s) /\ UsedBlocks(s) = UsedBlocks(h) /\ Keeps(h, s, UsedBlocks(h) \ {a})
    BY <1>24, <1>25
  <2>4. NextOf(s, a) = a + Header + size /\ \A c \in a..(a + Header + size - 1) : s.cell[c] = h.cell[c]
    <3>1. a..(a + Header + size - 1) = a..(r - 1)
      BY <1>2, <1>4, <2>1
    <3> QED
      BY <1>26, <2>1, <3>1
  <2> HIDE DEF s
  <2> QED
    BY <2>2, <2>3, <2>4

-----------------------------------------------------------------------------
(* rt_malloc.                                                              *)

(* Every nonempty set of natural numbers has a least member.               *)
LEMMA LeastOf ==
  ASSUME NEW S, S \subseteq Nat, S # {}
  PROVE  Min(S) \in S /\ \A y \in S : Min(S) <= y
<1> DEFINE R == {ss \in Nat \X Nat : ss[1] < ss[2]}
<1>1. IsWellFoundedOn(R, Nat)
  BY NatLessThanWellFounded DEF OpToRel
<1>2. PICK x \in S : \A y \in S : ~ (<<y, x>> \in R)
  <2> HIDE DEF R
  <2> QED
    BY <1>1, WFMin
<1>3. ASSUME NEW y \in S PROVE x <= y
  <2>1. <<y, x>> \in Nat \X Nat /\ <<y, x>>[1] = y /\ <<y, x>>[2] = x
    OBVIOUS
  <2> QED
    BY <1>2, <2>1
<1>4. \E m \in S : \A y \in S : m <= y
  BY <1>3
<1> QED
  BY <1>4 DEF Min

(* The headers that say free are those of the free blocks.                 *)
LEMMA FreeItemsAreBlocks ==
  ASSUME NEW h, Sound(h)
  PROVE  FreeItems(h) = FreeBlocks(h)
  BY DEF FreeItems, FreeBlocks, BlocksOf, UsedIn, Sound, Chained

(* Where rt_smem_alloc finds room.                                         *)
LEMMA FoundBlock ==
  ASSUME NEW h, Sound(h), NEW size \in Nat, Fits(h, size) # {}
  PROVE  LET a == Min(Fits(h, size)) IN
         /\ a \in FreeBlocks(h) /\ a \in Fits(h, size)
         /\ NextOf(h, a) - (a + Header) >= size
<1>1. Fits(h, size) \subseteq FreeBlocks(h) /\ FreeBlocks(h) \subseteq Nat
  BY FreeItemsAreBlocks, ChainFacts DEF Fits, FreeBlocks, Sound
<1>2. Min(Fits(h, size)) \in Fits(h, size)
  BY <1>1, LeastOf
<1> QED
  BY <1>1, <1>2 DEF Fits, DataSize, NextOf

(* The block cut to size, if it is worth it: still free.                   *)
LEMMA CutKeepsUse ==
  ASSUME NEW h, Good(h), NEW a \in FreeBlocks(h), NEW size \in Nat, size > 0,
         NextOf(h, a) - (a + Header) >= size
  PROVE  LET g == IF MaySplit(h, a, size) THEN Split(h, a, size) ELSE h IN
         /\ Sound(g) /\ SameUse(h, g) /\ a \in FreeBlocks(g) /\ ApartBut(g, a)
         /\ g.lfree = h.lfree /\ \A x \in FreeBlocks(g) : h.lfree <= x
         /\ h.lfree \in FreeBlocks(g)
         /\ NextOf(g, a) >= a + Header + size
<1> DEFINE r == a + Header + size
           n == NextOf(h, a)
           g == Split(h, a, size)
<1>1. /\ a \in BlocksOf(h) /\ a \in Nat /\ n \in Nat /\ n > a + Header /\ n <= End
      /\ Header = 2 /\ End \in Nat
      /\ n \in DOMAIN h.item /\ a \in DOMAIN h.item /\ ~UsedIn(h, a) /\ MinSize = 2 /\ a # End
      /\ DOMAIN h.cell = 0..(End + Header - 1) /\ DOMAIN h = Fields /\ Sound(h)
      /\ \A b \in DOMAIN h.item : b > a => b >= n
      /\ LowestFree(h) /\ h.lfree <= a /\ h.lfree \in FreeBlocks(h) /\ h.lfree \in Nat
      /\ n - (a + Header) >= size
  <2>1. /\ a \in BlocksOf(h) /\ a \in Nat /\ n \in Nat /\ n > a + Header /\ n <= End
        /\ Header = 2 /\ End \in Nat
        /\ n \in DOMAIN h.item /\ a \in DOMAIN h.item /\ ~UsedIn(h, a) /\ MinSize = 2 /\ a < End
        /\ DOMAIN h.cell = 0..(End + Header - 1) /\ DOMAIN h = Fields /\ Sound(h)
        /\ \A b \in DOMAIN h.item : b > a => b >= n
    BY ChainFacts, Sizing DEF Good, Sound, Shaped, FreeBlocks, BlocksOf
  <2>2. LowestFree(h) /\ h.lfree <= a /\ \A x \in FreeBlocks(h) : x \in Nat
    BY <2>1, ChainFacts DEF Good, LowestFree, FreeBlocks, Sound
  <2>3. h.lfree \in FreeBlocks(h)
    BY <2>1, <2>2 DEF LowestFree
  <2>4. h.lfree \in Nat /\ a # End
    <3>1. h.lfree \in Nat
      BY <2>2, <2>3
    <3>2. a \in Nat /\ End \in Nat /\ a < End
      BY <2>1
    <3> QED
      BY <3>1, <3>2
  <2>5. n - (a + Header) >= size
    OBVIOUS
  <2> HIDE DEF n
  <2> QED
    BY <2>1, <2>2, <2>3, <2>4, <2>5
<1>2. CASE ~MaySplit(h, a, size)
  <2>1. ApartBut(h, a) /\ \A x \in FreeBlocks(h) : h.lfree <= x
    BY DEF Good, Apart, ApartBut, LowestFree
  <2> HIDE DEF n
  <2> QED
    BY <1>1, <1>2, <2>1, SameUseReflexive DEF n
<1>3. CASE MaySplit(h, a, size)
  <2>1. r \in Nat /\ r > a + Header /\ r + Header < n /\ r \notin DOMAIN h.item /\ r # a
    BY <1>1, <1>3 DEF MaySplit, DataSize, NextOf
  <2>2. IsSplit(h, g, a, r) /\ Sound(g)
    <3>1. IsSplit(h, g, a, r)
      BY <1>1, <2>1, SplitIsSplit
    <3> HIDE DEF g, r
    <3> QED
      BY <1>1, <2>1, <3>1, SplitKeepsSound
  <2>3. r = a + Header + size
    OBVIOUS
  <2> HIDE DEF g, n, r
  <2>4. /\ ~UsedIn(g, r) /\ NextOf(g, r) = n /\ NextOf(g, a) = r /\ UsedIn(g, a) = UsedIn(h, a)
        /\ \A x \in DOMAIN h.item \ {a} : UsedIn(g, x) = UsedIn(h, x) /\ NextOf(g, x) = NextOf(h, x)
    BY <2>2, SplitLinks DEF n
  <2>5. /\ g.lfree = h.lfree /\ g.used = h.used
        /\ DOMAIN g.item = DOMAIN h.item \cup {r} /\ DOMAIN g.cell = DOMAIN h.cell
        /\ \A c \in DOMAIN h.cell :
             g.cell[c] = IF c \in Span(r, Header) THEN HeaderCell ELSE h.cell[c]
    BY <2>2 DEF IsSplit
  <2>6. UsedBlocks(g) = UsedBlocks(h) /\ FreeBlocks(g) = FreeBlocks(h) \cup {r}
    <3>1. r # End /\ BlocksOf(g) = BlocksOf(h) \cup {r}
      BY <1>1, <2>1, <2>5 DEF BlocksOf
    <3>2. \A x \in DOMAIN h.item : UsedIn(g, x) = UsedIn(h, x)
      BY <2>4
    <3> QED
      BY <2>4, <3>1, <3>2 DEF UsedBlocks, FreeBlocks, BlocksOf
  <2>7. SameUse(h, g)
    <3>1. ASSUME NEW x \in UsedBlocks(h)
          PROVE  /\ NextOf(g, x) = NextOf(h, x)
                 /\ \A c \in x..(NextOf(h, x) - 1) : g.cell[c] = h.cell[c]
      <4>1. x \in BlocksOf(h) /\ x # a /\ x \in DOMAIN h.item
        BY <1>1 DEF UsedBlocks, BlocksOf
      <4>2. ASSUME NEW c \in x..(NextOf(h, x) - 1) PROVE g.cell[c] = h.cell[c]
        <5>1. c \notin a..(n - 1)
          BY <1>1, <4>1, BlocksApart DEF n
        <5>2. x \in Nat /\ NextOf(h, x) \in Nat /\ NextOf(h, x) <= End
          BY <1>1, <4>1, ChainFacts DEF Sound
        <5>3. c \in DOMAIN h.cell /\ c \notin Span(r, Header)
          BY <1>1, <2>1, <5>1, <5>2 DEF Span
        <5> QED
          BY <2>5, <5>3
      <4> QED
        BY <2>4, <4>1, <4>2
    <3> QED
      BY <2>5, <2>6, <3>1 DEF SameUse, Keeps
  <2>8. ApartBut(g, a)
    <3>1. ASSUME NEW x \in FreeBlocks(g), x # a PROVE UsedIn(g, NextOf(g, x))
      <4>1. CASE x = r
        <5>1. UsedIn(h, n)
          BY DEF Good, Apart, n
        <5> QED
          BY <1>1, <2>4, <4>1, <5>1
      <4>2. CASE x # r
        <5>1. x \in FreeBlocks(h) /\ x \in BlocksOf(h) /\ x \in DOMAIN h.item
          BY <2>6, <4>2 DEF FreeBlocks, BlocksOf
        <5>2. NextOf(g, x) = NextOf(h, x) /\ NextOf(h, x) \in DOMAIN h.item
          BY <1>1, <2>4, <3>1, <5>1, ChainFacts DEF Sound
        <5>3. UsedIn(h, NextOf(h, x))
          BY <5>1 DEF Good, Apart
        <5> QED
          BY <2>4, <5>2, <5>3
      <4> QED
        BY <4>1, <4>2
    <3> QED
      BY <3>1 DEF ApartBut
  <2>9. \A x \in FreeBlocks(g) : h.lfree <= x
    BY <1>1, <2>1, <2>6 DEF LowestFree
  <2>10. (IF MaySplit(h, a, size) THEN Split(h, a, size) ELSE h) = g
    BY <1>3 DEF g
  <2>11. NextOf(g, a) >= a + Header + size
    BY <1>1, <2>1, <2>3, <2>4
  <2> QED
    BY <1>1, <2>2, <2>5, <2>6, <2>7, <2>8, <2>9, <2>10, <2>11
<1> QED
  BY <1>2, <1>3

(* rt_smem_alloc takes a free block, or a part of it, and nothing else.    *)
LEMMA AllocIsGood ==
  ASSUME NEW h, Good(h), NEW request \in Nat, request > 0, ~AllocFails(h, request)
  PROVE  LET g == Alloc(h, request)
             a == Min(Fits(h, Raised(request)))
         IN  /\ Good(g) /\ a \in Nat /\ a \notin UsedBlocks(h)
             /\ UsedBlocks(g) = UsedBlocks(h) \cup {a}
             /\ Keeps(h, g, UsedBlocks(h))
             /\ NextOf(g, a) >= a + Header + request
<1> DEFINE size == Raised(request)
           a == Min(Fits(h, size))
           g == IF MaySplit(h, a, size) THEN Split(h, a, size) ELSE h
           k == PutItem(g, a, [g.item[a] EXCEPT !.used = TRUE])
           n == NextOf(g, a)
           f == [k EXCEPT !.used = @ + k.item[a].next - a,
                          !.lfree = IF @ = a
                                      THEN Min({b \in FreeItems(k) : b >= a} \cup {End}) ELSE @]
<1>1. Alloc(h, request) = f
  BY DEF Alloc
<1>2. size \in Nat /\ size > 0 /\ size >= request /\ Fits(h, size) # {} /\ Sound(h)
  BY Sizing DEF Raised, AllocFails, Good
<1> HIDE DEF size
<1>3. a \in FreeBlocks(h) /\ NextOf(h, a) - (a + Header) >= size
  BY <1>2, FoundBlock
<1> HIDE DEF a
<1>4. /\ Sound(g) /\ SameUse(h, g) /\ a \in FreeBlocks(g) /\ ApartBut(g, a)
      /\ g.lfree = h.lfree /\ \A x \in FreeBlocks(g) : h.lfree <= x
      /\ h.lfree \in FreeBlocks(g)
      /\ n >= a + Header + size
  BY <1>2, <1>3, CutKeepsUse
<1> HIDE DEF g
<1>5. /\ a \in BlocksOf(g) /\ a \in Nat /\ n \in Nat /\ n > a + Header /\ n <= End
      /\ Header = 2 /\ End \in Nat
      /\ n \in DOMAIN g.item /\ a \in DOMAIN g.item /\ ~UsedIn(g, a) /\ a < End
      /\ DOMAIN g.cell = 0..(End + Header - 1) /\ DOMAIN g = Fields
  BY <1>4, ChainFacts, Sizing DEF Sound, Shaped, FreeBlocks, BlocksOf
<1>6. HasPut(g, k, a, [g.item[a] EXCEPT !.used = TRUE])
  BY <1>5, PutItemPuts
<1> HIDE DEF k
<1>7. /\ DOMAIN k = Fields /\ DOMAIN k.item = DOMAIN g.item /\ k.lfree = g.lfree /\ k.used = g.used
      /\ k.item[a] = [g.item[a] EXCEPT !.used = TRUE]
      /\ \A x \in DOMAIN g.item \ {a} : k.item[x] = g.item[x]
      /\ DOMAIN k.cell = DOMAIN g.cell
      /\ \A c \in DOMAIN g.cell : k.cell[c] = g.cell[c]
  <2>1. \A c \in Span(a, Header) : g.cell[c] = HeaderCell
    BY <1>4, <1>5 DEF Sound, HeadersIntact
  <2> QED
    BY <1>5, <1>6, <2>1 DEF HasPut
<1>8. /\ Sound(k) /\ BlocksOf(k) = BlocksOf(g) /\ UsedIn(k, a)
      /\ \A x \in DOMAIN g.item : NextOf(k, x) = NextOf(g, x)
      /\ \A x \in DOMAIN g.item \ {a} : UsedIn(k, x) = UsedIn(g, x)
  <2>1. \A c \in DOMAIN g.cell : c \notin (a + Header)..(NextOf(g, a) - 1) => k.cell[c] = g.cell[c]
    BY <1>7
  <2>2. /\ Sound(k) /\ BlocksOf(k) = BlocksOf(g) /\ UsedIn(k, a) = TRUE
        /\ \A x \in DOMAIN g.item : NextOf(k, x) = NextOf(g, x)
        /\ \A x \in DOMAIN g.item \ {a} : UsedIn(k, x) = UsedIn(g, x)
    BY <1>4, <1>5, <1>7, <2>1, MarkIsSound
  <2> QED
    BY <2>2
<1>9. UsedBlocks(k) = UsedBlocks(g) \cup {a} /\ FreeBlocks(k) = FreeBlocks(g) \ {a}
  BY <1>5, <1>8 DEF UsedBlocks, FreeBlocks, BlocksOf
<1>10. a \notin UsedBlocks(g)
  BY <1>5 DEF UsedBlocks
<1> HIDE DEF n
<1>11. n = NextOf(g, a) /\ NextOf(k, a) = n /\ k.item[a].next = n
  BY <1>5, <1>8 DEF n, NextOf
<1> DEFINE L == {b \in FreeItems(k) : b >= a} \cup {End}
<1>12. /\ DOMAIN f = Fields /\ f.item = k.item /\ f.cell = k.cell /\ f.used = k.used + n - a
       /\ f.lfree = IF k.lfree = a THEN Min(L) ELSE k.lfree
  BY <1>7, <1>11 DEF Fields
<1> HIDE DEF f
<1>13. /\ UsedBlocks(f) = UsedBlocks(k) /\ FreeBlocks(f) = FreeBlocks(k) /\ BlocksOf(f) = BlocksOf(k)
       /\ \A x : NextOf(f, x) = NextOf(k, x) /\ UsedIn(f, x) = UsedIn(k, x)
  BY <1>12 DEF UsedBlocks, FreeBlocks, BlocksOf, NextOf, UsedIn
<1>14. Sound(f)
  BY <1>8, <1>12 DEF Sound, Shaped, Chained, HeadersIntact, BlocksOf, NextOf, PrevOf, UsedIn
<1>15. LowestFree(f)
  <2>1. L = {b \in FreeBlocks(k) : b >= a} \cup {End} /\ FreeBlocks(k) \subseteq Nat
    BY <1>8, FreeItemsAreBlocks, ChainFacts DEF FreeBlocks, Sound
  <2>2. Min(L) \in L /\ \A y \in L : Min(L) <= y
    <3> HIDE DEF L
    <3>1. L \subseteq Nat /\ L # {}
      BY <1>5, <2>1
    <3> QED
      BY <3>1, LeastOf
  <2>3. CASE h.lfree = a
    <3>1. f.lfree = Min(L)
      BY <1>4, <1>7, <1>12, <2>3
    <3>2. \A x \in FreeBlocks(k) : x \in L
      BY <1>4, <1>9, <2>1, <2>3
    <3>3. Min(L) \in FreeBlocks(k) \cup {End}
      BY <2>1, <2>2
    <3> HIDE DEF L
    <3> QED
      BY <1>13, <2>2, <3>1, <3>2, <3>3 DEF LowestFree
  <2>4. CASE h.lfree # a
    <3> HIDE DEF L
    <3>1. f.lfree = h.lfree
      BY <1>4, <1>7, <1>12, <2>4
    <3> QED
      BY <1>4, <1>9, <1>13, <2>4, <3>1 DEF LowestFree
  <2> QED
    BY <2>3, <2>4
<1> HIDE DEF L
<1>16. Apart(f)
  <2>1. ASSUME NEW x \in FreeBlocks(k) PROVE UsedIn(k, NextOf(k, x))
    <3>1. x \in FreeBlocks(g) /\ x # a /\ x \in BlocksOf(g) /\ x \in DOMAIN g.item
      BY <1>9 DEF FreeBlocks, BlocksOf
    <3>2. NextOf(k, x) = NextOf(g, x) /\ NextOf(g, x) \in DOMAIN g.item
      BY <1>4, <1>8, <3>1, ChainFacts DEF Sound
    <3>3. UsedIn(g, NextOf(g, x)) \/ NextOf(g, x) = a
      BY <1>4, <3>1 DEF ApartBut
    <3> QED
      BY <1>8, <3>2, <3>3
  <2> QED
    BY <1>13, <2>1 DEF Apart
<1>17. Keeps(h, f, UsedBlocks(h)) /\ UsedBlocks(f) = UsedBlocks(h) \cup {a}
  <2>1. Keeps(g, f, UsedBlocks(g))
    <3>1. \A x \in UsedBlocks(g) : x \in DOMAIN g.item /\ NextOf(f, x) = NextOf(g, x)
      BY <1>8, <1>13 DEF UsedBlocks, BlocksOf
    <3>2. ASSUME NEW x \in UsedBlocks(g), NEW c \in x..(NextOf(g, x) - 1) PROVE f.cell[c] = g.cell[c]
      <4>1. x \in Nat /\ NextOf(g, x) \in Nat /\ NextOf(g, x) <= End
        BY <1>4, ChainFacts DEF Sound, UsedBlocks
      <4>2. c \in DOMAIN g.cell
        BY <1>5, <4>1
      <4> QED
        BY <1>7, <1>12, <4>2
    <3> QED
      BY <1>7, <1>12, <3>1, <3>2 DEF Keeps
  <2> QED
    BY <1>4, <1>9, <1>13, <2>1, KeepsTransitive DEF SameUse
<1>18. Counted(f)
  <2>1. Units(f) = Units(g) \cup (a..(n - 1))
    <3>1. ASSUME NEW c \in Units(f) PROVE c \in Units(g) \cup (a..(n - 1))
      <4>1. PICK x \in UsedBlocks(f) : c \in x..(NextOf(f, x) - 1)
        BY UnitsMember
      <4>2. x = a \/ (x \in UsedBlocks(g) /\ NextOf(f, x) = NextOf(g, x))
        BY <1>8, <1>9, <1>13 DEF UsedBlocks, BlocksOf
      <4> QED
        BY <1>11, <1>13, <4>1, <4>2, UnitsMember
    <3>2. ASSUME NEW c \in Units(g) PROVE c \in Units(f)
      <4>1. PICK x \in UsedBlocks(g) : c \in x..(NextOf(g, x) - 1)
        BY UnitsMember
      <4>2. x \in UsedBlocks(f) /\ NextOf(f, x) = NextOf(g, x)
        BY <1>8, <1>9, <1>13 DEF UsedBlocks, BlocksOf
      <4> QED
        BY <4>1, <4>2, UnitsMember
    <3>3. ASSUME NEW c \in a..(n - 1) PROVE c \in Units(f)
      <4>1. a \in UsedBlocks(f) /\ c \in a..(NextOf(f, a) - 1)
        BY <1>9, <1>11, <1>13
      <4> QED
        BY <4>1, UnitsMember
    <3> QED
      BY <3>1, <3>2, <3>3
  <2>2. Units(g) \cap (a..(n - 1)) = {}
    <3>1. ASSUME NEW c \in Units(g) PROVE c \notin a..(n - 1)
      <4>1. PICK x \in UsedBlocks(g) : c \in x..(NextOf(g, x) - 1)
        BY UnitsMember
      <4>2. x \in BlocksOf(g) /\ x # a
        BY <1>10 DEF UsedBlocks
      <4> QED
        BY <1>4, <1>5, <1>11, <4>1, <4>2, BlocksApart
    <3> QED
      BY <3>1
  <2>3. IsFiniteSet(Units(g)) /\ Cardinality(Units(g)) \in Nat
    BY <1>4, UnitsBounded
  <2>4. Cardinality(Units(f)) = Cardinality(Units(g)) + (n - a)
    <3>1. a <= n
      BY <1>5
    <3>2. Cardinality(Units(g) \cup (a..(n - 1))) = Cardinality(Units(g)) + (n - a)
      BY <1>5, <2>2, <2>3, <3>1, UnitsAdded
    <3> QED
      BY <2>1, <3>2
  <2>5. Counted(g)
    BY <1>4, UnitsOfSameUse DEF Good
  <2> QED
    BY <1>5, <1>7, <1>12, <2>3, <2>4, <2>5 DEF Counted
<1>19. Good(f) /\ a \in Nat /\ a \notin UsedBlocks(h) /\ NextOf(f, a) >= a + Header + request
  <2>1. NextOf(f, a) >= a + Header + request
    BY <1>2, <1>4, <1>5, <1>11, <1>13
  <2>2. a \notin UsedBlocks(h)
    BY <1>4, <1>10 DEF SameUse
  <2> QED
    BY <1>5, <1>14, <1>15, <1>16, <1>18, <2>1, <2>2 DEF Good
<1>20. a = Min(Fits(h, Raised(request)))
  BY DEF a, size
<1> QED
  BY <1>1, <1>17, <1>19, <1>20

-----------------------------------------------------------------------------
(* Every unit of memory holds a header, nothing, or what a caller wrote.   *)
Cells == [0..(End + Header - 1) -> Blocks \cup {HeaderCell, Unwritten}]
Typed(h) == DOMAIN h = Fields /\ h.cell \in Cells

(* Memory stays memory when it is written.                                 *)
LEMMA WrittenCells ==
  ASSUME NEW cell \in Cells, NEW from, NEW n, NEW what \in Blocks \cup {HeaderCell, Unwritten}
  PROVE  Written(cell, from, n, what) \in Cells
  BY DEF Written, Cells

(* So it does through each of the heap's functions: a header written,      *)
LEMMA PutTyped ==
  ASSUME NEW h, Typed(h), NEW a, NEW item
  PROVE  Typed(PutItem(h, a, item))
<1>1. Written(h.cell, a, Header, HeaderCell) \in Cells
  BY WrittenCells DEF Typed
<1> QED
  BY <1>1 DEF Typed, PutItem, Fields

(* a header dropped,                                                       *)
LEMMA DropTyped ==
  ASSUME NEW h, Typed(h), NEW a
  PROVE  Typed(DropItem(h, a))
<1>1. Written(h.cell, a, Header, Unwritten) \in Cells
  BY WrittenCells DEF Typed
<1> QED
  BY <1>1 DEF Typed, DropItem, Fields

(* a block cut in two,                                                     *)
LEMMA SplitTyped ==
  ASSUME NEW h, Typed(h), NEW a, NEW n
  PROVE  Typed(Split(h, a, n))
  BY PutTyped DEF Split

(* free neighbours joined,                                                 *)
LEMMA PlugTyped ==
  ASSUME NEW h, Typed(h), NEW a
  PROVE  Typed(PlugHoles(h, a))
<1>1. ASSUME NEW g, Typed(g) PROVE Typed(PlugForward(g, a)) /\ Typed(PlugBackward(g, a))
  <2>1. ASSUME NEW x PROVE Typed([g EXCEPT !.lfree = x])
    BY <1>1 DEF Typed, Fields
  <2> QED
    BY <1>1, <2>1, DropTyped, PutTyped DEF PlugForward, PlugBackward
<1> QED
  BY <1>1 DEF PlugHoles

(* a block given out,                                                      *)
LEMMA AllocTyped ==
  ASSUME NEW h, Typed(h), NEW request
  PROVE  Typed(Alloc(h, request))
<1>1. ASSUME NEW g, Typed(g), NEW x, NEW y PROVE Typed([g EXCEPT !.used = x, !.lfree = y])
  BY <1>1 DEF Typed, Fields
<1> QED
  BY <1>1, SplitTyped, PutTyped DEF Alloc

(* one taken back,                                                         *)
LEMMA FreedTyped ==
  ASSUME NEW h, Typed(h), NEW a
  PROVE  Typed(Freed(h, a))
<1>1. ASSUME NEW g, Typed(g), NEW x, NEW y, NEW z \in Cells
      PROVE  Typed([g EXCEPT !.used = x, !.lfree = y, !.cell = z])
  BY <1>1 DEF Typed, Fields
<1>2. ASSUME NEW g, Typed(g), NEW i, NEW n PROVE Written(g.cell, i, n, Unwritten) \in Cells
  BY <1>2, WrittenCells DEF Typed
<1> QED
  BY <1>1, <1>2, PlugTyped, PutTyped DEF Freed

(* and one cut short.                                                      *)
LEMMA ShrunkTyped ==
  ASSUME NEW h, Typed(h), NEW a, NEW size
  PROVE  Typed(Shrunk(h, a, size))
<1>1. ASSUME NEW g, Typed(g), NEW x, NEW y, NEW z \in Cells
      PROVE  Typed([g EXCEPT !.used = x, !.lfree = y, !.cell = z])
  BY <1>1 DEF Typed, Fields
<1>2. ASSUME NEW g, Typed(g), NEW i, NEW n PROVE Written(g.cell, i, n, Unwritten) \in Cells
  BY <1>2, WrittenCells DEF Typed
<1> QED
  BY <1>1, <1>2, PlugTyped, SplitTyped DEF Shrunk

(* Writing to the data of a block in use changes nothing else.             *)
LEMMA DataIsGood ==
  ASSUME NEW h, Good(h), NEW a \in UsedBlocks(h), NEW g,
         DOMAIN g = Fields, g.item = h.item, g.lfree = h.lfree, g.used = h.used,
         DOMAIN g.cell = DOMAIN h.cell,
         \A c \in DOMAIN h.cell :
           c \notin (a + Header)..(NextOf(h, a) - 1) => g.cell[c] = h.cell[c]
  PROVE  /\ Good(g) /\ UsedBlocks(g) = UsedBlocks(h) /\ Keeps(h, g, UsedBlocks(h) \ {a})
         /\ NextOf(g, a) = NextOf(h, a)
<1>1. a \in BlocksOf(h) /\ Sound(h) /\ a \in Nat /\ DOMAIN h.cell = 0..(End + Header - 1)
      /\ Header = 2 /\ End \in Nat
  BY ChainFacts, Sizing DEF UsedBlocks, Good, Sound, Shaped
<1>2. /\ BlocksOf(g) = BlocksOf(h) /\ UsedBlocks(g) = UsedBlocks(h) /\ FreeBlocks(g) = FreeBlocks(h)
      /\ \A x : NextOf(g, x) = NextOf(h, x) /\ UsedIn(g, x) = UsedIn(h, x) /\ PrevOf(g, x) = PrevOf(h, x)
  BY DEF BlocksOf, UsedBlocks, FreeBlocks, NextOf, UsedIn, PrevOf
<1>3. Sound(g)
  <2>1. ASSUME NEW x \in BlocksOf(h), NEW c \in Span(x, Header) PROVE g.cell[c] = h.cell[c]
    <3>1. c \notin (a + Header)..(NextOf(h, a) - 1)
      BY <1>1, DataIsNoHeader
    <3>2. c \in DOMAIN h.cell
      <4>1. x \in Nat /\ x < End
        BY <1>1, ChainFacts DEF Sound
      <4> QED
        BY <1>1, <4>1 DEF Span
    <3> QED
      BY <3>1, <3>2
  <2>2. UsedIn(g, End) /\ \A x \in DOMAIN h.item : g.item[x] \in Item
    BY <1>1, <1>2 DEF Sound, Chained, Shaped
  <2> QED
    BY <1>1, <1>2, <2>1, <2>2, SameChainIsSound
<1>4. Good(g)
  BY <1>2, <1>3 DEF Good, LowestFree, Apart, Counted, Units
<1>5. ASSUME NEW x \in UsedBlocks(h) \ {a}, NEW c \in x..(NextOf(h, x) - 1) PROVE g.cell[c] = h.cell[c]
  <2>1. x \in BlocksOf(h) /\ x # a /\ x \in Nat /\ NextOf(h, x) \in Nat /\ NextOf(h, x) <= End
    BY <1>1, ChainFacts DEF UsedBlocks, Sound
  <2>2. c \notin a..(NextOf(h, a) - 1)
    BY <1>1, <2>1, BlocksApart
  <2>3. c \in DOMAIN h.cell /\ c \notin (a + Header)..(NextOf(h, a) - 1)
    BY <1>1, <2>1, <2>2
  <2> QED
    BY <2>3
<1> QED
  BY <1>2, <1>4, <1>5 DEF Keeps

-----------------------------------------------------------------------------
(* The callers.                                                            *)
Holding == [at : 0..End, len : Sizes, kept : Sizes]

(* What the caller b is told it has is in a block in use, with what it has *)
(* written.                                                                *)
HasBlock(h, r, b) ==
  /\ r \in Holding
  /\ r.at - Header \in UsedBlocks(h)
  /\ r.at + r.len <= NextOf(h, r.at - Header) /\ r.kept <= r.len
  /\ \A c \in Span(r.at, r.kept) : h.cell[c] = b

Served(h, l) ==
  /\ DOMAIN l \subseteq Blocks
  /\ \A b \in DOMAIN l : HasBlock(h, l[b], b)
  /\ \A b, c \in DOMAIN l : l[b].at = l[c].at => b = c
  /\ \A a \in UsedBlocks(h) : \E b \in DOMAIN l : l[b].at = a + Header

IInv == Good(heap) /\ Typed(heap) /\ Served(heap, live)

(* The numbers in what a caller is told.                                   *)
LEMMA HoldingFacts ==
  ASSUME NEW r \in Holding
  PROVE  /\ r.at \in Nat /\ r.len \in Sizes /\ r.kept \in Sizes
         /\ r.len \in Nat /\ r.kept \in Nat /\ r.len > 0 /\ r.kept > 0
         /\ r.at \in 0..End
<1>1. r.at \in 0..End /\ r.len \in Sizes /\ r.kept \in Sizes
  BY DEF Holding
<1>2. \A n \in Sizes : n \in Nat /\ n > 0
  BY SizeAssumption
<1> QED
  BY <1>1, <1>2, Sizing

(* A caller whose block is kept has it still.                              *)
LEMMA BlockKept ==
  ASSUME NEW h, Sound(h), NEW r, NEW b, HasBlock(h, r, b), NEW g, NEW S, Keeps(h, g, S),
         r.at - Header \in S, r.at - Header \in UsedBlocks(g)
  PROVE  HasBlock(g, r, b)
<1>1. NextOf(g, r.at - Header) = NextOf(h, r.at - Header)
  BY DEF Keeps
<1>2. ASSUME NEW c \in Span(r.at, r.kept) PROVE g.cell[c] = b
  <2>1. /\ r.at \in Nat /\ r.len \in Nat /\ r.kept \in Nat /\ Header = 2
        /\ r.kept <= r.len /\ r.at + r.len <= NextOf(h, r.at - Header)
        /\ NextOf(h, r.at - Header) \in Nat
    BY HoldingFacts, ChainFacts, Sizing DEF HasBlock, UsedBlocks, Sound
  <2>2. c \in (r.at - Header)..(NextOf(h, r.at - Header) - 1)
    BY <2>1 DEF Span
  <2> QED
    BY <2>2 DEF HasBlock, Keeps
<1> QED
  BY <1>1, <1>2 DEF HasBlock

(* The heap of rt_smem_init is Good, and serves nobody.                    *)
LEMMA InitIInv == Init => IInv
<1> SUFFICES ASSUME Init PROVE IInv
  OBVIOUS
<1>1. /\ End \in Nat /\ End > 2 /\ Header = 2
      /\ DOMAIN heap = Fields /\ heap.lfree = 0 /\ heap.used = 0 /\ heap.item = InitItems
      /\ heap.cell = [a \in 0..(End + Header - 1) |->
                        IF a \in Span(0, Header) \cup Span(End, Header)
                          THEN HeaderCell ELSE Unwritten]
  BY Sizing DEF Init, Fields
<1>2. /\ DOMAIN heap.item = {0, End}
      /\ heap.item[0] = [used |-> FALSE, next |-> End, prev |-> 0]
      /\ heap.item[End] = [used |-> TRUE, next |-> End, prev |-> End]
  BY <1>1 DEF InitItems
<1>3. BlocksOf(heap) = {0}
  BY <1>1, <1>2 DEF BlocksOf
<1>4. /\ ~UsedIn(heap, 0) /\ NextOf(heap, 0) = End /\ PrevOf(heap, 0) = 0
      /\ UsedIn(heap, End) /\ NextOf(heap, End) = End
  BY <1>2 DEF UsedIn, NextOf, PrevOf
<1>5. Sound(heap)
  <2>1. Shaped(heap)
    <3>1. 0 \in 0..End /\ End \in 0..End
      BY <1>1
    <3>2. heap.item[0] \in Item /\ heap.item[End] \in Item
      BY <1>2, <3>1 DEF Item
    <3>3. DOMAIN heap.cell = 0..(End + Header - 1)
      BY <1>1
    <3> QED
      BY <1>1, <1>2, <3>1, <3>2, <3>3 DEF Shaped
  <2>2. Chained(heap)
    BY <1>1, <1>2, <1>3, <1>4 DEF Chained
  <2>3. HeadersIntact(heap)
    BY <1>1, <1>3 DEF HeadersIntact, Span
  <2> QED
    BY <2>1, <2>2, <2>3 DEF Sound
<1>6. UsedBlocks(heap) = {} /\ FreeBlocks(heap) = {0}
  BY <1>3, <1>4 DEF UsedBlocks, FreeBlocks
<1>7. Good(heap)
  <2>1. Units(heap) = {}
    BY <1>6 DEF Units
  <2> QED
    BY <1>1, <1>4, <1>5, <1>6, <2>1, FS_EmptySet DEF Good, LowestFree, Apart, Counted
<1>8. Typed(heap)
  BY <1>1 DEF Typed, Cells
<1>9. Served(heap, live)
  BY <1>6 DEF Init, Served
<1> QED
  BY <1>7, <1>8, <1>9 DEF IInv

(* rt_free keeps the invariant.                                            *)
LEMMA FreeKeepsIInv ==
  ASSUME IInv, NEW b \in Blocks, Free(b)
  PROVE  IInv'
<1> DEFINE a == live[b].at - Header
           g == Freed(heap, a)
           l == [c \in DOMAIN live \ {b} |-> live[c]]
<1>1. heap' = g /\ live' = l /\ b \in DOMAIN live
  BY DEF Free
<1>2. a \in UsedBlocks(heap)
  BY <1>1 DEF IInv, Served, HasBlock
<1>3. Good(g) /\ UsedBlocks(g) = UsedBlocks(heap) \ {a} /\ Keeps(heap, g, UsedBlocks(heap) \ {a})
  BY <1>2, FreedIsGood DEF IInv
<1>4. Typed(g)
  BY FreedTyped DEF IInv
<1> HIDE DEF g
<1>5. Served(g, l)
  <2>1. ASSUME NEW c \in DOMAIN l PROVE HasBlock(g, l[c], c)
    <3>1. l[c] = live[c] /\ c \in DOMAIN live /\ c # b
      OBVIOUS
    <3>2. HasBlock(heap, live[c], c) /\ HasBlock(heap, live[b], b)
      BY <1>1, <3>1 DEF IInv, Served
    <3>3. live[c].at - Header # a
      <4>1. live[c].at \in Nat /\ live[b].at \in Nat
        BY <3>2, HoldingFacts DEF HasBlock
      <4>2. live[c].at # live[b].at
        BY <1>1, <3>1 DEF IInv, Served
      <4> QED
        BY <4>1, <4>2, Sizing
    <3>4. live[c].at - Header \in UsedBlocks(heap) \ {a}
      BY <3>2, <3>3 DEF HasBlock
    <3> HIDE DEF a, l
    <3> QED
      BY <1>3, <3>1, <3>2, <3>4, BlockKept DEF IInv, Good
  <2>2. ASSUME NEW x \in UsedBlocks(g) PROVE \E c \in DOMAIN l : l[c].at = x + Header
    <3>1. x \in UsedBlocks(heap) /\ x # a
      BY <1>3
    <3>2. PICK c \in DOMAIN live : live[c].at = x + Header
      BY <3>1 DEF IInv, Served
    <3>3. c # b
      <4>1. x \in Nat
        BY <3>1, ChainFacts DEF IInv, Good, Sound, UsedBlocks, BlocksOf
      <4> QED
        BY <3>1, <3>2, <4>1, Sizing
    <3> QED
      BY <3>2, <3>3
  <2>3. DOMAIN l \subseteq Blocks /\ \A c, d \in DOMAIN l : l[c].at = l[d].at => c = d
    BY DEF IInv, Served
  <2> HIDE DEF l
  <2> QED
    BY <2>1, <2>2, <2>3 DEF Served
<1> HIDE DEF l
<1> QED
  BY <1>1, <1>3, <1>4, <1>5 DEF IInv

(* So does an rt_realloc that finds the block of the size asked for,       *)
LEMMA ReallocSameKeepsIInv ==
  ASSUME IInv, NEW b \in Blocks, NEW size \in Sizes, ReallocSame(b, size)
  PROVE  IInv'
<1> DEFINE l == live'
<1>1. /\ b \in DOMAIN live /\ heap' = heap /\ size = DataSize(heap, live[b].at - Header)
      /\ l = [live EXCEPT ![b] = [at |-> @.at, len |-> size, kept |-> MinOf(@.kept, size)]]
  BY DEF ReallocSame, Resized
<1>2. HasBlock(heap, live[b], b) /\ size \in Nat /\ size > 0 /\ Sound(heap)
  BY <1>1, SizeAssumption DEF IInv, Served, Good
<1>3. /\ live[b].at \in Nat /\ live[b].kept \in Nat /\ live[b].at \in 0..End /\ live[b].kept \in Sizes
      /\ live[b] \in Holding /\ live[b].at - Header \in UsedBlocks(heap)
  BY <1>2, HoldingFacts DEF HasBlock
<1>4. live[b].at + size = NextOf(heap, live[b].at - Header)
  <2>1. NextOf(heap, live[b].at - Header) \in Nat
    BY <1>2, <1>3, ChainFacts DEF UsedBlocks, Sound
  <2> QED
    BY <1>1, <1>2, <1>3, <2>1, Sizing DEF DataSize, NextOf
<1>5. l[b] = [at |-> live[b].at, len |-> size, kept |-> MinOf(live[b].kept, size)]
  BY <1>1
<1>6. DOMAIN l = DOMAIN live /\ \A c \in DOMAIN live \ {b} : l[c] = live[c]
  BY <1>1
<1>7. MinOf(live[b].kept, size) \in Sizes /\ MinOf(live[b].kept, size) <= size /\ MinOf(live[b].kept, size) \in Nat
      /\ MinOf(live[b].kept, size) <= live[b].kept
  BY <1>2, <1>3 DEF MinOf
<1> HIDE DEF l
<1>8. HasBlock(heap, l[b], b)
  <2> DEFINE kept == MinOf(live[b].kept, size)
  <2>1. Span(live[b].at, kept) \subseteq Span(live[b].at, live[b].kept)
    BY <1>3, <1>7 DEF Span
  <2> HIDE DEF kept
  <2>2. [at |-> live[b].at, len |-> size, kept |-> kept] \in Holding
    BY <1>3, <1>7 DEF Holding, kept
  <2> QED
    BY <1>2, <1>3, <1>4, <1>5, <1>7, <2>1, <2>2 DEF HasBlock, kept
<1>9. \A c \in DOMAIN live : l[c].at = live[c].at
  BY <1>5, <1>6
<1>10. Served(heap, l)
  BY <1>6, <1>8, <1>9 DEF IInv, Served
<1> QED
  BY <1>1, <1>10 DEF IInv, l

(* one that splits the end of the block off,                               *)
LEMMA ReallocShrinkKeepsIInv ==
  ASSUME IInv, NEW b \in Blocks, NEW size \in Sizes, ReallocShrink(b, size)
  PROVE  IInv'
<1> DEFINE l == live'
           a == live[b].at - Header
           g == Shrunk(heap, a, size)
<1>1. /\ b \in DOMAIN live /\ size + Header + MinSize <= DataSize(heap, a)
      /\ heap' = g
      /\ l = [live EXCEPT ![b] = [at |-> @.at, len |-> size, kept |-> MinOf(@.kept, size)]]
  BY DEF ReallocShrink, Resized, Shrunk
<1>2. HasBlock(heap, live[b], b) /\ size \in Nat /\ size > 0 /\ Sound(heap)
  BY <1>1, SizeAssumption DEF IInv, Served, Good
<1>3. /\ live[b].at \in Nat /\ live[b].kept \in Nat /\ live[b].at \in 0..End /\ live[b].kept \in Sizes
      /\ live[b] \in Holding /\ a \in UsedBlocks(heap) /\ Header = 2
  BY <1>2, HoldingFacts, Sizing DEF HasBlock
<1>4. /\ Good(g) /\ UsedBlocks(g) = UsedBlocks(heap) /\ Keeps(heap, g, UsedBlocks(heap) \ {a})
      /\ NextOf(g, a) = a + Header + size
      /\ \A c \in a..(a + Header + size - 1) : g.cell[c] = heap.cell[c]
  BY <1>1, <1>2, <1>3, ShrunkIsGood DEF IInv
<1>5. Typed(g)
  BY ShrunkTyped DEF IInv
<1>6. l[b] = [at |-> live[b].at, len |-> size, kept |-> MinOf(live[b].kept, size)]
  BY <1>1
<1>7. DOMAIN l = DOMAIN live /\ \A c \in DOMAIN live \ {b} : l[c] = live[c]
  BY <1>1
<1>8. MinOf(live[b].kept, size) \in Sizes /\ MinOf(live[b].kept, size) <= size /\ MinOf(live[b].kept, size) \in Nat
      /\ MinOf(live[b].kept, size) <= live[b].kept
  BY <1>2, <1>3 DEF MinOf
<1> HIDE DEF l, g
<1>9. HasBlock(g, l[b], b)
  <2> DEFINE kept == MinOf(live[b].kept, size)
  <2>1. Span(live[b].at, kept) \subseteq Span(live[b].at, live[b].kept)
        /\ Span(live[b].at, kept) \subseteq a..(a + Header + size - 1)
    BY <1>2, <1>3, <1>8 DEF Span
  <2> HIDE DEF kept
  <2>2. [at |-> live[b].at, len |-> size, kept |-> kept] \in Holding
    BY <1>3, <1>8 DEF Holding, kept
  <2>3. \A c \in Span(live[b].at, kept) : g.cell[c] = b
    BY <1>2, <1>4, <2>1 DEF HasBlock
  <2>4. live[b].at + size <= NextOf(g, a) /\ kept <= size
    BY <1>2, <1>3, <1>4, <1>8 DEF kept
  <2>5. l[b] = [at |-> live[b].at, len |-> size, kept |-> kept]
    BY <1>6 DEF kept
  <2> QED
    BY <1>3, <1>4, <2>2, <2>3, <2>4, <2>5 DEF HasBlock
<1>10. ASSUME NEW c \in DOMAIN live \ {b} PROVE HasBlock(g, l[c], c)
  <2>1. HasBlock(heap, live[c], c) /\ live[c].at # live[b].at
    BY <1>1 DEF IInv, Served
  <2>2. live[c].at \in Nat
    BY <2>1, HoldingFacts DEF HasBlock
  <2>3. live[c].at - Header \in UsedBlocks(heap) \ {a}
    BY <1>3, <2>1, <2>2 DEF HasBlock
  <2> HIDE DEF a
  <2> QED
    BY <1>2, <1>4, <1>7, <2>1, <2>3, BlockKept
<1>11. \A c \in DOMAIN live : l[c].at = live[c].at
  BY <1>6, <1>7
<1>12. Served(g, l)
  BY <1>4, <1>7, <1>9, <1>10, <1>11 DEF IInv, Served
<1> QED
  BY <1>1, <1>4, <1>5, <1>12 DEF IInv, l

(* rt_malloc,                                                              *)
LEMMA MallocKeepsIInv ==
  ASSUME IInv, NEW b \in Blocks, NEW size \in Sizes, Malloc(b, size)
  PROVE  IInv'
<1> DEFINE l == live'
           a == Min(Fits(heap, Raised(size)))
           g == Alloc(heap, size)
           h == [g EXCEPT !.cell = Written(@, a + Header, size, b)]
           r == [at |-> a + Header, len |-> size, kept |-> size]
<1>1. /\ b \notin DOMAIN live /\ ~AllocFails(heap, size) /\ heap' = h /\ l = With(live, b, r)
  BY DEF Malloc
<1>2. size \in Nat /\ size > 0 /\ Header = 2 /\ Sound(heap)
  BY SizeAssumption, Sizing DEF IInv, Good
<1>3. /\ Good(g) /\ a \in Nat /\ a \notin UsedBlocks(heap)
      /\ UsedBlocks(g) = UsedBlocks(heap) \cup {a}
      /\ Keeps(heap, g, UsedBlocks(heap))
      /\ NextOf(g, a) >= a + Header + size
  BY <1>1, <1>2, AllocIsGood DEF IInv
<1>4. Typed(g)
  BY AllocTyped DEF IInv
<1> HIDE DEF a, g
<1>5. /\ a \in BlocksOf(g) /\ NextOf(g, a) \in Nat /\ NextOf(g, a) <= End /\ End \in Nat
      /\ Sound(g) /\ DOMAIN g.cell = 0..(End + Header - 1) /\ DOMAIN g = Fields
  BY <1>3, ChainFacts, Sizing DEF UsedBlocks, Good, Sound, Shaped
<1>6. Typed(h)
  BY <1>4, WrittenCells DEF Typed, Fields
<1>7. /\ DOMAIN h = Fields /\ h.item = g.item /\ h.lfree = g.lfree /\ h.used = g.used
      /\ DOMAIN h.cell = DOMAIN g.cell
      /\ \A c \in DOMAIN g.cell : h.cell[c] = IF c \in Span(a + Header, size) THEN b ELSE g.cell[c]
  BY <1>5 DEF Fields, Written
<1> HIDE DEF h
<1>8. /\ Good(h) /\ UsedBlocks(h) = UsedBlocks(g) /\ Keeps(g, h, UsedBlocks(g) \ {a})
      /\ NextOf(h, a) = NextOf(g, a)
  <2>1. \A c \in DOMAIN g.cell : c \notin (a + Header)..(NextOf(g, a) - 1) => h.cell[c] = g.cell[c]
    <3>1. ASSUME NEW c \in Span(a + Header, size) PROVE c \in (a + Header)..(NextOf(g, a) - 1)
      BY <1>2, <1>3, <1>5 DEF Span
    <3> QED
      BY <1>7, <3>1
  <2> QED
    BY <1>3, <1>7, <2>1, DataIsGood
<1>9. DOMAIN l = DOMAIN live \cup {b} /\ l[b] = r /\ \A c \in DOMAIN live : l[c] = live[c]
  BY <1>1 DEF With
<1>10. r.at = a + Header /\ r.len = size /\ r.kept = size
  OBVIOUS
<1>11. r \in Holding
  <2>1. a + Header \in 0..End
    BY <1>2, <1>3, <1>5
  <2> QED
    BY <2>1 DEF Holding
<1> HIDE DEF l, r
<1>12. HasBlock(h, r, b)
  <2>1. a + Header - Header = a
    BY <1>2, <1>3
  <2>2. ASSUME NEW c \in Span(a + Header, size) PROVE h.cell[c] = b
    <3>1. c \in DOMAIN g.cell
      BY <1>2, <1>3, <1>5 DEF Span
    <3> QED
      BY <1>7, <3>1
  <2> QED
    BY <1>2, <1>3, <1>8, <1>10, <1>11, <2>1, <2>2 DEF HasBlock
<1>13. ASSUME NEW c \in DOMAIN live PROVE HasBlock(h, live[c], c)
  <2>1. HasBlock(heap, live[c], c) /\ live[c].at - Header \in UsedBlocks(heap)
    BY DEF IInv, Served, HasBlock
  <2>2. HasBlock(g, live[c], c)
    BY <1>2, <1>3, <2>1, BlockKept
  <2> QED
    BY <1>3, <1>5, <1>8, <2>1, <2>2, BlockKept
<1>14. \A c \in DOMAIN live : live[c].at # r.at
  <2>1. ASSUME NEW c \in DOMAIN live, live[c].at = r.at PROVE FALSE
    <3>1. live[c].at - Header \in UsedBlocks(heap)
      BY DEF IInv, Served, HasBlock
    <3> QED
      BY <1>2, <1>3, <1>10, <2>1, <3>1
  <2> QED
    BY <2>1
<1>15. Served(h, l)
  <2>1. DOMAIN l \subseteq Blocks /\ \A c \in DOMAIN l : HasBlock(h, l[c], c)
    BY <1>9, <1>12, <1>13 DEF IInv, Served
  <2>2. \A c, d \in DOMAIN l : l[c].at = l[d].at => c = d
    BY <1>9, <1>14 DEF IInv, Served
  <2>3. \A x \in UsedBlocks(h) : \E c \in DOMAIN l : l[c].at = x + Header
    BY <1>3, <1>8, <1>9, <1>10 DEF IInv, Served
  <2> QED
    BY <2>1, <2>2, <2>3 DEF Served
<1> QED
  BY <1>1, <1>6, <1>8, <1>15 DEF IInv, l

(* and an rt_realloc that moves the block: what was written is copied      *)
(* before the old block is freed.                                          *)
LEMMA ReallocMoveKeepsIInv ==
  ASSUME IInv, NEW b \in Blocks, NEW size \in Sizes, ReallocMove(b, size)
  PROVE  IInv'
<1> DEFINE from == live[b].at
           o == from - Header
           a == Min(Fits(heap, Raised(size)))
           to == a + Header
           g == Alloc(heap, size)
           n == MinOf(DataSize(heap, o), size)
           h == [g EXCEPT !.cell = Copied(@, from, to, n)]
           k == Freed(h, o)
           kept == MinOf(live[b].kept, size)
           r == [at |-> to, len |-> size, kept |-> kept]
           l == live'
<1>1. /\ b \in DOMAIN live /\ ~AllocFails(heap, size) /\ heap' = k /\ l = [live EXCEPT ![b] = r]
  BY DEF ReallocMove
<1>2. size \in Nat /\ size > 0 /\ Header = 2 /\ End \in Nat /\ Sound(heap)
  BY SizeAssumption, Sizing DEF IInv, Good
<1>3. HasBlock(heap, live[b], b)
  BY <1>1 DEF IInv, Served
<1>4. /\ from \in Nat /\ live[b].kept \in Nat /\ live[b].kept \in Sizes /\ live[b].len \in Nat
      /\ o \in UsedBlocks(heap) /\ live[b].kept <= live[b].len /\ from = o + Header /\ o \in Nat
      /\ NextOf(heap, o) \in Nat /\ NextOf(heap, o) <= End /\ from + live[b].len <= NextOf(heap, o)
  <2>1. /\ from \in Nat /\ live[b].kept \in Nat /\ live[b].kept \in Sizes /\ live[b].len \in Nat
        /\ o \in UsedBlocks(heap) /\ live[b].kept <= live[b].len /\ from + live[b].len <= NextOf(heap, o)
    BY <1>3, HoldingFacts DEF HasBlock
  <2>2. o \in Nat /\ NextOf(heap, o) \in Nat /\ NextOf(heap, o) <= End
    BY <1>2, <2>1, ChainFacts DEF UsedBlocks, Sound
  <2> QED
    BY <1>2, <2>1, <2>2
<1>5. /\ Good(g) /\ a \in Nat /\ a \notin UsedBlocks(heap)
      /\ UsedBlocks(g) = UsedBlocks(heap) \cup {a}
      /\ Keeps(heap, g, UsedBlocks(heap))
      /\ NextOf(g, a) >= a + Header + size
  BY <1>1, <1>2, AllocIsGood DEF IInv
<1>6. Typed(g)
  BY AllocTyped DEF IInv
<1>7. /\ n \in Nat /\ n <= size /\ kept \in Sizes /\ kept \in Nat /\ kept <= size /\ kept <= n /\ kept <= live[b].kept
      /\ from + n <= NextOf(heap, o)
  <2>1. DataSize(heap, o) = NextOf(heap, o) - (o + Header)
    BY DEF DataSize, NextOf
  <2>2. DataSize(heap, o) \in Nat /\ live[b].kept <= DataSize(heap, o)
        /\ from + DataSize(heap, o) = NextOf(heap, o)
    <3> HIDE DEF from, o
    <3> QED
      BY <1>2, <1>4, <2>1
  <2> HIDE DEF from, o
  <2> QED
    BY <1>2, <1>4, <2>2 DEF MinOf
<1> HIDE DEF a, g, n
<1>8. /\ a \in BlocksOf(g) /\ NextOf(g, a) \in Nat /\ NextOf(g, a) <= End
      /\ Sound(g) /\ DOMAIN g.cell = 0..(End + Header - 1) /\ DOMAIN g = Fields
  BY <1>5, ChainFacts, Sizing DEF UsedBlocks, Good, Sound, Shaped
<1>9. /\ DOMAIN h = Fields /\ h.item = g.item /\ h.lfree = g.lfree /\ h.used = g.used
      /\ DOMAIN h.cell = DOMAIN g.cell /\ h.cell = Copied(g.cell, from, to, n)
      /\ \A c \in DOMAIN g.cell : h.cell[c] = IF c \in Span(to, n) THEN g.cell[from + c - to] ELSE g.cell[c]
  BY <1>8 DEF Fields, Copied
<1> HIDE DEF h
<1>10. \A c \in Span(to, n) : /\ from + c - to \in 0..(End + Header - 1)
                              /\ c \in (a + Header)..(NextOf(g, a) - 1) /\ c \in 0..(End + Header - 1)
  <2> SUFFICES ASSUME NEW c \in Span(to, n)
               PROVE  /\ from + c - to \in 0..(End + Header - 1)
                      /\ c \in (a + Header)..(NextOf(g, a) - 1) /\ c \in 0..(End + Header - 1)
    OBVIOUS
  <2>1. to \in Nat /\ to = a + Header
    BY <1>2, <1>5
  <2> HIDE DEF to, from, o
  <2>2. c \in Nat /\ to <= c /\ c < to + n
    BY <1>7, <2>1 DEF Span
  <2>3. c < NextOf(g, a) /\ c <= NextOf(g, a) - 1 /\ c <= End - 1
    BY <1>2, <1>5, <1>7, <1>8, <2>1, <2>2
  <2>4. from + c - to \in Nat /\ from + c - to < End
    BY <1>2, <1>4, <1>7, <2>1, <2>2
  <2> QED
    BY <1>2, <1>5, <1>8, <2>1, <2>2, <2>3, <2>4
<1>11. Typed(h)
  <2>1. Copied(g.cell, from, to, n) \in Cells
    BY <1>6, <1>8, <1>10 DEF Typed, Cells, Copied
  <2> QED
    BY <1>9, <2>1 DEF Typed
<1>12. /\ Good(h) /\ UsedBlocks(h) = UsedBlocks(g) /\ Keeps(g, h, UsedBlocks(g) \ {a})
       /\ NextOf(h, a) = NextOf(g, a)
  <2>1. \A c \in DOMAIN g.cell : c \notin (a + Header)..(NextOf(g, a) - 1) => h.cell[c] = g.cell[c]
    BY <1>9, <1>10
  <2> QED
    BY <1>5, <1>9, <2>1, DataIsGood
<1>13. HasBlock(h, r, b)
  <2>1. r.at = to /\ r.len = size /\ r.kept = kept /\ to - Header = a /\ to \in 0..End /\ to = a + Header
    BY <1>2, <1>5, <1>8
  <2>2. r \in Holding
    BY <1>7, <2>1 DEF Holding
  <2>3. ASSUME NEW c \in Span(to, kept) PROVE h.cell[c] = b
    <3> HIDE DEF to, kept, from, o
    <3>1. c \in Span(to, n) /\ from + c - to \in Span(from, live[b].kept)
          /\ from + c - to \in o..(NextOf(heap, o) - 1)
      BY <1>2, <1>4, <1>7, <2>1 DEF Span
    <3>2. heap.cell[from + c - to] = b
      BY <1>3, <3>1 DEF HasBlock, from
    <3>3. g.cell[from + c - to] = b
      BY <1>4, <1>5, <3>1, <3>2 DEF Keeps
    <3> QED
      BY <1>8, <1>9, <1>10, <3>1, <3>3
  <2> HIDE DEF to, kept, r
  <2> QED
    BY <1>2, <1>5, <1>7, <1>12, <2>1, <2>2, <2>3 DEF HasBlock
<1>14. o \in UsedBlocks(h) /\ a # o /\ UsedBlocks(h) = UsedBlocks(heap) \cup {a}
  BY <1>4, <1>5, <1>12
<1>15. Good(k) /\ UsedBlocks(k) = UsedBlocks(h) \ {o} /\ Keeps(h, k, UsedBlocks(h) \ {o})
  BY <1>12, <1>14, FreedIsGood
<1>16. Typed(k)
  BY <1>11, FreedTyped
<1>17. DOMAIN l = DOMAIN live /\ l[b] = r /\ \A c \in DOMAIN live \ {b} : l[c] = live[c]
  BY <1>1
<1>18. r.at = a + Header
  OBVIOUS
<1> HIDE DEF k, l, kept, to, r
<1>19. HasBlock(k, r, b)
  <2>1. r.at - Header = a /\ a \in UsedBlocks(h) \ {o}
    BY <1>2, <1>5, <1>14, <1>18
  <2> QED
    BY <1>12, <1>13, <1>15, <2>1, BlockKept DEF Good
<1>20. ASSUME NEW c \in DOMAIN live \ {b} PROVE HasBlock(k, live[c], c)
  <2>1. HasBlock(heap, live[c], c) /\ live[c].at # from
    BY <1>1 DEF IInv, Served
  <2>2. live[c].at \in Nat /\ live[c].at - Header \in UsedBlocks(heap)
    BY <2>1, HoldingFacts DEF HasBlock
  <2>3. live[c].at - Header # o /\ live[c].at - Header # a
    BY <1>2, <1>4, <1>5, <2>1, <2>2
  <2>4. HasBlock(g, live[c], c)
    BY <1>2, <1>5, <2>1, <2>2, BlockKept
  <2>5. HasBlock(h, live[c], c)
    BY <1>5, <1>8, <1>12, <2>2, <2>3, <2>4, BlockKept
  <2> HIDE DEF o
  <2> QED
    BY <1>12, <1>14, <1>15, <2>2, <2>3, <2>5, BlockKept DEF Good
<1>21. \A c \in DOMAIN live \ {b} : live[c].at # r.at
  <2>1. ASSUME NEW c \in DOMAIN live, live[c].at = r.at PROVE FALSE
    <3>1. live[c].at - Header \in UsedBlocks(heap)
      BY DEF IInv, Served, HasBlock
    <3> QED
      BY <1>2, <1>5, <1>18, <2>1, <3>1
  <2> QED
    BY <2>1
<1>22. Served(k, l)
  <2>1. DOMAIN l \subseteq Blocks /\ \A c \in DOMAIN l : HasBlock(k, l[c], c)
    BY <1>17, <1>19, <1>20 DEF IInv, Served
  <2>2. \A c, d \in DOMAIN l : l[c].at = l[d].at => c = d
    BY <1>17, <1>21 DEF IInv, Served
  <2>3. ASSUME NEW x \in UsedBlocks(k) PROVE \E c \in DOMAIN l : l[c].at = x + Header
    <3>1. CASE x = a
      BY <1>1, <1>17, <1>18, <3>1
    <3>2. CASE x # a
      <4>1. x \in UsedBlocks(heap) /\ x # o
        BY <1>14, <1>15, <3>2
      <4>2. PICK c \in DOMAIN live : live[c].at = x + Header
        BY <4>1 DEF IInv, Served
      <4>3. x \in Nat
        BY <1>2, <4>1, ChainFacts DEF Sound, UsedBlocks, BlocksOf
      <4>4. c # b
        BY <1>2, <1>4, <4>1, <4>2, <4>3
      <4> QED
        BY <1>17, <4>2, <4>4
    <3> QED
      BY <3>1, <3>2
  <2> QED
    BY <2>1, <2>2, <2>3 DEF Served
<1> QED
  BY <1>1, <1>15, <1>16, <1>22 DEF IInv, l

-----------------------------------------------------------------------------
(* The invariant, and what it gives.                                       *)

(* Whatever is asked of the heap and given back to it, its chain is whole, *)
(* its free memory is joined and in sight, and its callers are served.     *)
THEOREM InductiveInvariant == Spec => []IInv
<1>1. IInv /\ [Next]_vars => IInv'
  <2> SUFFICES ASSUME IInv, [Next]_vars PROVE IInv'
    OBVIOUS
  <2>1. ASSUME NEW b \in Blocks, Free(b) PROVE IInv'
    BY <2>1, FreeKeepsIInv
  <2>2. ASSUME NEW b \in Blocks, NEW size \in Sizes, Malloc(b, size) PROVE IInv'
    BY <2>2, MallocKeepsIInv
  <2>3. ASSUME NEW b \in Blocks, NEW size \in Sizes, ReallocSame(b, size) PROVE IInv'
    BY <2>3, ReallocSameKeepsIInv
  <2>4. ASSUME NEW b \in Blocks, NEW size \in Sizes, ReallocShrink(b, size) PROVE IInv'
    BY <2>4, ReallocShrinkKeepsIInv
  <2>5. ASSUME NEW b \in Blocks, NEW size \in Sizes, ReallocMove(b, size) PROVE IInv'
    BY <2>5, ReallocMoveKeepsIInv
  <2>6. CASE UNCHANGED vars
    BY <2>6 DEF vars, IInv
  <2> QED
    BY <2>1, <2>2, <2>3, <2>4, <2>5, <2>6 DEF Next
<1> QED
  BY <1>1, InitIInv, PTL DEF Spec

(* The blocks always tile the memory, with their headers intact, whatever  *)
(* the order of rt_malloc, rt_free and rt_realloc: plug_holes and the      *)
(* splits leave no gap, no overlap and no link that points elsewhere.      *)
THEOREM HeapIsTiled == Spec => []Tiled
<1>1. IInv => Tiled
  <2> SUFFICES ASSUME IInv PROVE Tiled
    OBVIOUS
  <2>1. Sound(heap) /\ LowestFree(heap) /\ Counted(heap) /\ Typed(heap) /\ Served(heap, live)
    BY DEF IInv, Good
  <2>2. heap.lfree \in DOMAIN heap.item
    BY <2>1 DEF LowestFree, FreeBlocks, BlocksOf, Sound, Shaped
  <2>3. heap.used \in 0..End
    BY <2>1, UnitsBounded, Sizing DEF Counted
  <2>4. \A b \in DOMAIN live : live[b] \in [at : 0..End, len : Sizes, kept : Sizes]
    BY <2>1 DEF Served, HasBlock, Holding
  <2>5. TypeOK
    BY <2>1, <2>2, <2>3, <2>4 DEF TypeOK, Typed, Cells, Fields, Served, Sound, Shaped
  <2>6. ASSUME NEW a \in DOMAIN heap.item \ {End}
        PROVE  /\ NextOf(heap, a) \in DOMAIN heap.item /\ NextOf(heap, a) > a + Header
               /\ \A b \in DOMAIN heap.item : ~(a < b /\ b < NextOf(heap, a))
               /\ NextOf(heap, a) # End => PrevOf(heap, NextOf(heap, a)) = a
               /\ \A c \in Span(a, Header) : heap.cell[c] = HeaderCell
    BY <2>1 DEF Sound, Chained, HeadersIntact, BlocksOf
  <2> QED
    BY <2>5, <2>6 DEF Tiled, NextOf, PrevOf
<1> QED
  BY <1>1, InductiveInvariant, PTL

(* No two callers of rt_malloc and rt_realloc ever share a block, none has *)
(* less than it asked for, no block leaks, and used counts exactly the     *)
(* units of the blocks in use.                                             *)
THEOREM BlocksAreOwned == Spec => []BlocksOwned
<1>1. IInv => BlocksOwned
  <2> SUFFICES ASSUME IInv PROVE BlocksOwned
    OBVIOUS
  <2>1. InUse = UsedBlocks(heap)
    BY DEF InUse, UsedBlocks, BlocksOf, UsedIn
  <2>2. ASSUME NEW b \in DOMAIN live
        PROVE  /\ live[b].at - Header \in InUse
               /\ live[b].len <= DataSize(heap, live[b].at - Header)
    <3>1. /\ live[b].at - Header \in UsedBlocks(heap) /\ live[b] \in Holding
          /\ live[b].at + live[b].len <= NextOf(heap, live[b].at - Header)
      BY DEF IInv, Served, HasBlock
    <3>2. live[b].at \in Nat /\ live[b].len \in Nat /\ NextOf(heap, live[b].at - Header) \in Nat
      BY <3>1, HoldingFacts, ChainFacts DEF IInv, Good, Sound, UsedBlocks
    <3>3. DataSize(heap, live[b].at - Header) = NextOf(heap, live[b].at - Header) - live[b].at
      BY <3>2, Sizing DEF DataSize, NextOf
    <3> QED
      BY <2>1, <3>1, <3>2, <3>3
  <2>3. heap.used = Cardinality(UNION {a..(heap.item[a].next - 1) : a \in InUse})
    BY <2>1 DEF IInv, Good, Counted, Units, NextOf
  <2> QED
    BY <2>1, <2>2, <2>3 DEF BlocksOwned, IInv, Served
<1> QED
  BY <1>1, InductiveInvariant, PTL

(* What a caller has written is in its block until it frees it: no header, *)
(* no other caller and no rt_realloc, even one that moves it, changes it.  *)
THEOREM DataIsKept == Spec => []DataKept
<1>1. IInv => DataKept
  BY DEF IInv, Served, HasBlock, DataKept
<1> QED
  BY <1>1, InductiveInvariant, PTL

(* A gap ends where the next block in use, or heap_end, begins.            *)
LEMMA GapEnds ==
  ASSUME Sound(heap), NEW e \in Nat, NEW u \in UsedBlocks(heap) \cup {End}, e <= u
  PROVE  GapAfter(e) \in Int /\ GapAfter(e) <= u - e
<1> DEFINE later == {a \in InUse \cup {End} : a >= e}
<1>1. InUse = UsedBlocks(heap)
  BY DEF InUse, UsedBlocks, BlocksOf, UsedIn
<1>2. later \subseteq Nat /\ u \in later
  BY <1>1, ChainFacts, Sizing DEF UsedBlocks, Sound
<1>3. GapAfter(e) = Min(later) - e
  BY DEF GapAfter
<1> HIDE DEF later
<1>4. Min(later) \in Nat /\ Min(later) <= u
  BY <1>2, LeastOf
<1> QED
  BY <1>2, <1>3, <1>4

(* rt_malloc fails only when no gap between blocks in use has room: lfree  *)
(* is never above free memory, and free blocks that touch are joined.      *)
THEOREM FailsOnlyWhenNoRoom == Spec => []FailsOnlyWhenFull
<1>1. IInv => FailsOnlyWhenFull
  <2> SUFFICES ASSUME IInv, NEW size \in 1..Size, AllocFails(heap, size),
                      NEW e \in {0} \cup {heap.item[a].next : a \in InUse}
               PROVE  GapAfter(e) < Raised(size) + Header
    BY DEF FailsOnlyWhenFull
  <2> DEFINE s == Raised(size)
  <2>1. Sound(heap) /\ s \in Nat /\ s > 0 /\ End = Size + 2 /\ Header = 2 /\ Size \in Nat
    BY Sizing DEF IInv, Good, Raised
  <2>2. e \in DOMAIN heap.item
    BY <2>1 DEF InUse, Sound, Chained, Shaped, BlocksOf, NextOf
  <2>3. e \in Nat /\ e <= End
    BY <2>1, <2>2, ChainFacts DEF Sound
  <2> HIDE DEF s
  <2>4. CASE s > Size
    <3>1. GapAfter(e) \in Int /\ GapAfter(e) <= End - e
      BY <2>1, <2>3, GapEnds
    <3> QED
      BY <2>1, <2>3, <2>4, <3>1 DEF s
  <2>5. CASE e = End \/ UsedIn(heap, e)
    <3>1. e \in UsedBlocks(heap) \cup {End}
      BY <2>2, <2>5 DEF UsedBlocks, BlocksOf
    <3>2. GapAfter(e) \in Int /\ GapAfter(e) <= e - e
      BY <2>1, <2>3, <3>1, GapEnds
    <3> QED
      BY <2>1, <2>3, <3>2 DEF s
  <2>6. CASE s <= Size /\ e # End /\ ~UsedIn(heap, e)
    <3>1. e \in FreeBlocks(heap) /\ e \in BlocksOf(heap)
      BY <2>2, <2>6 DEF FreeBlocks, BlocksOf
    <3> DEFINE n == NextOf(heap, e)
    <3>2. UsedIn(heap, n) /\ n \in DOMAIN heap.item /\ n \in Nat /\ n > e /\ n <= End
      BY <2>1, <3>1, ChainFacts DEF IInv, Good, Apart, Sound
    <3>3. DataSize(heap, e) = n - (e + Header)
      BY DEF DataSize, NextOf
    <3> HIDE DEF n
    <3>4. n \in UsedBlocks(heap) \cup {End}
      BY <3>2 DEF UsedBlocks, BlocksOf
    <3>5. GapAfter(e) \in Int /\ GapAfter(e) <= n - e
      BY <2>1, <2>3, <3>2, <3>4, GapEnds
    <3>6. e \notin Fits(heap, s)
      BY <2>1, <2>6 DEF AllocFails, s
    <3>7. ~(e <= Size - s) \/ ~(DataSize(heap, e) >= s)
      BY <2>1, <3>1, <3>6, FreeItemsAreBlocks DEF Fits, IInv, Good, LowestFree
    <3>8. n - e < s + Header
      BY <2>1, <2>3, <3>2, <3>3, <3>7
    <3> QED
      BY <2>1, <2>3, <3>2, <3>5, <3>8 DEF s
  <2> QED
    BY <2>1, <2>4, <2>5, <2>6
<1> QED
  BY <1>1, InductiveInvariant, PTL
=============================================================================
