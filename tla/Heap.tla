--------------------------------- MODULE Heap ---------------------------------
(***************************************************************************)
(* The small-memory heap of the kernel (rt-thread/src/mem.c), from which   *)
(* rt_malloc, rt_realloc and rt_free serve threads, queues and devices.    *)
(* The heap lock is a mutex, so that each call is a step.                  *)
(*                                                                         *)
(* Sizes and addresses are in units of RT_ALIGN_SIZE, 8 bytes, counted     *)
(* from heap_ptr.  A block is a header and its data; next and prev of the  *)
(* headers chain the blocks in the order of their addresses up to          *)
(* heap_end.  The peak usage (max) and the tracing of owners are left out. *)
(***************************************************************************)
EXTENDS Integers, FiniteSets, FiniteSetsExt

CONSTANTS
  Size,      \* mem_size_aligned
  Sizes,     \* the sizes asked for
  Blocks     \* names for the blocks in use: a bound on how many there are

Header == 2    \* SIZEOF_STRUCT_MEM
MinSize == 2   \* MIN_SIZE_ALIGNED
End == Size + Header   \* heap_end

ASSUME SizeAssumption ==
  Size \in Nat \ {0} /\ Sizes \subseteq Nat \ {0} /\ IsFiniteSet(Blocks)

VARIABLES
  heap,   \* item: the headers; lfree: the lowest free block; used: units taken;
          \* cell: what was written last to each unit of memory
  live    \* the callers' blocks: where the data is, how much was asked for and
          \* how much of it they have written

vars == << heap, live >>

Item == [used : BOOLEAN, next : 0..End, prev : 0..End]
HeaderCell == "header"
Unwritten  == "unwritten"

Span(from, n) == from..(from + n - 1)
Written(cell, from, n, what) ==
  [a \in DOMAIN cell |-> IF a \in Span(from, n) THEN what ELSE cell[a]]

(* f with the value v at a, whether or not it had one there.               *)
With(f, a, v) == [x \in DOMAIN f \cup {a} |-> IF x = a THEN v ELSE f[x]]

(* A header written at an address, and one that is no header any more.     *)
(* Memory nobody owns counts as unwritten.                                 *)
PutItem(h, a, item) ==
  [h EXCEPT !.item = With(@, a, item), !.cell = Written(@, a, Header, HeaderCell)]
DropItem(h, a) ==
  [h EXCEPT !.item = [b \in DOMAIN @ \ {a} |-> @[b]],
            !.cell = Written(@, a, Header, Unwritten)]

(* rt_smem_init: one free block, and heap_end, which always counts as used.*)
InitItems ==
  [a \in {0, End} |-> IF a = 0 THEN [used |-> FALSE, next |-> End, prev |-> 0]
                               ELSE [used |-> TRUE, next |-> End, prev |-> End]]
Init ==
  /\ heap = [item |-> InitItems, lfree |-> 0, used |-> 0,
             cell |-> [a \in 0..(End + Header - 1) |->
                        IF a \in Span(0, Header) \cup Span(End, Header)
                          THEN HeaderCell ELSE Unwritten]]
  /\ live = << >>

DataSize(h, a) == h.item[a].next - (a + Header)
FreeItems(h) == {a \in DOMAIN h.item : ~h.item[a].used}

-----------------------------------------------------------------------------
(* plug_holes: a free block swallows the free block after it, and is       *)
(* swallowed by the free block before it.                                  *)
PlugForward(h, a) ==
  LET n == h.item[a].next
      after == h.item[n].next
      g == DropItem([h EXCEPT !.lfree = IF @ = n THEN a ELSE @], n)
  IN  IF n # a /\ ~h.item[n].used /\ n # End
        THEN PutItem(PutItem(g, a, [g.item[a] EXCEPT !.next = after]),
                     after, [g.item[after] EXCEPT !.prev = a])
        ELSE h

(* Faulty variant: the block after is not told.                            *)
PlugBackwardOneWay(h, a) ==
  LET p == h.item[a].prev
      g == DropItem([h EXCEPT !.lfree = IF @ = a THEN p ELSE @], a)
  IN  IF p # a /\ ~h.item[p].used
        THEN PutItem(g, p, [g.item[p] EXCEPT !.next = h.item[a].next])
        ELSE h

PlugBackward(h, a) ==
  LET p == h.item[a].prev
      after == h.item[a].next
      g == DropItem([h EXCEPT !.lfree = IF @ = a THEN p ELSE @], a)
  IN  IF p # a /\ ~h.item[p].used
        THEN PutItem(PutItem(g, p, [g.item[p] EXCEPT !.next = after]),
                     after, [g.item[after] EXCEPT !.prev = p])
        ELSE h

PlugHoles(h, a) == PlugBackward(PlugForward(h, a), a)

(* A free block split off the end of block a, after n units of data.       *)
Split(h, a, n) ==
  LET rest  == a + Header + n
      after == h.item[a].next
      g == PutItem(PutItem(h, rest, [used |-> FALSE, next |-> after, prev |-> a]),
                   a, [h.item[a] EXCEPT !.next = rest])
  IN  IF after # End
        THEN PutItem(g, after, [g.item[after] EXCEPT !.prev = rest]) ELSE g

-----------------------------------------------------------------------------
(* rt_smem_alloc: the first free block, from lfree on, with enough room.   *)
Raised(size) == IF size < MinSize THEN MinSize ELSE size
Fits(h, size) ==
  {a \in FreeItems(h) : h.lfree <= a /\ a <= Size - size /\ DataSize(h, a) >= size}
AllocFails(h, size) == Raised(size) > Size \/ Fits(h, Raised(size)) = {}

MaySplit(h, a, size) == DataSize(h, a) >= size + Header + MinSize

(* The heap with that block taken, all of it if the rest would be too      *)
(* small; lfree moves on if it was there.                                  *)
Alloc(h, request) ==
  LET size == Raised(request)
      a == Min(Fits(h, size))
      g == IF MaySplit(h, a, size) THEN Split(h, a, size) ELSE h
      k == PutItem(g, a, [g.item[a] EXCEPT !.used = TRUE])
  IN  [k EXCEPT !.used = @ + k.item[a].next - a,
                !.lfree = IF @ = a
                            THEN Min({b \in FreeItems(k) : b >= a} \cup {End}) ELSE @]

(* Faulty variant: lfree is left where it is.                              *)
FreedHigh(h, a) ==
  PlugHoles([PutItem(h, a, [h.item[a] EXCEPT !.used = FALSE])
               EXCEPT !.used = @ - (h.item[a].next - a),
                      !.cell = Written(@, a + Header, DataSize(h, a), Unwritten)], a)

(* rt_smem_free of the block with its header at a.                         *)
Freed(h, a) ==
  PlugHoles([PutItem(h, a, [h.item[a] EXCEPT !.used = FALSE])
               EXCEPT !.used = @ - (h.item[a].next - a),
                      !.lfree = IF a < @ THEN a ELSE @,
                      !.cell = Written(@, a + Header, DataSize(h, a), Unwritten)], a)

-----------------------------------------------------------------------------
(* rt_malloc; the caller writes what it asked for.  When it fails nothing  *)
(* changes.                                                                *)
Malloc(b, size) ==
  /\ b \notin DOMAIN live /\ ~AllocFails(heap, size)
  /\ LET at == Min(Fits(heap, Raised(size))) + Header
         h  == Alloc(heap, size)
     IN  /\ heap' = [h EXCEPT !.cell = Written(@, at, size, b)]
         /\ live' = With(live, b, [at |-> at, len |-> size, kept |-> size])

(* rt_free.                                                                *)
Free(b) ==
  /\ b \in DOMAIN live
  /\ heap' = Freed(heap, live[b].at - Header)
  /\ live' = [c \in DOMAIN live \ {b} |-> live[c]]

(* rt_realloc within the block (size 0 is rt_free).  The size is not       *)
(* raised to MinSize.                                                      *)
MinOf(m, n) == IF m < n THEN m ELSE n
Resized(b, size) ==
  live' = [live EXCEPT ![b] = [at |-> @.at, len |-> size, kept |-> MinOf(@.kept, size)]]

ReallocSame(b, size) ==
  /\ b \in DOMAIN live /\ size # live[b].len
  /\ size = DataSize(heap, live[b].at - Header)
  /\ Resized(b, size) /\ UNCHANGED heap

(* Faulty variants: used is not counted down; the rest is split off        *)
(* without counting the header before the data.                            *)
ReallocShrinkUncounted(b, size) ==
  LET a == live[b].at - Header
      h == Split(heap, a, size)
      rest == a + Header + size
  IN  /\ b \in DOMAIN live
      /\ size + Header + MinSize <= DataSize(heap, a)
      /\ heap' = PlugHoles([h EXCEPT !.lfree = IF rest < @ THEN rest ELSE @,
                                     !.cell = Written(@, rest + Header, DataSize(h, rest),
                                                      Unwritten)], rest)
      /\ Resized(b, size)
ReallocShrinkLow(b, size) ==
  LET a == live[b].at - Header
      h == Split(heap, a, size - Header)
      rest == a + size
  IN  /\ b \in DOMAIN live
      /\ size + Header + MinSize <= DataSize(heap, a)
      /\ heap' = PlugHoles([h EXCEPT !.used = @ - (DataSize(heap, a) - size),
                                     !.lfree = IF rest < @ THEN rest ELSE @], rest)
      /\ Resized(b, size)

(* The condition reads newsize + SIZEOF_STRUCT_MEM + MIN_SIZE < size, with *)
(* MIN_SIZE of 12 bytes, not yet aligned: the same, for multiples of 8.    *)
ReallocShrink(b, size) ==
  LET a == live[b].at - Header
      h == Split(heap, a, size)
      rest == a + Header + size
  IN  /\ b \in DOMAIN live
      /\ size + Header + MinSize <= DataSize(heap, a)
      /\ heap' = PlugHoles([h EXCEPT !.used = @ - (DataSize(heap, a) - size),
                                     !.lfree = IF rest < @ THEN rest ELSE @,
                                     !.cell = Written(@, rest + Header, DataSize(h, rest),
                                                      Unwritten)], rest)
      /\ Resized(b, size)

Copied(cell, from, to, n) ==
  [a \in DOMAIN cell |-> IF a \in Span(to, n) THEN cell[from + a - to] ELSE cell[a]]

(* Into a new block: even for a somewhat smaller size, which then may      *)
(* fail.                                                                   *)
ReallocMove(b, size) ==
  LET from == live[b].at
      to   == Min(Fits(heap, Raised(size))) + Header
      g    == Alloc(heap, size)
      n    == MinOf(DataSize(heap, from - Header), size)
      h    == [g EXCEPT !.cell = Copied(@, from, to, n)]
  IN  /\ b \in DOMAIN live
      /\ size # DataSize(heap, from - Header)
      /\ size + Header + MinSize > DataSize(heap, from - Header)
      /\ ~AllocFails(heap, size)
      /\ heap' = Freed(h, from - Header)
      /\ live' = [live EXCEPT ![b] = [at |-> to, len |-> size, kept |-> MinOf(@.kept, size)]]

Next ==
  \E b \in Blocks :
    \/ Free(b)
    \/ \E size \in Sizes :
         Malloc(b, size) \/ ReallocSame(b, size) \/ ReallocShrink(b, size)
         \/ ReallocMove(b, size)

Spec == Init /\ [][Next]_vars

-----------------------------------------------------------------------------
(* Properties.                                                             *)

(* Every variable stays within its type.                                   *)
TypeOK ==
  /\ DOMAIN heap = {"item", "lfree", "used", "cell"}
  /\ {0, End} \subseteq DOMAIN heap.item /\ DOMAIN heap.item \subseteq 0..End
  /\ \A a \in DOMAIN heap.item : heap.item[a] \in Item
  /\ heap.lfree \in DOMAIN heap.item /\ heap.used \in 0..End
  /\ heap.cell \in [0..(End + Header - 1) -> Blocks \cup {HeaderCell, Unwritten}]
  /\ DOMAIN live \subseteq Blocks
  /\ \A b \in DOMAIN live : live[b] \in [at : 0..End, len : Sizes, kept : Sizes]

(* The blocks tile the memory: each ends where the next begins, has room   *)
(* for data, is the one the next calls prev, and has its header intact     *)
(* whatever the callers wrote to their blocks.                             *)
Tiled ==
  /\ TypeOK
  /\ \A a \in DOMAIN heap.item \ {End} :
       LET n == heap.item[a].next
       IN  /\ n \in DOMAIN heap.item /\ n > a + Header
           /\ \A b \in DOMAIN heap.item : ~(a < b /\ b < n)
           /\ n # End => heap.item[n].prev = a
           /\ \A c \in Span(a, Header) : heap.cell[c] = HeaderCell

(* Each caller has a used block of its own, of the size it asked for, no   *)
(* block is used without a caller, and used counts the units of them all.  *)
InUse == {a \in DOMAIN heap.item \ {End} : heap.item[a].used}
BlocksOwned ==
  /\ \A b \in DOMAIN live : /\ live[b].at - Header \in InUse
                            /\ live[b].len <= DataSize(heap, live[b].at - Header)
  /\ \A b, c \in DOMAIN live : live[b].at = live[c].at => b = c
  /\ \A a \in InUse : \E b \in DOMAIN live : live[b].at = a + Header
  /\ heap.used = Cardinality(UNION {a..(heap.item[a].next - 1) : a \in InUse})

(* What a caller has written is there as long as it has the block, also    *)
(* after rt_realloc has moved it.                                          *)
DataKept ==
  \A b \in DOMAIN live : \A c \in Span(live[b].at, live[b].kept) : heap.cell[c] = b

(* rt_malloc fails only when no gap between the blocks in use has room for *)
(* the block: no free memory is out of its sight, or in pieces.  In        *)
(* particular, when everything is freed the heap is whole again.           *)
GapAfter(e) ==
  LET later == {a \in InUse \cup {End} : a >= e} IN Min(later) - e
FailsOnlyWhenFull ==
  \A size \in 1..Size : AllocFails(heap, size) =>
    \A e \in {0} \cup {heap.item[a].next : a \in InUse} :
       GapAfter(e) < Raised(size) + Header
=============================================================================
