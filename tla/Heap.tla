-------------------------------- MODULE Heap --------------------------------
(***************************************************************************)
(* The kernel heap, kernel/mm/heap/freelist.rs: a list of free blocks,     *)
(* split by alloc and merged by dealloc with the blocks beside them in     *)
(* memory.  The heap is behind one lock: alloc and dealloc are atomic.     *)
(*                                                                         *)
(* A block is named by its address.  What the heap keeps in memory is a    *)
(* header (size and free) at the beginning of a block and its size again   *)
(* in a footer at its end; both stay where they are when a block is merged *)
(* into another.  The prev and next pointers are the sequence list.        *)
(***************************************************************************)
EXTENDS Integers, Sequences, Functions

CONSTANTS
  PAGE_SIZE, ALIGN, HEADER_SIZE, FOOTER_SIZE, MIN_PAYLOAD,
  ArenaPages,   \* pages vmarena can give, the first at address PAGE_SIZE
  InitialPages, \* pages of the first span
  MAX_REGIONS,  \* capacity of Heap.regions
  Layouts       \* the pairs <<size, align>> the kernel asks for

max(x, y) == IF x >= y THEN x ELSE y

\* (x + align - 1) & !(align - 1)
align_up(x, align) == ((x + align - 1) \div align) * align

MIN_BLOCK == align_up(HEADER_SIZE + FOOTER_SIZE + MIN_PAYLOAD, ALIGN)

\* The alignment of a layout is a power of two; a page holds a block.
ASSUME HeapAssumption ==
  /\ {PAGE_SIZE, ALIGN, HEADER_SIZE, FOOTER_SIZE, MIN_PAYLOAD, InitialPages} \subseteq Nat \ {0}
  /\ ArenaPages \in Nat /\ InitialPages <= ArenaPages /\ MAX_REGIONS \in Nat
  /\ HEADER_SIZE % ALIGN = 0 /\ PAGE_SIZE % ALIGN = 0 /\ MIN_BLOCK <= PAGE_SIZE
  /\ \A l \in Layouts : l[1] \in Nat /\ l[2] \in Nat /\ (l[2] <= ALIGN \/ l[2] % ALIGN = 0)

Addr == PAGE_SIZE .. ((ArenaPages + 1) * PAGE_SIZE - 1)

VARIABLES
  heap, \* [hdr, foot, list, regions]: the memory of the heap and struct Heap
  spans, \* the runs of pages vmarena gave, [start, len]; none is given back
  live, \* the allocations in use: [ptr, size, align]
  oom   \* alloc returned null, and alloc_error has stopped the kernel

vars == <<heap, spans, live, oom>>

-----------------------------------------------------------------------------
(* Blocks and the list of free ones.                                       *)

\* The header and the footer of block b are written.
WriteBlock(h, b, size, free) ==
  [h EXCEPT !.hdr[b] = [size |-> size, free |-> free], !.foot[b + size - FOOTER_SIZE] = size]

Size(h, b) == h.hdr[b].size

\* List::push and List::remove
ListPush(h, b) == [h EXCEPT !.hdr[b].free = TRUE, !.list = <<b>> \o @]

Unlinked(list, b) ==
  LET i == CHOOSE j \in DOMAIN list : list[j] = b
  IN  SubSeq(list, 1, i - 1) \o SubSeq(list, i + 1, Len(list))

ListRemove(h, b) == [h EXCEPT !.hdr[b].free = FALSE, !.list = Unlinked(@, b)]

payload_ptr(b) == b + HEADER_SIZE

Lead(b, align) == align_up(payload_ptr(b), align) - payload_ptr(b)

\* The condition of find_fit: a lead must be large enough to be a block.
Fits(h, b, need, align) ==
  /\ Size(h, b) >= need + Lead(b, align)
  /\ Lead(b, align) = 0 \/ Lead(b, align) >= MIN_BLOCK

\* The positions in the list find_fit may return: the first that fits, or none.
find_fit(h, need, align) ==
  LET fit == {i \in DOMAIN h.list : Fits(h, h.list[i], need, align)}
  IN  {i \in fit : \A j \in fit : i <= j}

Within(rs, a) == {r \in rs : a >= r.start /\ a < r.start + r.len}

region_bounds(h, a) == Within(Range(h.regions), a)

\* The span is one free block; a span that finds the table of regions full is
\* used all the same.
add_span(h, start, len) ==
  LET w == ListPush(WriteBlock(h, start, len, TRUE), start)
  IN  IF Len(h.regions) < MAX_REGIONS
      THEN [w EXCEPT !.regions = Append(@, [start |-> start, len |-> len])]
      ELSE w

\* Pages of the arena that belong to no span of the heap: vmarena gives any run
\* of them, as other parts of the kernel take and give back pages too.
FreeRun(start, pages) ==
  \A a \in start .. (start + pages * PAGE_SIZE - 1) : a \in Addr /\ Within(spans, a) = {}

-----------------------------------------------------------------------------
(* alloc and dealloc.                                                      *)

Need(size) ==
  HEADER_SIZE + align_up(max(size, MIN_PAYLOAD), ALIGN) + FOOTER_SIZE

\* The block is taken off the list, and a lead before the aligned payload goes
\* back to it.  The result is the heap and the block that is left.
SplitLead(h, b, align) ==
  LET lead == Lead(b, align) - (Lead(b, align) % ALIGN)
      h1   == ListRemove(h, b)
      h2   == ListPush(WriteBlock(h1, b, lead, FALSE), b)
  IN  IF lead >= MIN_BLOCK
      THEN [heap |-> WriteBlock(h2, b + lead, Size(h, b) - lead, FALSE), use |-> b + lead, absorbed |-> 0]
      ELSE [heap |-> h1, use |-> b, absorbed |-> Lead(b, align)]

\* Mutant of SplitTail: the tail begins inside the block that is used.
MutTailEarly(h, use, alloc) ==
  IF Size(h, use) >= alloc + MIN_BLOCK
  THEN WriteBlock(ListPush(WriteBlock(h, use + alloc - ALIGN, Size(h, use) - alloc, TRUE),
                           use + alloc - ALIGN), use, alloc, FALSE)
  ELSE WriteBlock(h, use, Size(h, use), FALSE)

\* Mutant of SplitTail: the footer of the block that is used is not written.
MutNoFooter(h, use, alloc) ==
  IF Size(h, use) >= alloc + MIN_BLOCK
  THEN [ListPush(WriteBlock(h, use + alloc, Size(h, use) - alloc, TRUE), use + alloc)
          EXCEPT !.hdr[use] = [size |-> alloc, free |-> FALSE]]
  ELSE WriteBlock(h, use, Size(h, use), FALSE)

\* What is left behind the payload goes back to the list if it can be a block.
SplitTail(h, use, alloc) ==
  IF Size(h, use) >= alloc + MIN_BLOCK
  THEN WriteBlock(ListPush(WriteBlock(h, use + alloc, Size(h, use) - alloc, TRUE),
                           use + alloc), use, alloc, FALSE)
  ELSE WriteBlock(h, use, Size(h, use), FALSE)

\* alloc once block b has been found.
Take(h, b, size, align) ==
  LET s == SplitLead(h, b, align)
      alloc == align_up(Need(size) + s.absorbed, ALIGN)
  IN  /\ heap' = SplitTail(s.heap, s.use, alloc)
      /\ live' = live \cup {[ptr |-> payload_ptr(s.use), size |-> size, align |-> align]}

\* The second find_fit of alloc, in the heap that has grown: the new span has
\* room for the block but not always for a lead before it.
Retry(h, size, align) ==
  \/ /\ \E i \in find_fit(h, Need(size), align) : Take(h, h.list[i], size, align)
     /\ UNCHANGED oom
  \/ /\ find_fit(h, Need(size), align) = {}
     /\ heap' = h
     /\ oom' = TRUE
     /\ UNCHANGED live

\* grow fails when no run of pages is free, and when vmarena finds no frame for
\* one of them.
Alloc(size, al) ==
  LET align == max(al, ALIGN)
      need  == Need(size)
      pages == align_up(need, PAGE_SIZE) \div PAGE_SIZE
  IN  \/ /\ \E i \in find_fit(heap, need, align) : Take(heap, heap.list[i], size, align)
         /\ UNCHANGED <<spans, oom>>
      \/ /\ find_fit(heap, need, align) = {}
         /\ \E start \in {a \in Addr : a % PAGE_SIZE = 0} :
              /\ FreeRun(start, pages)
              /\ spans' = spans \cup {[start |-> start, len |-> pages * PAGE_SIZE]}
              /\ Retry(add_span(heap, start, pages * PAGE_SIZE), size, align)
      \/ /\ find_fit(heap, need, align) = {}
         /\ oom' = TRUE
         /\ UNCHANGED <<heap, spans, live>>

\* The size in the footer just before b is that of the block before it.
PrevAddr(h, b) == b - h.foot[b - FOOTER_SIZE]

\* try_coalesce_with_prev: remove has marked the block before as used, and it
\* stays so; b itself stays on the list.
CoalescePrev(h, b) ==
  LET can == \E r \in region_bounds(h, b) :
               /\ b >= r.start + FOOTER_SIZE
               /\ h.foot[b - FOOTER_SIZE] # 0
               /\ b >= h.foot[b - FOOTER_SIZE] + r.start
               /\ h.hdr[PrevAddr(h, b)].free
      p   == PrevAddr(h, b)
  IN  IF can THEN [heap |-> WriteBlock(ListRemove(h, p), p, Size(h, p) + Size(h, b), FALSE), b |-> p]
             ELSE [heap |-> h, b |-> b]

\* try_coalesce_with_next
CoalesceNext(h, b) ==
  LET n == b + Size(h, b)
  IN  IF \E r \in region_bounds(h, b) : n < r.start + r.len /\ h.hdr[n].free
      THEN WriteBlock(ListRemove(h, n), b, Size(h, b) + Size(h, n), h.hdr[b].free)
      ELSE h

Dealloc(a) ==
  LET b == a.ptr - HEADER_SIZE
      c == CoalescePrev(ListPush(heap, b), b)
  IN  /\ a \in live
      /\ heap' = CoalesceNext(c.heap, c.b)
      /\ live' = live \ {a}
      /\ UNCHANGED <<spans, oom>>

-----------------------------------------------------------------------------

\* init: one span; the rest of the memory is zero.
Init ==
  /\ heap = add_span([hdr |-> [a \in Addr |-> [size |-> 0, free |-> FALSE]],
                      foot |-> [a \in Addr |-> 0], list |-> << >>, regions |-> << >>],
                     PAGE_SIZE, InitialPages * PAGE_SIZE)
  /\ spans = {[start |-> PAGE_SIZE, len |-> InitialPages * PAGE_SIZE]}
  /\ live = {}
  /\ oom = FALSE

Next ==
  /\ ~oom
  /\ \/ \E l \in Layouts : Alloc(l[1], l[2])
     \/ \E a \in live : Dealloc(a)

Spec == Init /\ [][Next]_vars

-----------------------------------------------------------------------------

Extent(b) == b .. (b + Size(heap, b) - 1)

LiveBlocks == {a.ptr - HEADER_SIZE : a \in live}
ListBlocks == Range(heap.list)

Payload(a) == a.ptr .. (a.ptr + a.size - 1)

\* Type invariant of the heap: sizes, which the code keeps as usize, are never
\* the result of a subtraction that went below zero, and the table of regions
\* keeps its capacity.
TypeOK ==
  /\ heap.hdr \in [Addr -> [size : Nat, free : BOOLEAN]]
  /\ heap.foot \in [Addr -> Nat]
  /\ heap.list \in Seq(Addr)
  /\ Len(heap.regions) <= MAX_REGIONS /\ Range(heap.regions) \subseteq spans
  /\ \A a \in live : a.ptr \in Addr
  /\ oom \in BOOLEAN

\* No byte belongs to two blocks that are in use or on the free list, and every
\* block lies in one span: splitting, growing and merging never hand out memory
\* twice, although merged blocks leave their headers and footers behind.
NoOverlap ==
  /\ \A a, c \in live : a.ptr = c.ptr => a = c
  /\ LiveBlocks \cap ListBlocks = {}
  /\ IsInjective(heap.list)
  /\ \A b \in LiveBlocks \cup ListBlocks :
       /\ \E r \in Within(spans, b) : b + Size(heap, b) <= r.start + r.len
       /\ \A c \in (LiveBlocks \cup ListBlocks) \ {b} : Extent(b) \cap Extent(c) = {}

\* An allocation is aligned as asked, and its bytes lie between the header and
\* the footer of its block.
Served ==
  \A a \in live :
    /\ a.ptr % a.align = 0
    /\ a.size + HEADER_SIZE + FOOTER_SIZE <= Size(heap, a.ptr - HEADER_SIZE)

\* What dealloc will read of the blocks beside the one it frees, the footer
\* before it, the header that footer leads to and the header behind it, is not
\* inside a payload, where the kernel may have written anything.
NeighboursSound ==
  LET reads(b) ==
        (UNION {{b - FOOTER_SIZE, PrevAddr(heap, b)} :
                 r \in {s \in region_bounds(heap, b) :
                          b > s.start /\ b >= heap.foot[b - FOOTER_SIZE] + s.start}})
        \cup {n \in {b + Size(heap, b)} : \E r \in region_bounds(heap, b) : n < r.start + r.len}
  IN  \A a \in live, c \in live : reads(a.ptr - HEADER_SIZE) \cap Payload(c) = {}

\* The free flag, by which dealloc judges the blocks beside, tells what is on
\* the list: what remove unlinks is linked.
FlagsSound == \A a \in Addr : heap.hdr[a].free => a \in ListBlocks

\* What alloc hands out: of the layout asked for, in memory nobody else has.
BlocksSound == TypeOK /\ NoOverlap /\ Served

\* What dealloc reads to merge a block with those beside it is their headers and
\* footers, and says what they are.
TagsSound == NeighboursSound /\ FlagsSound

=============================================================================
