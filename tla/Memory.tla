------------------------------- MODULE Memory -------------------------------
(***************************************************************************)
(* Physical frames (mm/phys/frame.rs), page tables (mm/map/mapper.rs), the *)
(* virtual arena (mm/virt/vmarena.rs) and what the kernel takes from them: *)
(* kernel stacks with a guard page, physically consecutive pages for DMA.  *)
(*                                                                         *)
(* Kernel code is not preempted and runs on one processor, so that every   *)
(* operation here is one step of its caller: an operator from the state of *)
(* the memory to a result.  Addresses are page and frame numbers.  The     *)
(* four levels of page tables are one: a table maps PT consecutive pages   *)
(* and costs a frame when the first of them is mapped.                     *)
(***************************************************************************)
EXTENDS Naturals, Sequences, FiniteSets, FiniteSetsExt, Functions, TLC

CONSTANTS
  FRAME_SIZE, \* bytes in a frame of the memory map
  MAX_BITS,   \* frames the pool can track
  MemMap,     \* entries of the memory map: base and length in bytes, usable
  ArenaPages, \* pages of the arena
  PT          \* pages a page table maps

ASSUME MemoryAssumption ==
  /\ FRAME_SIZE \in Nat \ {0} /\ MAX_BITS \in Nat
  /\ ArenaPages \in Nat \ {0} /\ PT \in Nat \ {0}
  /\ \A i \in DOMAIN MemMap :
       MemMap[i].base \in Nat /\ MemMap[i].len \in Nat /\ MemMap[i].usable \in BOOLEAN

align_down(x) == x - (x % FRAME_SIZE)
align_up(x) == align_down(x + FRAME_SIZE - 1)

Ends == {MemMap[i].base + MemMap[i].len : i \in DOMAIN MemMap}
PoolBase == align_down(Min({MemMap[i].base : i \in DOMAIN MemMap}))
Tracked == Min({(align_up(Max(Ends)) - PoolBase) \div FRAME_SIZE, MAX_BITS})

Frame == 0 .. (Tracked - 1)

\* The tracked frames of one entry, rounded inwards to whole frames.
UsableFrames(e) ==
  {f \in Frame : /\ PoolBase + f * FRAME_SIZE >= align_up(e.base)
                 /\ PoolBase + f * FRAME_SIZE < align_down(e.base + e.len)}

\* init_inner: the frames whose bit is clear.
init_inner == UNION {UsableFrames(MemMap[i]) : i \in {j \in DOMAIN MemMap : MemMap[j].usable}}

Put(f, x, v) == (x :> v) @@ f
Drop(f, S) == Restrict(f, DOMAIN f \ S)

\* Mutant of first_free: the scan starts one bit late.
MutSecondLowest(free) == IF free = {Min(free)} THEN Min(free) ELSE Min(free \ {Min(free)})

\* The scan of the bitmap finds the lowest free frame, which try_alloc takes.
first_free(free) == Min(free)
try_alloc(free) == first_free(free)

\* free_inner clears the bits of frames of the pool.
free_inner(free, S) == free \cup (S \cap Frame)

-----------------------------------------------------------------------------
(* Page tables.  A space is its tables and the entries of its pages.       *)

EmptySpace == [tabs |-> << >>, map |-> << >>]

Group(p) == p \div PT

\* Mutant of with_table: the frame of the table stays in the pool.
MutTableKept(free, s, p) ==
  IF Group(p) \in DOMAIN s.tabs THEN [ok |-> TRUE, free |-> free, s |-> s]
  ELSE IF free = {} THEN [ok |-> FALSE, free |-> free, s |-> s]
  ELSE [ok |-> TRUE, free |-> free, s |-> [s EXCEPT !.tabs = Put(@, Group(p), try_alloc(free))]]

\* The table of page p, allocated when it is missing: TableAlloc, ensure_table.
with_table(free, s, p) ==
  IF Group(p) \in DOMAIN s.tabs THEN [ok |-> TRUE, free |-> free, s |-> s]
  ELSE IF free = {} THEN [ok |-> FALSE, free |-> free, s |-> s]
  ELSE [ok |-> TRUE, free |-> free \ {try_alloc(free)},
        s |-> [s EXCEPT !.tabs = Put(@, Group(p), try_alloc(free))]]

\* map_fixed fails on a page that is mapped, its table being there by then.
map_fixed(free, s, p, e) ==
  LET Enter(t) == IF ~t.ok \/ p \in DOMAIN t.s.map THEN [t EXCEPT !.ok = FALSE]
                  ELSE [t EXCEPT !.s.map = Put(@, p, e)]
  IN  Enter(with_table(free, s, p))

-----------------------------------------------------------------------------
(* The arena.  mm: the free frames, the reserved pages, the kernel's space. *)

InitMemory == [free |-> init_inner, bm |-> {}, kern |-> EmptySpace]

Run(base, n) == base .. (base + n - 1)

\* The places where n clear bits follow one another.
find_run(bm, n) ==
  {base \in 0 .. (ArenaPages - 1) :
     n > 0 /\ base + n <= ArenaPages /\ Run(base, n) \cap bm = {}}

\* A frame for every page from p to last; what is done stays done on a failure.
RECURSIVE map_pages(_, _, _)
map_pages(mm, p, last) ==
  IF p > last THEN [out |-> "ok", mm |-> mm]
  ELSE IF mm.free = {} THEN [out |-> "none", mm |-> mm]
  ELSE LET Mapped(f) == map_fixed(mm.free \ {f}, mm.kern, p, f)
           After(r) == [mm EXCEPT !.free = r.free, !.kern = r.s]
           Go(r) == IF r.ok THEN map_pages(After(r), p + 1, last) ELSE [out |-> "none", mm |-> After(r)]
       IN  Go(Mapped(try_alloc(mm.free)))

\* alloc_n reserves the lowest run, and reserves it for good when a frame is
\* missing.
alloc_n(mm, n) ==
  IF find_run(mm.bm, n) = {} THEN [out |-> "none", mm |-> mm, base |-> 0]
  ELSE LET At(base, r) == [out |-> r.out, mm |-> r.mm, base |-> base]
           Reserve(base) ==
             At(base, map_pages([mm EXCEPT !.bm = @ \cup Run(base, n)], base, base + n - 1))
       IN  Reserve(Min(find_run(mm.bm, n)))

\* unmap and frame::free of each page of S that is mapped.
unmap_free(mm, S) ==
  LET mapped == S \cap DOMAIN mm.kern.map
  IN  [mm EXCEPT !.free = free_inner(@, {mm.kern.map[p] : p \in mapped}),
                 !.kern.map = Drop(@, mapped)]

free_n(mm, base, n) ==
  [unmap_free(mm, Run(base, n)) EXCEPT !.bm = @ \ Run(base, n)]

-----------------------------------------------------------------------------
(* Users of the arena.  Their expect() turns a failure into a panic.       *)

\* "none" of an allocation is a panic of its caller.
Expect(r) == IF r.out = "none" THEN [r EXCEPT !.out = "panic"] ELSE r

\* Mutant of alloc_kstack_top: the guard page stays mapped.
MutNoGuard(mm, pages) == Expect(alloc_n(mm, pages + 1))

\* The page below the stack is unmapped and its frame freed.
alloc_kstack_top(mm, pages) ==
  LET Guarded(r) == IF r.out = "ok" THEN [r EXCEPT !.mm = unmap_free(@, {r.base})] ELSE r
  IN  Guarded(Expect(alloc_n(mm, pages + 1)))

\* The n lowest free frames, which n calls of frame::alloc return.
RECURSIVE Lowest(_, _)
Lowest(S, n) == IF n = 0 \/ S = {} THEN {} ELSE {Min(S)} \cup Lowest(S \ {Min(S)}, n - 1)

Consecutive(S) == S = Min(S) .. Max(S)

\* alloc_pages_contig, and the bounce buffer of dma_prepare_buffer: the frames
\* of a run are given back, then the n lowest are taken until they follow one
\* another.  Those that do not are freed again, and come back: the loop spins.
alloc_pages_contig(mm, n) ==
  LET Remap(r, given, taken) ==
        IF Cardinality(taken) < n THEN [r EXCEPT !.out = "panic", !.mm = given]
        ELSE IF ~Consecutive(taken) THEN [r EXCEPT !.out = "stuck", !.mm = given]
        ELSE [r EXCEPT !.mm = [given EXCEPT
                !.free = @ \ taken,
                !.kern.map = [i \in Run(r.base, n) |-> Max(Lowest(taken, i - r.base + 1))] @@ @]]
      Retake(r, given) == Remap(r, given, Lowest(given.free, n))
      GiveBack(r) == IF r.out = "ok" THEN Retake(r, unmap_free(r.mm, Run(r.base, n))) ELSE r
  IN  GiveBack(Expect(alloc_n(mm, n)))

-----------------------------------------------------------------------------
(* The tests the boot runs on the allocators, selftest.rs.                 *)

\* Three frames freed are the three frames allocated next.
test_frames(mm) ==
  LET three == Lowest(mm.free, 3)
  IN  Cardinality(three) = 3 /\ Lowest((mm.free \ three) \cup three, 3) = three

\* A page of the arena gets another frame, which is freed, and the page again
\* by free, which finds nothing mapped.
test_paging(mm) ==
  LET Back(r, bare, again) ==
        [ok |-> r.out = "ok" /\ r.base \notin DOMAIN bare.kern.map /\ again.ok,
         mm |-> free_n(unmap_free([bare EXCEPT !.free = again.free, !.kern = again.s], {r.base}),
                       r.base, 1)]
      Again(r, bare, f) == Back(r, bare, map_fixed(bare.free \ {f}, bare.kern, r.base, f))
      Bare(r, bare) == Again(r, bare, try_alloc(bare.free))
      Page(r) == Bare(r, unmap_free(r.mm, {r.base}))
  IN  Page(alloc_n(mm, 1))

\* Four pages freed are the four pages allocated next.
test_vmarena(mm) ==
  LET Both(one, two) == [ok |-> one.out = "ok" /\ two.out = "ok" /\ one.base = two.base,
                         mm |-> free_n(two.mm, two.base, 4)]
      Again(one) == Both(one, alloc_n(free_n(one.mm, one.base, 4), 4))
  IN  Again(alloc_n(mm, 4))

=============================================================================
