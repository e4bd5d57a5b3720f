------------------------------ MODULE UserMem ------------------------------
(***************************************************************************)
(* The memory of user programs: address spaces (address_space.rs), the ELF *)
(* loader (exec/elf.rs, exec_impl.rs), shared memory (syscall/shm.rs) and  *)
(* the framebuffer (mapfb.rs).                                             *)
(*                                                                         *)
(* A user address is a byte; a page has PAGE bytes.  The state an operation *)
(* works on is a record u: the free frames, the bytes of user frames and   *)
(* the space it changes.  A space has a root frame, tables and entries; an *)
(* entry is a frame with the rights to write and to execute.               *)
(***************************************************************************)
EXTENDS Memory, Integers

CONSTANTS
  PAGE,             \* bytes of a page, as the loader sees it
  USER_STACK_BASE,  \* first page of the stack
  USER_STACK_PAGES, \* its pages
  USER_SHM_BASE,    \* first page of the window of shared memory object 0
  SHM_STRIDE,       \* pages between two such windows
  USER_PAGES,       \* pages below the end of user addresses
  USER_FB_BASE,     \* first page of the framebuffer
  FB_PAGES          \* its pages

Entry(f, w, x) == [f |-> f, w |-> w, x |-> x]

PageOf(va) == va \div PAGE

\* Pages of the len bytes from va, whole pages.
PagesOf(va, len) == PageOf(va) .. (PageOf(va + len + PAGE - 1) - 1)

Zeroed == [i \in 0 .. (PAGE - 1) |-> 0]

\* new_user_address_space: a root, the lower half of it empty.
new_user_address_space(f) == [root |-> f] @@ EmptySpace

-----------------------------------------------------------------------------
(* The loader.  A program header: type, address, sizes, offset and rights. *)

\* A fresh zeroed frame for page p; a page that is mapped is left as it is,
\* rights included.  The frame is lost when there is none for its table.
map_new(u, p, w, x) ==
  LET f == try_alloc(u.free)
      t == with_table(u.free \ {f}, u.s, p)
  IN  IF p \in DOMAIN u.s.map THEN u
      ELSE IF u.free = {} THEN [u EXCEPT !.err = "NoMem"]
      ELSE IF ~t.ok THEN [u EXCEPT !.err = "NoMem", !.free = t.free]
      ELSE [u EXCEPT !.free = t.free, !.bytes = Put(@, f, Zeroed),
                     !.s = [t.s EXCEPT !.map = Put(@, p, Entry(f, w, x))]]

\* The pages from p to last, up to the first failure.
RECURSIVE map_all(_, _, _, _, _)
map_all(u, p, last, w, x) ==
  IF p > last \/ u.err # "ok" THEN u
  ELSE map_all(map_new(u, p, w, x), p + 1, last, w, x)

map_user_zero(u, p, n, w) == map_all(u, p, p + n - 1, w, TRUE)

\* Mutant of copy_into_user: the copy stops at the end of the first page.
MutOnePage(u, ph) ==
  [u EXCEPT !.bytes =
     LET f == u.s.map[PageOf(ph.va)].f
     IN  Put(@, f, [i \in 0 .. (PAGE - 1) |->
           LET k == PageOf(ph.va) * PAGE + i - ph.va
           IN  IF k \in 0 .. (ph.filesz - 1) THEN ph.off + k + 1 ELSE u.bytes[f][i]])]

\* The bytes of the file go through the page tables one by one, up to the first
\* whose page has no entry: there may be one when the file has more bytes for the
\* segment than memory was mapped.  Byte k of a file is the number k + 1.
copy_into_user(u, ph) ==
  LET gaps == {k \in 0 .. (ph.filesz - 1) : PageOf(ph.va + k) \notin DOMAIN u.s.map}
      n == Min(gaps \cup {ph.filesz})
      hit == {p \in DOMAIN u.s.map : p * PAGE < ph.va + n /\ (p + 1) * PAGE > ph.va}
      page(f) == CHOOSE p \in hit : u.s.map[p].f = f
  IN  [u EXCEPT !.err = IF gaps = {} THEN @ ELSE "BadPhdr",
                !.bytes =
         [f \in {u.s.map[p].f : p \in hit} |->
            [i \in 0 .. (PAGE - 1) |->
               LET k == page(f) * PAGE + i - ph.va
               IN  IF k \in 0 .. (n - 1) THEN ph.off + k + 1 ELSE u.bytes[f][i]]] @@ @]

\* One program header.  Whether the file is long enough is looked at when the
\* pages are mapped.
load_segment(u, ph, len) ==
  LET pages == PagesOf(ph.va, ph.memsz)
      Copy(m) == IF m.err # "ok" THEN m
                 ELSE IF ph.off + ph.filesz > len THEN [m EXCEPT !.err = "BadPhdr"]
                 ELSE copy_into_user(m, ph)
  IN  IF ~ph.load \/ ph.memsz = 0 THEN u
      ELSE Copy(map_all(u, Min(pages), Max(pages), ph.w, ph.x))

RECURSIVE load_segments(_, _, _)
load_segments(u, phs, len) ==
  IF phs = << >> \/ u.err # "ok" THEN u
  ELSE load_segments(load_segment(u, Head(phs), len), Tail(phs), len)

\* load_elf64_user; magic stands for the header and the size of its entries.
load_elf64_user(u, prog) ==
  IF ~prog.magic THEN [u EXCEPT !.err = "BadElf"]
  ELSE load_segments(u, prog.phs, prog.len)

\* load_user_elf_into, the file being read: the program and its stack.
load_user_elf_into(u, prog) ==
  LET Stack(l) == IF l.err # "ok" THEN l
                  ELSE map_user_zero(l, USER_STACK_BASE, USER_STACK_PAGES, TRUE)
  IN  Stack(load_elf64_user(u, prog))

-----------------------------------------------------------------------------
(* Shared memory and the framebuffer, mapped into the active space.        *)

\* sys_shm_create: the frames of the object, or those taken before they ran out.
shm_frames(free, n) == Lowest(free, n)

\* map_fixed from page p on for each frame of a sequence, up to a failure.  An
\* address past the end of user addresses is not canonical: VirtAddr::new panics.
RECURSIVE map_frames(_, _, _)
map_frames(u, p, frames) ==
  IF frames = << >> THEN u
  ELSE IF p >= USER_PAGES THEN [u EXCEPT !.err = "panic"]
  ELSE LET After(r) == [u EXCEPT !.free = r.free, !.s = r.s]
           Go(r) == IF r.ok THEN map_frames(After(r), p + 1, Tail(frames))
                      ELSE [After(r) EXCEPT !.err = "EIO"]
       IN  Go(map_fixed(u.free, u.s, p, Entry(Head(frames), TRUE, FALSE)))

\* sys_shm_map: at the page asked for, or in the window of the object.
ShmBase(id, desired) == IF desired # 0 THEN desired ELSE USER_SHM_BASE + id * SHM_STRIDE

sys_shm_map(u, id, frames, desired) ==
  IF desired >= USER_PAGES \/ Len(frames) > SHM_STRIDE THEN [u EXCEPT !.err = "EINVAL"]
  ELSE map_frames(u, ShmBase(id, desired), frames)

\* Mutant of map_framebuffer_user: a call that fails unmaps the framebuffer.
MutUndo(u) ==
  LET r == map_frames(u, USER_FB_BASE, [i \in 1 .. FB_PAGES |-> -i])
  IN  IF r.err = "ok" THEN r
      ELSE [r EXCEPT !.s.map = Drop(@, Run(USER_FB_BASE, FB_PAGES))]

\* map_framebuffer_user; the frames of the framebuffer are not of the pool.
map_framebuffer_user(u) ==
  map_frames(u, USER_FB_BASE, [i \in 1 .. FB_PAGES |-> -i])

=============================================================================
