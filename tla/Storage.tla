------------------------------ MODULE Storage ------------------------------
(***************************************************************************)
(* The kernel from the first frame to running programs, as its memory and  *)
(* its disk see it: the boot (main.rs), the start of programs (exec_impl,  *)
(* sys_proc_spawn), shared memory and framebuffer calls, and the block     *)
(* driver (drivers/virtio/blk.rs) with the device on the other side of its *)
(* queue.  Kernel code is one thread; the device runs concurrently.        *)
(*                                                                         *)
(* The disk is a sequence of units, SEC of them a sector.  A unit is "o"   *)
(* as it was, "n" when written, "z" as a fresh buffer has it.              *)
(***************************************************************************)
EXTENDS UserMem, VirtQueue

CONSTANTS
  SEC, Sectors,   \* units of a sector, sectors of the disk
  Calls,          \* read_at and write_at calls made: [op, off, len]
  HEAP_PAGES,     \* pages the heap starts with
  QUEUE_PAGES,    \* pages of a queue
  KSTACK_PAGES,   \* pages of a kernel stack
  InitProgram,    \* /bin/init.elf
  Programs,       \* files that are spawned
  ShmSizes,       \* sizes of shared memory objects, in pages
  ShmPlaces,      \* desired_va of sys_shm_map, as a page; 0 for none
  MaxCalls,       \* bound: calls that reach the disk
  MaxOps          \* bound: system calls other than those

VARIABLES
  mm,      \* POOL, ARENA and the kernel's page tables
  bytes,   \* contents of user frames
  spaces,  \* address spaces made so far
  procs,   \* PROCS: indices of the spaces of processes
  active,  \* CR3: index of a space, 0 for the kernel's
  shm,     \* SHMS: the frames of each object
  pc,      \* how far the boot is
  halt,    \* why the kernel has stopped, "no" while it runs
  own,     \* what was allocated from the arena: kind, base, pages
  task,    \* what the result of the request is for
  io,      \* the request in progress: locals of read_at, write_at and xfer
  q, dma, status, \* vq0, the memory of descriptor 1, the status byte
  disk,
  calls, ops,     \* calls so far
  xfers,   \* history: calls of xfer
  maps,    \* history: successful sys_shm_map calls
  loaded   \* history: the program of each process

memVars == <<mm, own>>
userVars == <<bytes, spaces, procs, shm, maps, loaded>>
diskVars == <<q, dma, status, disk>>
vars == <<memVars, userVars, active, pc, halt, task, io, diskVars, calls, ops, xfers>>

Alloc(kind, r, n) == [kind |-> kind, base |-> r.base, n |-> n]

NoTask == [what |-> "none"]
Idle == [pc |-> "idle"]

Init ==
  /\ mm = InitMemory /\ own = {}
  /\ bytes = << >> /\ spaces = << >> /\ procs = {} /\ active = 0
  /\ shm = << >> /\ maps = {} /\ loaded = << >>
  /\ pc = "scratch" /\ halt = "no" /\ task = NoTask /\ io = Idle
  /\ q = New /\ dma = << >> /\ status = 0
  /\ disk = [i \in 1 .. (Sectors * SEC) |-> "o"]
  /\ calls = 0 /\ ops = 0 /\ xfers = 0

Running == halt = "no"

-----------------------------------------------------------------------------
(* The boot, up to the start of init.                                      *)

\* One allocation of the boot: the kernel goes on at next, or stops.
BootAlloc(at, kind, r, n, next) ==
  /\ pc = at /\ Running /\ io.pc = "idle"
  /\ mm' = r.mm
  /\ IF r.out = "ok"
     THEN /\ pc' = next /\ own' = own \cup {Alloc(kind, r, n)}
          /\ UNCHANGED halt
     ELSE halt' = r.out /\ UNCHANGED <<pc, own>>
  /\ UNCHANGED <<userVars, active, task, io, diskVars, calls, ops, xfers>>

init_scratch_va == BootAlloc("scratch", "scratch", Expect(alloc_n(mm, 1)), 1, "heap")

heap_init == BootAlloc("heap", "heap", Expect(alloc_n(mm, HEAP_PAGES)), HEAP_PAGES, "tests")

\* test_frames, test_paging, test_vmarena; too little memory for them is a panic.
selftest ==
  /\ pc = "tests" /\ Running
  /\ \E p \in {test_paging(mm)} : \E v \in {test_vmarena(p.mm)} :
       /\ mm' = v.mm
       /\ IF Cardinality(mm.free) < 6 THEN halt' = "panic" /\ UNCHANGED pc
          ELSE IF test_frames(mm) /\ p.ok /\ v.ok THEN pc' = "queue" /\ UNCHANGED halt
          ELSE halt' = "test" /\ UNCHANGED pc
  /\ UNCHANGED <<own, userVars, active, task, io, diskVars, calls, ops, xfers>>

\* try_attach: the queue of the disk.
try_attach ==
  BootAlloc("queue", "dma", alloc_pages_contig(mm, QUEUE_PAGES), QUEUE_PAGES, "disk")

\* The local APIC is mapped beside the arena; its frame is not of the pool.
LapicPage == (ArenaPages \div PT + 1) * PT
map_lapic ==
  LET r == map_fixed(mm.free, mm.kern, LapicPage, -1)
  IN  /\ pc = "disk" /\ Running /\ io.pc = "idle"
      /\ mm' = [mm EXCEPT !.free = r.free, !.kern = r.s]
      /\ IF r.ok THEN pc' = "idle" /\ UNCHANGED halt ELSE halt' = "panic" /\ UNCHANGED pc
      /\ UNCHANGED <<own, userVars, active, task, io, diskVars, calls, ops, xfers>>

idle_stack ==
  BootAlloc("idle", "stack", alloc_kstack_top(mm, KSTACK_PAGES), KSTACK_PAGES + 1, "init")

init_stack ==
  BootAlloc("init", "stack", alloc_kstack_top(mm, KSTACK_PAGES), KSTACK_PAGES + 1, "list")

-----------------------------------------------------------------------------
(* The block driver.                                                       *)

First(r) == r.off \div SEC
LastSec(r) == (r.off + r.len + SEC - 1) \div SEC
NSec(r) == Max({LastSec(r) - First(r), 1})
Aligned(r) == r.off % SEC = 0 /\ r.len % SEC = 0

Fill(n, v) == [i \in 1 .. n |-> v]
Sector(d, r) == [i \in 1 .. (NSec(r) * SEC) |-> d[First(r) * SEC + i]]

\* The disk d with the sectors of r replaced by x.
Written(d, r, x) ==
  [i \in DOMAIN d |-> IF i - First(r) * SEC \in DOMAIN x THEN x[i - First(r) * SEC] ELSE d[i]]

\* Mutant of Merge: the units come one place too early.
MutMergeOff(t, r) == [i \in DOMAIN t |-> IF i - (r.off % SEC) + 1 \in 1 .. r.len THEN "n" ELSE t[i]]

\* tmp with the units of the caller in their place.
Merge(t, r) == [i \in DOMAIN t |-> IF i - (r.off % SEC) \in 1 .. r.len THEN "n" ELSE t[i]]
Cut(t, r) == [i \in 1 .. r.len |-> t[(r.off % SEC) + i]]

\* The pages of a buffer follow one another in physical memory.
Direct(pages) ==
  \A p \in pages : (p + 1 \in pages) => mm.kern.map[p + 1] = mm.kern.map[p] + 1

\* dma_prepare_buffer: the buffer itself or a bounce buffer.
dma_prepare_buffer(m, req) ==
  IF req.direct THEN [out |-> "ok", mm |-> m, base |-> 0]
  ELSE alloc_pages_contig(m, req.n)

\* A page for the header of a request, one for its status; neither is freed.
request_pages(m) ==
  LET Status(h) == IF h.out = "ok" THEN Expect(alloc_n(h.mm, 1)) ELSE h
  IN  Status(Expect(alloc_n(m, 1)))

\* Up to the wait in xfer: the two pages and the buffer, then the descriptors, the push and the notification.
\* x is what the buffer holds.
xfer(req, phase, x) ==
  LET Prepared(s) == IF s.out = "ok" THEN dma_prepare_buffer(s.mm, req) ELSE s
  IN  \E b \in {Prepared(request_pages(mm))} :
      /\ mm' = b.mm
      /\ IF b.out = "ok"
         THEN /\ io' = [req EXCEPT !.pc = "wait", !.phase = phase]
              /\ own' = own \cup (IF req.direct THEN {} ELSE {Alloc("dma", b, req.n)})
              /\ dma' = x
              /\ q' = PushIdx(PushSlot(q, 0)) /\ status' = 90
              /\ xfers' = xfers + 1
              /\ UNCHANGED halt
         ELSE /\ halt' = b.out /\ UNCHANGED <<io, own, dma, q, status, xfers>>
      /\ UNCHANGED disk

\* The buffers of a call: pages of the heap.
Buffers ==
  {b \in SUBSET (UNION {Run(a.base, a.n) : a \in {o \in own : o.kind = "heap"}}) :
     Cardinality(b) \in {1, 2} /\ b = Min(b) .. Max(b)}

\* read_at and write_at up to their first wait.  An unaligned call works on
\* whole sectors in a buffer of its own, and reads them first.
start(r, pages) ==
  LET req == [pc |-> "wait", op |-> r.op, off |-> r.off, len |-> r.len, phase |-> "read",
              n |-> IF Direct(pages) THEN 0 ELSE Cardinality(pages), direct |-> Direct(pages),
              before |-> disk, ok |-> FALSE, data |-> << >>]
      at_once == r.op = "write" /\ Aligned(r)
  IN  xfer(req, IF at_once THEN "write" ELSE "read", Fill(NSec(r) * SEC, IF at_once THEN "n" ELSE "z"))

Request(r, pages) ==
  /\ pc \in {"disk", "run"} /\ Running /\ task.what = "none" /\ io.pc = "idle"
  /\ calls < MaxCalls
  /\ calls' = calls + 1
  /\ start(r, pages)
  /\ UNCHANGED <<userVars, active, pc, task, ops>>

\* The device takes the chain, does what its header says, writes the status
\* byte and gives the chain back.  A request that fails may have been done.
DeviceTake ==
  /\ Running /\ DevSees(q)
  /\ q' = DevTake(q)
  /\ UNCHANGED <<memVars, userVars, active, pc, halt, task, io, dma, status, disk,
                 calls, ops, xfers>>

DeviceDone(st) ==
  /\ Running
  /\ \E d \in q.held :
       /\ q' = DevPut(q, d)
       /\ status' = st
       /\ \/ IF io.phase = "read" THEN dma' = Sector(disk, io) /\ UNCHANGED disk
             ELSE disk' = Written(disk, io, dma) /\ UNCHANGED dma
          \/ st # 0 /\ UNCHANGED <<dma, disk>>
  /\ UNCHANGED <<memVars, userVars, active, pc, halt, task, io, calls, ops, xfers>>

\* What the caller's buffer holds after a read: a bounce buffer is not copied
\* back into it.
Buffer == IF io.direct THEN dma ELSE Fill(NSec(io) * SEC, "z")

\* The wait in xfer ends: the call goes on to write, or ends.
pop_used ==
  LET ok == status = 0
  IN  /\ Running /\ io.pc = "wait" /\ HasUsed(q)
      /\ q' = AfterPop(q)
      /\ io' = IF ok /\ io.phase = "read" /\ io.op = "write"
               THEN [io EXCEPT !.pc = "merge", !.data = Buffer]
               ELSE [io EXCEPT !.pc = "done", !.ok = ok,
                               !.data = IF io.phase = "read" THEN Cut(Buffer, io) ELSE << >>]
      /\ dma' = << >> /\ status' = 0 \* nothing reads them again
      /\ UNCHANGED <<memVars, userVars, active, pc, halt, task, disk, calls, ops, xfers>>

\* The second half of an unaligned write.
write_back ==
  /\ Running /\ io.pc = "merge"
  /\ xfer(io, "write", Merge(io.data, io))
  /\ UNCHANGED <<userVars, active, pc, task, calls, ops>>

\* A call made for its own sake returns.
Return ==
  /\ Running /\ io.pc = "done" /\ task.what = "none"
  /\ io' = Idle
  /\ UNCHANGED <<memVars, userVars, active, pc, halt, task, diskVars, calls, ops, xfers>>

-----------------------------------------------------------------------------
(* The start of programs.                                                  *)

\* The file of a program, or a directory: one read stands for all of them.
FileRead == [op |-> "read", off |-> 0, len |-> SEC]

\* init_main lists a directory before it executes the program.
init_main(pages) ==
  /\ pc = "list" /\ Running /\ task.what = "none" /\ io.pc = "idle"
  /\ task' = [what |-> "list"]
  /\ start(FileRead, pages)
  /\ UNCHANGED <<userVars, active, pc, calls, ops>>

\* A root frame for the next space, and the program it is for.
NewSpace(m, prog, caller) ==
  IF m.free = {}
  THEN /\ halt' = "panic" /\ mm' = m /\ UNCHANGED <<spaces, task>>
  ELSE /\ mm' = [m EXCEPT !.free = @ \ {try_alloc(m.free)}]
       /\ spaces' = Append(spaces, new_user_address_space(try_alloc(m.free)))
       /\ task' = [what |-> "space", prog |-> prog, caller |-> caller]
       /\ UNCHANGED halt

run_user_elf ==
  /\ Running /\ task.what = "list" /\ io.pc = "done"
  /\ NewSpace(mm, InitProgram, 0)
  /\ io' = Idle
  /\ UNCHANGED <<own, bytes, procs, shm, maps, loaded, active, pc, diskVars, calls, ops, xfers>>

\* Up to the read of the file; the kernel's own space is active from here on.
sys_proc_spawn(prog) ==
  /\ pc = "run" /\ Running /\ task.what = "none" /\ io.pc = "idle" /\ ops < MaxOps
  /\ ops' = ops + 1 /\ active' = 0
  /\ \E r \in {alloc_kstack_top(mm, KSTACK_PAGES)} :
       IF r.out = "ok"
       THEN /\ NewSpace(r.mm, prog, active)
            /\ own' = own \cup {Alloc("stack", r, KSTACK_PAGES + 1)}
       ELSE /\ halt' = r.out /\ mm' = r.mm /\ UNCHANGED <<spaces, task, own>>
  /\ UNCHANGED <<bytes, procs, shm, maps, loaded, pc, io, diskVars, calls, xfers>>

read_file(pages) ==
  /\ Running /\ task.what = "space" /\ io.pc = "idle"
  /\ task' = [task EXCEPT !.what = "load"]
  /\ start(FileRead, pages)
  /\ UNCHANGED <<userVars, active, pc, calls, ops>>

\* init goes on in its own space, a caller of spawn in its own.
caller_space(ok) == IF task.caller = 0 THEN Len(spaces) ELSE task.caller

\* The file as the buffer has it: one that was not filled is no program.
FileOf(data) ==
  IF \E i \in DOMAIN data : data[i] = "z" THEN [magic |-> FALSE] ELSE task.prog

\* The rest of load_user_elf_into and of its callers.  init without a program
\* halts for ever; a caller of spawn gets an error, and what was mapped stays.
load_done ==
  /\ Running /\ task.what = "load" /\ io.pc = "done"
  /\ \E u \in {load_user_elf_into([free |-> mm.free, bytes |-> bytes, s |-> spaces[Len(spaces)],
                                   err |-> "ok"], FileOf(io.data))} :
       LET ok == io.ok /\ u.err = "ok"
       IN  /\ IF io.ok
              THEN /\ mm' = [mm EXCEPT !.free = u.free] /\ bytes' = u.bytes
                   /\ spaces' = [spaces EXCEPT ![Len(spaces)] = u.s]
              ELSE UNCHANGED <<mm, bytes, spaces>>
           /\ IF ok
              THEN /\ procs' = procs \cup {Len(spaces)}
                   /\ loaded' = Put(loaded, Len(spaces), task.prog)
              ELSE UNCHANGED <<procs, loaded>>
           /\ IF ~ok /\ task.caller = 0
              THEN halt' = "hlt" /\ UNCHANGED <<active, pc>>
              ELSE active' = caller_space(ok) /\ pc' = "run" /\ UNCHANGED halt
  /\ task' = NoTask /\ io' = Idle
  /\ UNCHANGED <<own, shm, maps, diskVars, calls, ops, xfers>>

-----------------------------------------------------------------------------
(* System calls on memory.                                                 *)

\* A process runs, on its own space.
Switch(i) ==
  /\ pc = "run" /\ Running /\ task.what = "none" /\ io.pc = "idle"
  /\ i \in procs \ {active} /\ active' = i
  /\ UNCHANGED <<memVars, userVars, pc, halt, task, io, diskVars, calls, ops, xfers>>

Syscall ==
  /\ pc = "run" /\ Running /\ task.what = "none" /\ io.pc = "idle" /\ ops < MaxOps
  /\ ops' = ops + 1
  /\ UNCHANGED <<own, procs, active, pc, task, io, diskVars, calls, xfers, loaded>>

\* The frames already taken are lost when there are too few: ENOSPC.
sys_shm_create(n) ==
  LET fs == shm_frames(mm.free, n)
  IN  /\ Syscall
      /\ mm' = [mm EXCEPT !.free = @ \ fs]
      /\ shm' = IF Cardinality(fs) = n
                THEN Append(shm, [i \in 1 .. n |-> Max(Lowest(fs, i))]) ELSE shm
      /\ UNCHANGED <<bytes, spaces, maps, halt>>

\* The active space after an operation on it.
InActive(u) ==
  /\ mm' = [mm EXCEPT !.free = u.free]
  /\ spaces' = [spaces EXCEPT ![active] = u.s]

Here == [free |-> mm.free, s |-> spaces[active], err |-> "ok"]

shm_map(id, desired) ==
  /\ Syscall /\ id \in DOMAIN shm
  /\ \E u \in {sys_shm_map(Here, id, shm[id], desired)} :
       /\ InActive(u)
       /\ maps' = IF u.err = "ok"
                  THEN maps \cup {[sp |-> active, id |-> id, base |-> ShmBase(id, desired)]} ELSE maps
       /\ halt' = IF u.err = "panic" THEN "panic" ELSE halt
  /\ UNCHANGED <<bytes, shm>>

sys_fb_map ==
  /\ Syscall
  /\ InActive(map_framebuffer_user(Here))
  /\ UNCHANGED <<bytes, shm, maps, halt>>

-----------------------------------------------------------------------------

Next ==
  \/ init_scratch_va \/ heap_init \/ selftest \/ try_attach
  \/ map_lapic \/ idle_stack \/ init_stack
  \/ \E b \in Buffers :
       init_main(b) \/ read_file(b) \/ (\E r \in Calls : Request(r, b))
  \/ DeviceTake \/ (\E st \in {0, 1} : DeviceDone(st))
  \/ pop_used \/ write_back \/ Return
  \/ run_user_elf
  \/ \E p \in Programs : sys_proc_spawn(p)
  \/ load_done
  \/ \E i \in procs : Switch(i)
  \/ \E n \in ShmSizes : sys_shm_create(n)
  \/ \E id \in DOMAIN shm, d \in ShmPlaces : shm_map(id, d)
  \/ sys_fb_map

\* The device answers, and the driver spins until it does.
Spec ==
  /\ Init /\ [][Next]_vars
  /\ WF_vars(DeviceTake) /\ WF_vars(\E st \in {0, 1} : DeviceDone(st)) /\ WF_vars(pop_used)

-----------------------------------------------------------------------------
(* Properties.                                                             *)

Tables(s) == {s.tabs[g] : g \in DOMAIN s.tabs}

\* The arena pages are the kernel's, those of the local APIC apart.
TypeOK ==
  /\ mm.free \subseteq Frame /\ mm.bm \subseteq 0 .. (ArenaPages - 1)
  /\ DOMAIN mm.kern.map \subseteq mm.bm \cup {LapicPage}
  /\ halt \in {"no", "panic", "stuck", "hlt", "test"}
  /\ q \in VirtQueueType
  /\ active \in 0 .. Len(spaces) /\ procs \subseteq DOMAIN spaces
  /\ calls \in Nat /\ ops \in 0 .. MaxOps

\* The uses a frame can be put to, each with the frames in it: free, a table,
\* a page of the kernel, the root of a space, a page of a program, a page of a
\* shared object.  Frames of shared objects in a space count with the object.
ShmFrames == UNION {{shm[id][i] : i \in DOMAIN shm[id]} : id \in DOMAIN shm}

Private(s) == {p \in DOMAIN s.map : s.map[p].f \in Frame \ ShmFrames}

Use(what, i, n, f) == [what |-> what, i |-> i, n |-> n, f |-> f]
Uses ==
  {Use("free", 0, 0, f) : f \in mm.free}
  \cup {Use("table", 0, g, mm.kern.tabs[g]) : g \in DOMAIN mm.kern.tabs}
  \cup {Use("page", 0, p, mm.kern.map[p]) : p \in DOMAIN mm.kern.map \ {LapicPage}}
  \cup UNION {LET s == spaces[i]
              IN  {Use("root", i, 0, s.root)}
                  \cup {Use("table", i, g, s.tabs[g]) : g \in DOMAIN s.tabs}
                  \cup {Use("page", i, p, s.map[p].f) : p \in Private(s)} : i \in DOMAIN spaces}
  \cup UNION {{Use("shm", id, i, shm[id][i]) : i \in DOMAIN shm[id]} : id \in DOMAIN shm}

\* No frame has two uses: the allocators, the guard page given back by each
\* kernel stack, the retries for consecutive frames, the loader and shared
\* memory never hand out or keep a frame that is free or in use elsewhere.
NoFrameTwice == Cardinality(Uses) = Cardinality({u.f : u \in Uses})

\* Every frame the kernel has taken or can take lies within one usable entry
\* of the memory map, to its last byte: init_inner rounds entries inwards.
OnlyUsable ==
  \A f \in {u.f : u \in Uses} :
    \E i \in DOMAIN MemMap :
      /\ MemMap[i].usable
      /\ MemMap[i].base <= PoolBase + f * FRAME_SIZE
      /\ PoolBase + (f + 1) * FRAME_SIZE <= MemMap[i].base + MemMap[i].len

\* What vmarena has handed out is disjoint and mapped, except for the page
\* below each kernel stack, which stays unmapped and reserved whatever is
\* allocated later.
ArenaSound ==
  /\ \A a, b \in own : a # b => Run(a.base, a.n) \cap Run(b.base, b.n) = {}
  /\ \A a \in own : LET pages == Run(a.base, a.n)
                        guard == IF a.kind = "stack" THEN {a.base} ELSE {}
                    IN  pages \cap DOMAIN mm.kern.map = pages \ guard

\* The arena shrinks by exactly two pages with each transfer of the block
\* driver, header and status, beside what is owned: xfer frees neither, so a
\* long-lived kernel runs out of arena pages.
TransfersKeepTwo ==
  Running => Cardinality(mm.bm) = MapThenSumSet(LAMBDA a : a.n, own) + 2 * xfers

\* Pages given to a device as one buffer, a queue or a bounce buffer, have
\* consecutive frames in the order of their addresses.
DmaConsecutive ==
  \A a \in own : a.kind = "dma" =>
    \A p \in Run(a.base, a.n) : mm.kern.map[p] = mm.kern.map[a.base] + (p - a.base)

\* The search for consecutive frames spins for ever only when one of the lowest
\* free frames has above it a gap of the memory map or a page table, which the
\* run of pages just allocated may have brought in between its own frames; the
\* single frames that kernel stacks give back are filled by what is allocated
\* next (the root of a space, the header page of a transfer).
StuckAtTableOrGap ==
  halt = "stuck" =>
    \E f \in Lowest(mm.free, Max({2, QUEUE_PAGES}) - 1) :
      f + 1 \notin init_inner \/ f + 1 \in Tables(mm.kern)

\* The tests of the boot pass whenever there is memory to run them.
TestsPass == halt # "test"

Slice(d, r) == [i \in 1 .. r.len |-> d[r.off + i]]

\* A call that returns true on buffers that need no copy has done what it says:
\* a read returns the units of the disk, a write replaces those units and no
\* other, sectors it only touches in part included.
TransferRight ==
  io.pc = "done" /\ io.ok /\ io.direct =>
    IF io.op = "read" THEN io.data = Slice(disk, io) /\ disk = io.before
    ELSE disk = [i \in DOMAIN disk |->
                   IF i - io.off \in 1 .. io.len THEN "n" ELSE io.before[i]]

\* The bytes a program finds at its start: those of the last header that covers
\* the address from the file, zero elsewhere in its segments.
ByteAt(s, va) == bytes[s.map[PageOf(va)].f][va % PAGE]
FromFile(prog, va) ==
  {j \in DOMAIN prog.phs : prog.phs[j].load /\ va - prog.phs[j].va \in 0 .. (prog.phs[j].filesz - 1)}
Segment(ph) == IF ph.load THEN ph.va .. (ph.va + ph.memsz - 1) ELSE {}
Image(prog, va) ==
  IF FromFile(prog, va) = {} THEN 0
  ELSE LET ph == prog.phs[Max(FromFile(prog, va))] IN ph.off + (va - ph.va) + 1

\* Every process has its program in memory, byte for byte and zero where the
\* file has nothing, and a stack, however short memory was when others were
\* loaded before or after it.
LoadedImage ==
  \A i \in DOMAIN loaded :
    /\ \A j \in DOMAIN loaded[i].phs : \A va \in Segment(loaded[i].phs[j]) :
         /\ PageOf(va) \in DOMAIN spaces[i].map
         /\ ByteAt(spaces[i], va) = Image(loaded[i], va)
    /\ \A p \in Run(USER_STACK_BASE, USER_STACK_PAGES) :
         p \in DOMAIN spaces[i].map /\ spaces[i].map[p].w

\* A page has the rights of the first segment that covers it, and so every
\* segment has its rights on the pages no earlier segment shares with it.
FirstRights ==
  \A i \in DOMAIN loaded : \A j \in DOMAIN loaded[i].phs :
    LET ph == loaded[i].phs[j]
        before == UNION {PagesOf(loaded[i].phs[h].va, loaded[i].phs[h].memsz) : h \in 1 .. (j - 1)}
    IN  ph.load => \A p \in PagesOf(ph.va, ph.memsz) \ before :
                     spaces[i].map[p].w = ph.w /\ spaces[i].map[p].x = ph.x

\* Processes that mapped a shared object see the same frames at the addresses
\* they were given, from then on.
ShmCoherent ==
  \A m \in maps : \A i \in DOMAIN shm[m.id] :
    LET p == m.base + i - 1
    IN  p \in DOMAIN spaces[m.sp].map /\ spaces[m.sp].map[p].f = shm[m.id][i]

\* A step changes no address space but the active one and the one being
\* loaded, and never takes a mapping away: no failure of a load or of a call
\* is undone at the cost of another process.
SpacesGrow ==
  [][\A i \in DOMAIN spaces :
       /\ i \notin {active, Len(spaces)} => spaces'[i] = spaces[i]
       /\ \A p \in DOMAIN spaces[i].map :
            p \in DOMAIN spaces'[i].map /\ spaces'[i].map[p] = spaces[i].map[p]]_vars

\* While programs run, outside a system call, the active space is a process's.
UserSpaceActive == pc = "run" /\ Running /\ task.what = "none" => active \in procs

\* Every transfer ends, with an answer of the device: the driver waits without a
\* limit, so the answer, found in the used ring where the driver looks for it,
\* is all that ends the wait.
TransferEnds == (io.pc = "wait") ~> (io.pc # "wait")

\* The frames: usable memory, each in one use, and the tests of the boot agree.
FramesSound == TypeOK /\ NoFrameTwice /\ OnlyUsable /\ TestsPass

\* The arena: disjoint runs of mapped pages, those for devices consecutive, and
\* two pages gone with each transfer.
RunsSound == ArenaSound /\ TransfersKeepTwo /\ DmaConsecutive

\* The memory of the processes: their programs with their rights, the objects
\* they share, and the space that is active while they run.
ProcessesSound == LoadedImage /\ FirstRights /\ ShmCoherent /\ UserSpaceActive

=============================================================================
