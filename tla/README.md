# MicrOS in TLA+

TLA+ models of MicrOS (a 64-bit Rust kernel booted by Limine, its drivers, network stack,
file systems and user programs), the TLC runs that check them on small instances, and
theorems about them that the TLA+ proof system (TLAPS) checks for all values of the
constants. Paths are relative to the repository root `src/`; the kernel is `src/src/kernel`,
the machine-dependent part `src/src/arch/x86_64`, the programs `src/src/user`.

`PROJECT.json` gives, for every definition, the lines it models (`map`), the runs and their
properties, the hazards found while reading, the mutants that show each property can fail,
and what was found to disagree with the documentation (`findings`).

    tlc -config MCScheduler.cfg MCScheduler      # a run
    tlapm SchedulerProofs.tla                    # a proof

## 1. Inventory

The machine has one CPU. Kernel code runs in three contexts: a kernel thread, a system call
(`int 0x80`) made by a task, and the timer interrupt. System calls execute with interrupts
enabled, but `IN_SYSCALL` keeps the timer from switching tasks inside them; so two system
calls never interleave except where one gives up the CPU itself (yield, sleep, wait, exit).
User code may be interrupted between any two instructions.

| part | state | operations | what is hard about it |
| --- | --- | --- | --- |
| scheduler, `sched/task.rs` | task states, `RUNQ`, `CURRENT`, slices, `JIFFIES`, `NEED_RESCHED`, `IN_SYSCALL` | spawn, schedule, yield, sleep, on_tick, preempt_from_timer | ticks at any point; two ways to save a task (ctx, trap frame); one flag for all tasks |
| processes, `syscall/proc.rs`, `exec/` | `PROCS`, pids, main tasks, address spaces | exec, spawn, wait, kill, exit | one step of several failing; killing the task that runs |
| channels, `syscall/chan.rs` | `CHANS`, ids | create, send, recv | queue limits, short buffers, pop before copy |
| shared memory, `syscall/shm.rs` | objects, frames | create, map | frames kept when a later step fails |
| IPC programs, `user/apps/ipc_*` | channel, memory, `/tmp/ipc_chan` | the two programs | order of write, send, spawn and read; a file that outlives a restart |
| virtqueues, `drivers/virtio/virtqueue` | rings, free stack, indices | alloc, push, pop, free | an asynchronous device; indices that wrap |
| network driver, `drivers/virtio/net.rs` | two queues, buffers | send_frame, recv_frame | time-outs and late completions; one shared transmit page |
| block driver, `drivers/virtio/blk.rs` | one queue, fixed descriptors | read, write | waits without limit; two arena pages kept per request; sectors merged around a partial write |
| input driver, `drivers/virtio/input.rs` | event queue | poll | reports dropped when no buffer is free |
| Ethernet, ARP, IPv4, ICMP, UDP, `net/` | ARP cache of 32, one queue of 32 datagrams | poll, resolve, send, recv | the cache's limit during a resolution (arp.rs:74), ports sharing one queue |
| TCP, `net/tcp.rs` | connections, sequence numbers, receive buffers | connect, send, recv, close, handle_packet | repeated, reordered and lost segments; failing transmissions; time-outs |
| frames, arena, mapper, `mm/` | bitmaps, page tables | alloc, free, map, unmap | failures half-way; double frees (frame.rs:139); retry without progress |
| heap, `mm/heap` | headers and footers in memory, free list, regions | alloc, dealloc, grow | stale headers after merging; alignment leads; full region table |
| FAT32, `fs/fat32.rs` | allocation table, directories with long names | read, append, overwrite, mkdir | order of writes, a crash between two of them; full disk |
| ext2, `fs/ext2.rs` | bitmaps, inodes, directories | read, write, truncate, append | order of bitmap, counter, inode and block writes; indirect blocks; full disk |
| VFS, `fs/vfs` | mount table | path normalisation, dispatch | longest prefix, whatever the order of mounts |
| window manager, `user/wm` | windows, focus, presses and hovers as indices | events, turns of the main loop | indices into a vector that is reordered; presses whose release is lost |
| DNS and HTTP clients, `user/rlibc` | ids, ports, a buffer | lookup, get | answers that come late; a page cut half-way |
| boot, PCI, CPU features, serial, power, framebuffer | registers | straight-line code | nothing that changes after boot |

How the parts meet: programs reach everything through `dispatch` (syscall entry), which the
scheduler brackets; the network stack polls `recv_frame` from inside system calls only (the
background poller of main.rs is disabled); file systems call the block driver; drivers take
pages from the arena, which takes frames; `alloc` takes arena pages.

Correctness, in one line each: one task runs at a time and in its own address space; no task
is lost or run twice; a runnable task runs; channels are bounded FIFO queues; the IPC
programs find each other; a descriptor is in one place; frames and bytes arrive once, in
order and whole; memory is not handed out twice; files survive what they should.

## 2. Modules

| module | models | properties |
| --- | --- | --- |
| `Scheduler` | scheduler, timer, system-call entry and exit, processes | section 3.1 |
| `SchedulerProofs` | | theorems about `Scheduler` |
| `Channel` | `syscall/chan.rs` | 3.2 |
| `ChannelProofs` | | theorems about `Channel` |
| `IpcApp` | ipc_srv and ipc_cli over `Channel` (extended, not copied), shared memory, a file, restarts | 3.3 |
| `IpcAppProofs` | | theorems about `IpcApp` |
| `VirtQueue` | `VirtQueue` as a record with operators, and the device's end of the rings | used by the drivers |
| `VirtioNet` | network driver composed with two `VirtQueue`s and the device | 3.4 |
| `VirtioNetProofs` | | lemmas about the operators of `VirtQueue`, theorems about `VirtioNet` |
| `Tcp` | TCP against peers behind a bad network | 3.5 |
| `TcpProofs` | | theorems about `Tcp` |
| `Heap` | the kernel heap | 3.6 |
| `HeapProofs` | | theorems about `Heap` |
| `FileStore` | what a file system promises: the abstract specification | 3.7 |
| `Fat32`, `Ext2` | the two drivers, a call as the plan of its writes | used by `Vfs` |
| `Vfs` | paths, mounts, the calls, and the execution of a plan on a disk that may fail or stop; implements `FileStore` | 3.7 |
| `Memory` | frames, arena, page tables, kernel stacks, consecutive pages | used by `Storage` |
| `UserMem` | address spaces, ELF loader, shared memory, framebuffer map | used by `Storage` |
| `Storage` | boot, block driver over `VirtQueue` and its device, program starts and memory calls, over one `Memory` | 3.8 |
| `Net` | Ethernet, ARP, IPv4, ICMP, UDP, the network calls, DNS and HTTP clients in several processes | 3.9 |
| `NetProofs` | | theorems about `Net` |
| `Desktop` | window manager and input parser | 3.10 |
| `DesktopProofs` | | theorems about `Desktop` |
| `MC*` | the constants of the runs | |

The invariants of a run are grouped: one named `...Sound` (or `AccountsAgree`) is the conjunction
of those its section lists, each stated and explained by itself in the module.

A definition whose name begins with `Mut` is a small change of the definition after it (a
dropped guard, a swapped order) and is used nowhere: putting it in place of that definition
makes the property named in `PROJECT.json` fail.

## 3. Models, runs, bounds

### 3.1 Scheduler

`state`, `runq`, `current`, `slice`, `needResched`, `inSyscall`, `procTask`, `procState`,
`nextPid` are the code's variables of those names. `wake[t]` is `wake_jiffies - JIFFIES`:
the model counts down where the code counts up. `cr3` is the pid whose address space is
active. `pc[t]` is where a task is in the paths that matter, and `home[t]` the save area
(the context of `switch_context`, or the trap frame of an interrupt) that holds where it
really stopped. An action is a stretch of code no tick can split with a visible effect;
where a tick does matter there is a cut: between the push and the `schedule` of `sleep_ms`
(pc `sleep`), between `syscall_exit` and `cli` (pc `sysout`), in the loops of wait and exit.
`Tick` is the whole of the timer interrupt: `on_tick` and then at most one switch.

* **scheduler** (3 tasks, slice 1, sleeps up to 2 ticks, 3 pids, all calls): `TasksSound` (types,
  `OnlyCurrentRuns`, `QueuedOnce`, `SleepersQueued`), `UserInOwnSpace`, `SyscallFlagCovers`,
  `DeadStayDead` and `RunnableRuns`. Three tasks let one starve while two
  take turns; a sleep of 2 can end before, at and after the end of a slice; 3 pids allow an
  exec after a spawn. With a slice of 1 there are ticks that ask for a switch and ticks that
  do not (in kernel code, in the idle task, in a task that is not Running); the safety
  properties are proved for every slice (section 4).
* **scheduler_sleep** (violation): a task in `sleep_ms` is not resumed. `schedule` switches to
  the idle task while the sleeper is inside its system call, and `IN_SYSCALL`, one flag for all
  tasks, stays set. The tick that makes the sleeper Runnable sets `NEED_RESCHED`, but it and every
  later one return at irq.rs:63 without calling `preempt_from_timer`; the idle loop does not
  call `schedule` and never looks at `NEED_RESCHED`. With `IN_SYSCALL` clear the outcome would be
  the same: `preempt_from_timer` drops a request made in ring 0 (task.rs:409).

`RunnableRuns` is exact about preemption: a Runnable task of `RUNQ` gets the CPU, or is killed,
or the machine stays for ever in one of the conditions of `Starving`. Each of them occurs:

* the idle task has the CPU (the case of scheduler_sleep);
* after exec, `enter_user` does not go through `syscall_exit`: `IN_SYSCALL` stays set, and
  a program that never returns from a system call is not preempted;
* the current task is not in state Running, so that `on_tick` does not count its slice: a
  program that killed itself and goes on, or one whose sleep ended by a tick between the push
  and the `schedule` of `sleep_ms`. `schedule` then picks its own caller and returns early,
  without marking it. When that task later yields or waits it is switched from without being
  queued, since it is not Running: it is Runnable and in no queue, for ever. `RunnableRuns` is
  therefore stated for the tasks of `RUNQ`;
* the machine has halted: `schedule` resumes the next task through its `ctx` (task.rs:574),
  also when it was suspended by the timer or never ran and its registers are in the trap
  frame. A program that spawns another and waits for it is enough. The model stops there
  (`halted`), as the handler of the fault does;
* a failed exec sits in the loop of `run_user_elf` (pc `stuck`) and does not return.

*Fairness* (`FairSpec`): the CPU goes on executing kernel code (weak fairness of each task's
kernel steps and of the boot hand-off), the timer goes on firing (weak fairness of `Tick`),
and a program that is in user mode again and again is interrupted there at some time (strong
fairness of `UserTick`): the timer is periodic and not synchronised with the program. Nothing
is assumed of user code, which may compute for ever.

### 3.2 Channel

One action per system call with the order of its checks (`SendRet`, `RecvRet`); a buffer is
null or not and below `USER_MAX` or not; a message is a length and contents. `sent` and
`popped` are history. **channel** (2 channels, queue of 2, 3 messages each, lengths around
the limit): `ChanSound` (types, `QueueBounded`, `Fifo`) and `Drained`. The queue fills, is
refused, drains and fills again within 3 messages. *Fairness*: some receiver keeps polling
each channel with a full-size buffer, as ipc_cli does; it is an assumption on programs, not
on the kernel.

### 3.3 IpcApp

A step is one system call of a program with the user code around it, since the timer can
switch programs between any two. `file` is `/tmp/ipc_chan` as the sequence of ids written to
it: a write to an existing file appends (ext2), and the client parses all digits as one
number (`Parse`: the value so far is moved up by as many digits as the next id has, `Shift`).
`OthersCreate` stands for channels of other programs, which take ids in between. `Reboot`
clears everything but the file. **ipc** (2 servers with clients, 2 boots, 4
ticks, queue of 2, ids up to 12, other programs create 9 channels at once): `ClientsSound` (types, `PatternSeen`, `OwnServer`), `TicksInOrder`,
`FirstTick`. *Fairness*: each
program's steps, which is `RunnableRuns` of the scheduler for programs that poll with yield.
A server started on a disk that already has the file
appends its id, and its client looks for a channel that does not exist (pc `lost`), or, once
eleven channels have been created, for one that does: ids 1 and 2 in a row are channel 12. The
bounds let both happen, so that a client can be served by a server that did not start it and
two clients can take messages from one channel. `OwnServer` says what remains true: channel and
memory are of one server, and it is another one only if the file holds several ids which make
up a number above 10. `FirstTick` speaks of the first server for the same reason.

### 3.4 VirtQueue and VirtioNet

Pushing to the available ring is two steps, slot then index, because the device runs
concurrently; popping the used ring is one. The device takes descriptors in ring order and
gives them back in any order at any time, or never. A wait is one of two outcomes, completed
or timed out, at any time; the spin count itself is abstracted. **virtio_net** (queues of 2,
indices modulo 4, 3 sends, 2 arrivals): `QueuesSound` (types, `DescriptorsConserved`,
`PanicNeedsTimeouts`), `ReceivedIntact`, `SentOnce`, `SendReturns`. Queues of 2 with indices
modulo 4 wrap both the slots and the indices; 3 sends reach time-out, late completion and
reuse. `SentOnce` is limited to runs without a time-out: after one, the shared transmit page
may be overwritten while the device still has the old descriptor. *Fairness*: the CPU
executes the driver once called; the device owes nothing.

### 3.5 Tcp

System calls are serialised, so `call` is the one in progress and `left` the turns its
polling loop has left; a turn takes at most one frame, of any connection. Peers and network
are one set, `PeerSegments`: whatever the peer can have sent, in any order, any number of
times, cut anywhere. `out` holds the transmitted segments that occupy sequence numbers; a
transmission may fail, and one that failed because the driver timed out may leave the device
all the same. Peers' MAC addresses are taken as known (ARP is in `Net`);
`wrapping_add` is plain addition since numbers are relative and bounded. **tcp** (2
connections, streams of 2 bytes, 2 bytes sent, 2 turns per loop): `StreamSound`
(`StreamInOrder`, `NoByteTwice`), `SendSpace`, `ConnsSound` (types, `NoOrphans`). Two bytes
allow a segment that is late, early, or overlapping; two connections a segment for another
one than the call's. `StreamInOrder` ends with the FIN: handle_packet takes a FIN whatever
its sequence number and advances `rcv_nxt` by one, so that one which overtakes a byte makes
`recv` skip that byte, and each repeated FIN another (tcp.rs:687). `NoByteTwice` is what
remains true then. No liveness is stated: nothing is sent again by this TCP.

### 3.6 Heap

`heap` is the memory the heap writes (a header and a footer where the code writes them, left
in place when blocks merge), the list in order, and the table of regions; `spans` are the
runs of pages vmarena gave. `Alloc` is first fit, split of lead and tail, growth and the
second search; `Dealloc` pushes, merges with the block before and with the block behind, in
the code's order. Out of memory stops the kernel (`alloc_error`). The constants are scaled
down from 4096, 16, 32, 8, 16 and keep their relations (a footer is half of `ALIGN`, so that
sizes are rounded; a lead may be too small for a block). **heap** (3 pages of 16, table of
2, four layouts: small, aligned with a lead that fits, aligned with one that does not fit a
new page, two pages): `BlocksSound` (types, `NoOverlap`, `Served`), `TagsSound`
(`NeighboursSound`, `FlagsSound`). The payloads are not modelled; `NeighboursSound` says
instead that what dealloc reads is in none of them. The model shows that merging with a free
block before leaks it: `remove` marks it used, the block just freed stays on the list with
its old size. Nothing promises otherwise, so it is no finding; the safety properties hold in
spite of it.

### 3.7 FileStore, Fat32, Ext2, Vfs

`FileStore` says what the calls promise: one operation changes one file, entirely or not at
all, and an operation that returned Ok has happened; one that failed or was ended by a crash
may in addition leave an empty file where it was to make or overwrite one. One that returned Ok
without noticing that a read had failed may have done nothing (`missed`). A volume may become
broken, and then nothing is promised of it.

`Fat32` and `Ext2` are operators on a volume. Neither driver keeps anything in memory between
two calls, so a call is a plan: the writes to the disk in the code's order, each seen by the
reads after it, and the error at the end. `Operate` makes all the writes of a plan, or is cut
after any of them: by a read or a write of the disk that fails or by the crash of the machine,
which both leave the writes made and nothing else. Not every failed read ends an ext2
call: `write_file` and `add_dir_entry` take the error of a lookup for a name that is not there
and go on, and `miss` says which of the two do. Paths are texts over three
characters; normalisation, splitting and the comparison with mount points are done on them.

* **vfs** (a FAT32 volume of 7 clusters of two sectors, an ext2 one of 10 blocks and 5 inodes, 2
  mounts, 4 calls in all, one operation in which the disk or the machine fails):
  `ResolvesToDeepest`, `VolumesSound` (types, `NothingShared`), `AccountsAgree` (`NoLeak`,
  `CountersAgree`), `OnlyKnownDamage`, and `ImplementsStore`, the refinement: `files` is what
  `resolve` and the directories of the disk lead to, `last` the operation just ended. Length 3
  fits in one sector and takes two blocks; 9 takes two clusters, and on ext2 more than the direct
  blocks, which is refused, as is an append past them; the file that is there from the
  beginning has an indirect block. Both volumes run full. A name takes two or three slots of
  the root, of which five of eight are taken: it grows by a cluster, with and without empty
  slots left behind.
* **vfs_readback** (violation): a file whose creation returned Ok is not found again.
  `dir_find_free_run` skips empty slots at the end of a sector when a name does not fit
  there, and every listing ends at the first empty slot.

What breaks a volume, by `OnlyKnownDamage`: on ext2 an overwrite that does not come to its end
(the blocks are free in the bitmap before the inode forgets them); on FAT32 that (the old
chain is freed first), an operation cut while it links a cluster to a chain, and the hidden
entries above. FAT32 overwrites in place, so a failed overwrite may leave anything of the
file (`InPlace`). Abstractions: a sector is written at once, and so is a block of ext2; names are
compared as they are, without case folding; of ext2 only group 0, with blocks larger than
1024 bytes, where the number of a block is its bit (alloc_block_group0, ext2.rs:821, does not
add the first data block); time stamps and `i_blocks` are left out.

### 3.8 Memory, UserMem, Storage

Kernel code is one thread, so an operation on frames, arena and tables is an operator from a
memory to a memory and a result; `Storage` composes them with the boot of main.rs (its tests
included), program starts, `sys_shm_create`, `sys_shm_map`, `sys_fb_map`, and the block driver,
whose wait for the device is cut into steps because the device runs concurrently. It reuses
`VirtQueue`. Page tables have one level: a table maps `PT` pages and costs a frame.

**storage** (41 usable frames in two regions that do not begin or end on frames, an arena of 32
pages, a disk of 2 sectors, four programs, one call to the disk, 4 other calls):
`FramesSound` (types, `NoFrameTwice`, `OnlyUsable`, `TestsPass`), `RunsSound` (`ArenaSound`,
`TransfersKeepTwo`, `DmaConsecutive`), `ProcessesSound` (`LoadedImage`, `FirstRights`,
`ShmCoherent`, `UserSpaceActive`), `StuckAtTableOrGap`, `TransferRight`, `SpacesGrow`,
`TransferEnds`. The bounds make frames run out at every point
of the boot's successors, put a hole and a page table between consecutive frames, and give
reads and writes that are aligned, unaligned and across sectors. *Fairness*: the device takes
and answers requests, the driver looks at the ring; the first is an assumption, for the code
waits without a limit.

What it made visible: a read through a bounce buffer is never copied back to the caller, for
which reason `TransferRight` is about direct buffers; every transfer keeps two arena
pages; the search for consecutive frames never ends when a page table or a hole of the memory
map lies above one of the lowest free frames; a failed `sys_shm_map` leaves the pages before
the failure mapped, so that trying again fails as well, one that runs over the end of user addresses panics in
`VirtAddr::new`, and a second `sys_fb_map` fails; a segment with more bytes in the file than
pages in memory is an error found after the bytes that fit were copied; a page
two segments share keeps the rights of the first; without /bin/init.elf the kernel halts.

### 3.9 Net

One system call is in progress at a time; a turn of its loop receives at most one frame,
whoever it is for, and runs the whole of the handler. The network is the set of frames the
hosts can have sent, intact or not, at any turn: it loses, repeats, delays and reorders. The
gateway may come back with another MAC address. `Tcp` is not repeated: a connection is what
its calls return and the address its segments go to, but `tcp::connect`, `send` and `recv`
poll here as they do there, and every turn may receive a frame for someone else. **net** (2 processes, 2 names, 3 hosts with a cache of 2, a queue of 2
datagrams, 2 ids on one port, 2 turns per loop, 2 lookups): `HopsSound` (types, `ArpLatest`,
`RightHop`), `AnswerForName`, `TimeoutMissesLast`, `GetsSound` (`NoConnLeft`,
`BytesReturned`). Cache and queue are at their limit; a lookup that gave up and a later one
meet on the same port. Processes and names are symmetric. The properties also say how far
the code goes: a lookup takes the answer to another name when the ids are equal (names are
not compared, and every process counts from 1), a connection keeps the MAC address that
`connect` found after the next hop has claimed another, a time-out may leave the datagram of the
last turn in the queue, and a page that was cut is returned as a success.

### 3.10 Desktop

`desk` is `struct Desktop`, `parser` is `InputParser`. A step is one report of a device, parsed
event by event and handled by the whole of `handle_event`, and then the drawing at the end of
the turn. Coordinates are abstracted to the part of the screen (taskbar, menu, icon, a button
or the title of a window) with the topmost window there; how windows overlap is free. `behind`
holds the areas that changed without being marked dirty before the drawing; a rectangle that is
marked stands for its whole area, so that `ScreenCurrent` is about handlers that forget to mark
what they change, not about rectangles that are too small. A press may come where the menu's
hover is not: a drag whose release was lost keeps the hover from following the mouse. The device drops
a report when its buffers are full, and a second button in a report replaces the first: `stale`
records that a press has lost its release, until the desktop is at rest again.

**desktop** (2 windows, 1 icon): `DeskSound` (types, `IndicesInRange`, `RestoreKept`),
`FocusTopmost`, `PressNamesWindow`, `ScreenCurrent`, `NothingSwallowed`. Two windows are
enough to raise, close or open one while the index of the other is kept. One release at a
time is lost (`MayLose`). `IndicesInRange` holds with lost reports too; three of the others
do not, and are stated for histories without: the left-over press of a maximise button then
acts on a window that is minimised by the time, and shows it without giving it the focus, and
the index a press kept may name another window.
Also seen: releasing the button over the selected icon starts its program even when a window
covers it (desktop.rs:886).

## 4. Proofs

The safety properties of every run but `vfs` and `storage` are theorems (all but one of `desktop`,
see the end of this section): they hold for every value of the constants that satisfies the
named assumption of the module. Each
`...Proofs` module has one inductive invariant `IInv`, one lemma per action (or group of actions)
that the action keeps it, and theorems that derive the properties of the run from it. The
assumptions are also evaluated by TLC in the runs.

**`SchedulerProofs`**, for any set of tasks, any slice and any bounds (`SchedulerAssumption`: the
initial task is a task, idle and null are not, the slice and the number of pids are positive):

* `TasksCorrect` (from `TypeCorrect`, `MutualExclusion`, `QueueCorrect`, `SleepersFound`),
  `AddressSpaces`, `SyscallFlag`: the invariants of the run **scheduler**;
* `NoResurrection`: its action property `DeadStayDead`.

The properties alone are not inductive. That the run queue has no repetition needs that a new
task is nowhere (`NewInv`) and that only the running task can be between the push and the
`schedule` of sleep_ms (`PcInv`), for that is where a task both runs and is queued; that
`IN_SYSCALL` covers dispatch needs the boot state (`BootInv`); that user code is in its own space
needs the space to be right already in the kernel (`SpaceInv`) and every task that has been in
user mode to have a process (`ProcInv`). The lemmas about the queue (`AfterPick`, `QueueBack`)
say that rotation keeps the elements and their distinctness.

**`ChannelProofs`**: `ChanCorrect` for any number of channels, contents and limits. The
conjunction `ChanSound` is inductive as it stands, its parts are not; the lemmas are about
`Append`, `Head`, `Tail` and concatenation.

**`IpcAppProofs`**: `ClientsAreSound` and the action property `TicksAreInOrder`, for any servers,
queue length, ticks and restarts, and ids of up to nine digits (`DigitsAssumption`; the kernel
heap does not hold that many channels). `IInv` says
that the channels of two servers differ (`ChanInv`), that a server which has written to the file
finds its number alone in it or in front of or behind another (`FileInv`), that a client has its
server's channel or has read a number made up of several (`ClientInv`), and what a server's
queue may hold (`QueueInv`: `INIT` with its own filled memory, then ticks in order and above the
last one seen by any client that has found this channel, whoever started that client; the
channels of other programs are empty). `TickInv` bounds what a client has seen by the counter of
the server it reads from and needs that a channel with readers has been created: a number read
before its channel exists must not make old ticks those of the new server. What the client parses would need induction over the file; `Parsable`
replaces it by an invariant of the file that every write keeps, about all functions that satisfy
the recursion of `Parse`.

**`VirtioNetProofs`**: `QueuesAreSound`, `SentOnceHolds`,
`ReceivedIntactHolds`, for any queue size that divides the number of index values
(`QueueAssumption`; the index may wrap any number of times) and any frames (`FrameAssumption`).
The first part of the module is about `VirtQueue` alone: its lemmas say how a push, a pop, the device's take and its return move a
descriptor between the free stack, the windows of the two rings and the holder. `IInv` counts:
the free descriptors, the calls that timed out and the running call make up the queue (`TxInv`),
which is why the assertion on an empty stack can only be met after as many time-outs; while none
has timed out, the queue holds the running call's descriptor only (`SentInv`); what arrived is
what was delivered and then the used window (`ReceivedInv`).

**`TcpProofs`**: `ConnectionsAreSound`, `StreamsAreSound`, `SendSpaceHolds`, for any number of
connections, stream lengths, segment sizes and polls (`TcpAssumption`). `IInv` adds that an fd not
yet given out has left no trace (`FreshInv`), that a call in progress is for an entry of the table
(`CallInv`), and that every segment in flight lies below `snd_nxt` (`SendInv`): a close in the
middle of a call, or a late segment, would otherwise reach a connection out of nowhere.

**`NetProofs`**: `HopsAreSound`, `AnswersAreForName`, `TimeoutsMissLast`, `GetsAreSound`, for any
processes, names, cache and queue sizes, ids and ports (`NetAssumption`). That an answer is for
the name that was asked needs that the ids a process has used are the first ones and that each has
one name, up to the wrap of the id counter (`IdsInv`); that the ARP cache is right needs that it
has one entry per address, the last heard (`CacheOK`), and that a connection's segments go to the
next hop needs that the address kept at connect is one the next hop has had.

**`HeapProofs`**: `BlocksAreSound` and `TagsAreSound`, for any sizes of header, footer, smallest
block and page, any layouts and any order of calls, with pages from anywhere (`HeapAssumption`:
the sizes are positive, header and page are multiples of `ALIGN`, a page holds a smallest block,
the alignment of a layout is at most `ALIGN` or a multiple of it). Not overlapping is not
inductive: `dealloc` merges by following the footer before a block and the header after it, and
the bytes there may be those of a block that no longer exists. `IInv` therefore has `Geometry`
(every block on the list or in use is aligned, large enough for its tags, inside one run of pages
and apart from the others) with `Tagged`: the footer before a block leads to the block before it
or to an address where there is no block any more; and `ListOK`: the list has no repetition and a
header that says free is on it. After `CoalescePrev` the bytes of the two former blocks belong to
neither (`Ghost`) until the merged block is on the list. The lemmas `GeoSplit`, `GeoSubset`,
`GeoFoot`, `GeoMerge` and `GeoAdd` say that each way the code changes a block keeps the geometry;
`Taken` that `SplitLead` and the tail split hand out what the layout asked for.

**`DesktopProofs`**: `DeskIsSound`, `FocusIsTopmost`, `PressesNameWindows`, `ScreenIsCurrent`, for
any number of windows and icons (`DesktopAssumption`: icons are numbered from 1, "no window" is
no window). `Sound` is what holds always, lost releases included: the indices of presses and
hovers are in range, ids are distinct, a maximised window has a size to return to. `Calm` is what
holds while no release has been lost: the focus is the topmost window, a press has the id of the
window its index points to (which is not minimised when it is to be maximised, and not maximised
when it is dragged), and at most one press waits, which is only so while the left button is down.
This last part is what the properties need and do not say: a press raises its window, and so
moves the window another press that still waits would point to. The proof follows the code: `Step` says of each handler that it keeps `Sound`, keeps
`Calm`, and changes no picture without marking it (`Looks`); these compose to the whole turn of
the loop (`TurnOK`), whatever the events of the report. A report is at most five entries long, so
that the recursion of `Parsed` and `Turn` unfolds without induction; that `max` of the visible
windows exists is drawn from the well-foundedness of the natural numbers (`Smallest`).

Only model-checked:

* liveness (`RunnableRuns`, `Drained`, `FirstTick`, `SendReturns`, `TransferEnds`): fairness and
  ENABLED are outside the prover;
* `Fat32`, `Ext2`, `Vfs` and its refinement of `FileStore`, `Memory`, `UserMem`, `Storage`: they
  are built on `RECURSIVE` operators (chains of clusters, blocks of a file, page table walks),
  which the prover's SMT backend does not take, and what these compute would need induction over
  data;
* `NothingSwallowed` of `Desktop`: the parser and the reports depend on no constant, so that TLC's
  enumeration of them is already the general case.

## 5. Plan

1. **Proofs**: `Channel` as the implementation of an abstract queue; `Memory` once its walks of
   page tables are functions.
2. **Locks**: which spin locks `on_tick` may find held by the code it interrupts (task.rs:338).
3. **Network**: a TCP peer that waits for acknowledgements (tcp.rs:255 clears `pending_ack`
   before the transmission that may fail).
4. **Heap over Memory**: the heap takes its pages from `Memory` in place of `FreeRun`.

## 6. Not modelled

* Spin locks in interrupt context: in `Scheduler` the sections under a lock are atomic. A tick
  that meets a lock held by the code it interrupts would spin for ever; a comment of main.rs
  names this as the reason why the background poller is disabled. It needs every lock of the
  kernel at the granularity of its instructions.
* PCI enumeration, CPU features, descriptor tables, serial port, clock and power: they keep no
  state after boot or are pure input and output.
* Drawing, fonts, colours, the widgets and the programs in windows (browser, notepad,
  explorer, task manager): sequential code on the state of one window. What such a program
  can do to the desktop, ask for a redraw or for a window, is in `Desktop`.
* The ring of the input driver: it is the receive half of the network driver, whose ring
  `VirtioNet` checks; `Desktop` has what a program sees of it.
* Checksums, header layouts and the bytes of DNS and HTTP messages, and errno values.

The state of each part, with the reason, is under `components` in `PROJECT.json`.
