-------------------------------- MODULE Ext2 --------------------------------
(***************************************************************************)
(* The ext2 driver, kernel/fs/ext2.rs, as operators on a volume.  As in    *)
(* Fat32, a call is a plan: the writes it makes to the disk in order, and  *)
(* the error it returns.  Only block group 0 is ever allocated from.       *)
(*                                                                         *)
(* A volume has the two bitmaps, as the sets of their bits that are 1; the *)
(* counters of the superblock and of the group descriptor; the inodes; the *)
(* blocks.  A block holds BS units of a file, or a directory's records,    *)
(* whose lengths add up to DIRLEN, or PER block numbers.                   *)
(*                                                                         *)
(* A read that fails ends a plan, as a write does, but for two: write_file *)
(* and add_dir_entry take the error of looking a name up for its absence.  *)
(* miss has the names of those of the two whose lookup fails.              *)
(***************************************************************************)
EXTENDS Naturals, Sequences, FiniteSets, SequencesExt, FiniteSetsExt

CONSTANTS
  NBlocks,     \* blocks_per_group
  NInodes,     \* inodes_per_group
  first_inode, \* the first inode an allocation may take (11 in the code's volumes)
  BS,          \* the size of a block
  DIRLEN,      \* the same in bytes, for directories
  PER,         \* block numbers in a block
  NDIRECT      \* direct blocks of an inode (12 in the code)

Bits == 0 .. (NBlocks - 1)
Blocks == 0 .. NBlocks
Inodes == 1 .. NInodes
EXT2_ROOT_INO == 2

\* The direct blocks, the indirect one and the doubly indirect one.
Ptrs == 1 .. (NDIRECT + 2)

Zero == [k |-> "zero"]
Bytes(tag, len) == [i \in 1 .. len |-> [k |-> "data", v |-> tag]]
DataBlock(d) == [k |-> "data", cells |-> [i \in 1 .. BS |-> IF i <= Len(d) THEN d[i] ELSE Zero]]
DirBlock(recs) == [k |-> "dir", recs |-> recs]
PtrBlock(p) == [k |-> "ptrs", p |-> p]
Rec(ino, len, name) == [ino |-> ino, len |-> len, name |-> name]

NoPtrs == [i \in Ptrs |-> 0]
inode_set_block_ptr(ptrs, n, b) == [i \in Ptrs |-> IF i = n THEN b ELSE ptrs[i]]
Inode(mode, size, ptrs, links) == [mode |-> mode, size |-> size, ptrs |-> ptrs, links |-> links]

\* A name is a sequence of characters; a record is 8 bytes and the name, rounded up to 4.
dirent_ideal_len(name) == ((8 + Len(name) + 3) \div 4) * 4

BlocksFor(n) == (n + BS - 1) \div BS

-----------------------------------------------------------------------------
(* A plan in the making.                                                   *)

Start(vol, miss) == [v |-> vol, log |-> <<>>, err |-> "Ok", got |-> 0, miss |-> miss]

Fail(st, e) == IF st.err = "Ok" THEN [st EXCEPT !.err = e] ELSE st

\* The ? of the code: the plan goes on with Step unless it has met an error.
Then(st, Step(_)) == IF st.err = "Ok" THEN Step(st) ELSE st

\* A write to a bitmap or to a counter replaces it, a write to an inode or a block one of them.
Applied(vol, w) ==
  IF w.to \in {"inode", "blk"} THEN [vol EXCEPT ![w.to][w.at] = w.val] ELSE [vol EXCEPT ![w.to] = w.val]

Write(st, to, at, val) ==
  LET w == [to |-> to, at |-> at, val |-> val]
  IN  IF st.err # "Ok" THEN st ELSE [st EXCEPT !.v = Applied(@, w), !.log = Append(@, w)]

write_block(st, b, val) == Write(st, "blk", b, val)
write_inode_raw(st, ino, val) == Write(st, "inode", ino, val)

saturating_dec(n) == IF n = 0 THEN 0 ELSE n - 1

\* sb_dec_free_inodes and gd_dec_free_inodes: the superblock's counter, then the group's.
dec_free_inodes(st) ==
  LET Group(s) == Write(s, "gd", 0, [s.v.gd EXCEPT !.inodes = saturating_dec(@)])
  IN  Group(Write(st, "sb", 0, [st.v.sb EXCEPT !.inodes = saturating_dec(@)]))

\* The same for blocks, one less or one more.
count_free_blocks(st, more) ==
  LET Step(n) == IF more THEN n + 1 ELSE saturating_dec(n)
      Group(s) == Write(s, "gd", 0, [s.v.gd EXCEPT !.blocks = Step(@)])
  IN  Group(Write(st, "sb", 0, [st.v.sb EXCEPT !.blocks = Step(@)]))

gd_inc_used_dirs(st) == Write(st, "gd", 0, [st.v.gd EXCEPT !.dirs = @ + 1])

\* bitmap_find_and_set: the first clear bit of the range.
bitmap_find(used, range) == range \ used

alloc_inode_group0(st, isdir) ==
  LET free == bitmap_find(st.v.ibm, first_inode .. NInodes)
      Counted(i) == dec_free_inodes(Write(st, "ibm", 0, st.v.ibm \cup {i}))
      Take(i) == [(IF isdir THEN gd_inc_used_dirs(Counted(i)) ELSE Counted(i)) EXCEPT !.got = i]
  IN  IF st.err # "Ok" THEN st
      ELSE IF free = {} THEN Fail(st, "Full") ELSE Take(Min(free))

\* The number of the bit is taken for the number of the block.
alloc_block_group0(st) ==
  LET free == bitmap_find(st.v.bbm, Bits)
      Take(b) == [count_free_blocks(Write(st, "bbm", 0, st.v.bbm \cup {b}), FALSE) EXCEPT !.got = b]
  IN  IF st.err # "Ok" THEN st
      ELSE IF free = {} THEN Fail(st, "Full") ELSE Take(Min(free))

free_block_group0(st, b) ==
  IF st.err # "Ok" THEN st
  ELSE IF b \notin Bits THEN Fail(st, "BadSuperblock")
  ELSE count_free_blocks(Write(st, "bbm", 0, st.v.bbm \ {b}), TRUE)

-----------------------------------------------------------------------------
(* Reading.                                                                *)

read_u32_block_entry(v, b, i) ==
  IF b = 0 \/ i >= PER \/ v.blk[b].k # "ptrs" THEN 0 ELSE v.blk[b].p[i + 1]

\* The block that holds block n of the file, n counted from 0; 0 is a hole.
inode_data_block_no(v, ptrs, n) ==
  IF n < NDIRECT THEN ptrs[n + 1]
  ELSE IF n - NDIRECT < PER THEN read_u32_block_entry(v, ptrs[NDIRECT + 1], n - NDIRECT)
  ELSE LET idx == n - NDIRECT - PER
       IN  read_u32_block_entry(v, read_u32_block_entry(v, ptrs[NDIRECT + 2], idx \div PER), idx % PER)

Cells(v, b) == IF b = 0 \/ v.blk[b].k # "data" THEN DataBlock(<<>>).cells ELSE v.blk[b].cells

read_inode_data(v, ino) ==
  LET nd  == v.inode[ino]
      blk == [i \in 1 .. BlocksFor(nd.size) |-> Cells(v, inode_data_block_no(v, nd.ptrs, i - 1))]
  IN  [i \in 1 .. nd.size |-> blk[((i - 1) \div BS) + 1][((i - 1) % BS) + 1]]

Recs(v, b) == IF b = 0 \/ v.blk[b].k # "dir" THEN <<>> ELSE v.blk[b].recs

\* The records in the blocks of a directory from block n on that name an inode.
RECURSIVE RecsFrom(_, _, _)
RecsFrom(v, nd, n) ==
  IF n >= BlocksFor(nd.size) THEN <<>>
  ELSE SelectSeq(Recs(v, inode_data_block_no(v, nd.ptrs, n)), LAMBDA r : r.ino # 0) \o RecsFrom(v, nd, n + 1)

DirRecs(v, ino) == RecsFrom(v, v.inode[ino], 0)

is_dir(v, ino) == v.inode[ino].mode = "dir"
is_reg(v, ino) == v.inode[ino].mode = "reg"

\* The inode the first record of this name has, or none.
lookup_in_dir_ci(v, dir, name) ==
  LET First(l) == IF l = <<>> THEN {} ELSE {Head(l).ino}
  IN  IF is_dir(v, dir) THEN First(SelectSeq(DirRecs(v, dir), LAMBDA e : e.name = name)) ELSE {}

\* lookup_in_dir_ci(..).ok() in write_file, and .is_ok() in add_dir_entry.
Seen(st, caller, dir, name) ==
  IF caller \in st.miss THEN {} ELSE lookup_in_dir_ci(st.v, dir, name)

RECURSIVE Walk(_, _, _)
Walk(v, ino, path) ==
  IF path = <<>> THEN {ino}
  ELSE UNION {Walk(v, c, Tail(path)) : c \in lookup_in_dir_ci(v, ino, Head(path))}

resolve_inode_ci(v, path) == Walk(v, EXT2_ROOT_INO, path)

read_file(v, path) ==
  {read_inode_data(v, i) : i \in {j \in resolve_inode_ci(v, path) : is_reg(v, j)}}

-----------------------------------------------------------------------------
(* Directories.                                                            *)

\* The first record with room behind its name for need, or none.
Room(recs, need) ==
  LET at == {i \in DOMAIN recs : recs[i].len >= dirent_ideal_len(recs[i].name) + need}
  IN  IF at = {} THEN {} ELSE {Min(at)}

\* Record i keeps what its name needs; the new record takes the rest.
Split(recs, i, ino, name) ==
  LET ideal == dirent_ideal_len(recs[i].name)
  IN  SubSeq(recs, 1, i - 1)
      \o <<[recs[i] EXCEPT !.len = ideal], Rec(ino, recs[i].len - ideal, name)>>
      \o SubSeq(recs, i + 1, Len(recs))

\* A block of the directory, or none, with room for a record of length need.
BlockWithRoom(v, nd, used, need) ==
  LET at == {i \in 1 .. used : nd.ptrs[i] # 0 /\ Room(Recs(v, nd.ptrs[i]), need) # {}}
  IN  IF at = {} THEN {} ELSE {nd.ptrs[Min(at)]}

\* The record goes into a block with room, or into a new block of the
\* directory: the block is written first, the inode of the directory last.
add_dir_entry(st, dir, ino, name) ==
  LET nd   == st.v.inode[dir]
      need == dirent_ideal_len(name)
      used == Max({1, BlocksFor(nd.size)})
      b    == BlockWithRoom(st.v, nd, used, need)
      Inserted(recs) == DirBlock(Split(recs, CHOOSE i \in Room(recs, need) : TRUE, ino, name))
      Grown(a) == write_inode_raw(write_block(a, a.got, DirBlock(<<Rec(ino, DIRLEN, name)>>)), dir,
                    [nd EXCEPT !.ptrs = inode_set_block_ptr(@, used + 1, a.got), !.size = (used + 1) * BS])
  IN  IF st.err # "Ok" THEN st
      ELSE IF nd.mode # "dir" THEN Fail(st, "NotFound")
      ELSE IF Seen(st, "add_dir_entry", dir, name) # {} THEN st
      ELSE IF b # {} THEN LET Into(blk) == write_block(st, blk, Inserted(Recs(st.v, blk)))
                          IN  Into(CHOOSE x \in b : TRUE)
      ELSE IF used >= NDIRECT THEN Fail(st, "Unsupported")
      ELSE Then(alloc_block_group0(st), Grown)

\* The new directory is got.
mkdir_one(st, parent, name) ==
  LET dotlen == dirent_ideal_len(<<".">>)
      Dots(ino) == DirBlock(<<Rec(ino, dotlen, <<".">>), Rec(parent, DIRLEN - dotlen, <<".", ".">>)>>)
      Made(b, ino) == write_inode_raw(write_block(b, b.got, Dots(ino)), ino,
                                      Inode("dir", BS, inode_set_block_ptr(NoPtrs, 1, b.got), 2))
      Linked(e, ino) == [write_inode_raw(e, parent, [e.v.inode[parent] EXCEPT !.links = @ + 1])
                         EXCEPT !.got = ino]
  IN  Then(alloc_inode_group0(st, TRUE),
           LAMBDA a : Then(alloc_block_group0(a),
                           LAMBDA b : Linked(add_dir_entry(Made(b, a.got), parent, a.got, name), a.got)))

RECURSIVE MkdirFrom(_, _, _)
MkdirFrom(st, dir, path) ==
  IF st.err # "Ok" \/ path = <<>> THEN st
  ELSE LET found == lookup_in_dir_ci(st.v, dir, Head(path))
           child == CHOOSE x \in found : TRUE
       IN  IF found = {} THEN Then(mkdir_one(st, dir, Head(path)), LAMBDA m : MkdirFrom(m, m.got, Tail(path)))
           ELSE IF is_dir(st.v, child) THEN MkdirFrom(st, child, Tail(path)) ELSE Fail(st, "Name")

mkdir(vol, path, miss) == MkdirFrom(Start(vol, miss), EXT2_ROOT_INO, path)

-----------------------------------------------------------------------------
(* Files.                                                                  *)

RECURSIVE FreeAll(_, _)
FreeAll(st, bs) == IF bs = <<>> THEN st ELSE FreeAll(free_block_group0(st, Head(bs)), Tail(bs))

\* Mutant of truncate_file: the inode keeps its pointers.
MutKeepPtrs(st, ino) ==
  LET nd == st.v.inode[ino]
      f  == FreeAll(st, SelectSeq(SubSeq(nd.ptrs, 1, NDIRECT), LAMBDA b : b # 0))
  IN  write_inode_raw(f, ino, [nd EXCEPT !.size = 0])

\* The direct blocks are freed, then the inode forgets them.
truncate_file(st, ino) ==
  LET nd == st.v.inode[ino]
      f  == FreeAll(st, SelectSeq(SubSeq(nd.ptrs, 1, NDIRECT), LAMBDA b : b # 0))
  IN  write_inode_raw(f, ino, [nd EXCEPT !.size = 0,
                                         !.ptrs = [i \in Ptrs |-> IF i <= NDIRECT THEN 0 ELSE nd.ptrs[i]]])

\* Blocks for the contents d from pointer i on; the pointers are got.
RECURSIVE Filled(_, _, _, _)
Filled(st, ptrs, i, d) ==
  IF st.err # "Ok" \/ d = <<>> THEN [st EXCEPT !.got = ptrs]
  ELSE Then(alloc_block_group0(st),
            LAMBDA a : Filled(write_block(a, a.got, DataBlock(d)), inode_set_block_ptr(ptrs, i, a.got),
                              i + 1, SubSeq(d, BS + 1, Len(d))))

write_file_fresh_into_inode(st, ino, d) ==
  LET nd == st.v.inode[ino]
  IN  IF BlocksFor(Len(d)) > NDIRECT THEN Fail(st, "Unsupported")
      ELSE Then(Filled(st, nd.ptrs, 1, d),
                LAMBDA f : write_inode_raw(f, ino, [nd EXCEPT !.size = Len(d), !.ptrs = f.got]))

\* Zeroed blocks where the first n pointers have none; the pointers are got.
RECURSIVE Backed(_, _, _, _)
Backed(st, ptrs, i, n) ==
  IF st.err # "Ok" \/ i > n THEN [st EXCEPT !.got = ptrs]
  ELSE IF ptrs[i] # 0 THEN Backed(st, ptrs, i + 1, n)
  ELSE Then(alloc_block_group0(st),
            LAMBDA a : Backed(write_block(a, a.got, DataBlock(<<>>)),
                              inode_set_block_ptr(ptrs, i, a.got), i + 1, n))

\* d is written at position off of the blocks, block by block.
RECURSIVE Patch(_, _, _, _)
Patch(st, ptrs, off, d) ==
  IF st.err # "Ok" \/ d = <<>> THEN st
  ELSE LET b    == ptrs[(off \div BS) + 1]
           in   == off % BS
           old  == Cells(st.v, b)
           new  == [i \in 1 .. BS |-> IF i > in /\ i - in <= Len(d) THEN d[i - in] ELSE old[i]]
           take == Min({BS - in, Len(d)})
       IN  Patch(write_block(st, b, DataBlock(new)), ptrs, off + take, SubSeq(d, take + 1, Len(d)))

\* Mutant of append_to_file: the size is written before the data.
MutAppendSizeFirst(st, ino, d) ==
  LET nd    == st.v.inode[ino]
      total == BlocksFor(nd.size + Len(d))
      Filed(b, ptrs) == write_inode_raw(b, ino, [nd EXCEPT !.size = @ + Len(d), !.ptrs = ptrs])
  IN  IF d = <<>> THEN st
      ELSE IF total > NDIRECT THEN Fail(st, "Unsupported")
      ELSE Then(Backed(st, nd.ptrs, 1, total), LAMBDA b : Patch(Filed(b, b.got), b.got, nd.size, d))

append_to_file(st, ino, d) ==
  LET nd    == st.v.inode[ino]
      total == BlocksFor(nd.size + Len(d))
      Filed(b, ptrs) == write_inode_raw(b, ino, [nd EXCEPT !.size = @ + Len(d), !.ptrs = ptrs])
  IN  IF d = <<>> THEN st
      ELSE IF total > NDIRECT THEN Fail(st, "Unsupported")
      ELSE Then(Backed(st, nd.ptrs, 1, total), LAMBDA b : Filed(Patch(b, b.got, nd.size, d), b.got))

\* A new file: its inode, its record in the directory, its contents.
Create(st, dir, name, d) ==
  LET Made(a) == write_inode_raw(a, a.got, Inode("reg", 0, NoPtrs, 1))
  IN  Then(alloc_inode_group0(st, FALSE),
           LAMBDA a : Then(add_dir_entry(Made(a), dir, a.got, name),
                           LAMBDA e : write_file_fresh_into_inode(e, a.got, d)))

write_file_at(st, dir, name, d, overwrite) ==
  LET have == Seen(st, "write_file", dir, name)
      Existing(ino) ==
        IF ~is_reg(st.v, ino) THEN Fail(st, "Name")
        ELSE IF overwrite THEN Then(truncate_file(st, ino), LAMBDA t : write_file_fresh_into_inode(t, ino, d))
        ELSE append_to_file(st, ino, d)
  IN  IF have = {} THEN Create(st, dir, name, d) ELSE Existing(CHOOSE x \in have : TRUE)

write_file(vol, path, d, overwrite, miss) ==
  LET dirs == resolve_inode_ci(vol, Front(path))
  IN  IF dirs = {} THEN Fail(Start(vol, miss), "NotFound")
      ELSE write_file_at(Start(vol, miss), CHOOSE x \in dirs : TRUE, Last(path), d, overwrite)

-----------------------------------------------------------------------------
(* What a volume holds.                                                    *)

IsDirAt(v, path) == \E i \in resolve_inode_ci(v, path) : is_dir(v, i)

\* The records of a directory but its dots, each with the directory it is in.
Below(v, dir) ==
  LET l == DirRecs(v, dir)
  IN  {<<dir, l[i]>> : i \in {j \in DOMAIN l : l[j].name \notin {<<".">>, <<".", ".">>}}}

Objects(v) ==
  LET top == Below(v, EXT2_ROOT_INO)
  IN  top \cup UNION {Below(v, o[2].ino) : o \in {x \in top : is_dir(v, x[2].ino)}}

ReachableInodes(v) == {EXT2_ROOT_INO} \cup {o[2].ino : o \in Objects(v)}

\* The blocks an inode points to, itself or through its indirect block.
BlocksOf(v, ino) ==
  LET ptrs == v.inode[ino].ptrs
      ind  == ptrs[NDIRECT + 1]
  IN  (Range(ptrs) \cup {read_u32_block_entry(v, ind, i) : i \in 0 .. (PER - 1)}) \ {0}

ReachableBlocks(v) == UNION {BlocksOf(v, i) : i \in ReachableInodes(v)}

\* A file or a directory has a block, or is an inode, that is free for the next allocation.
Dangling(v) == ~(ReachableBlocks(v) \subseteq v.bbm) \/ ~(ReachableInodes(v) \subseteq v.ibm)

\* Two inodes, or two records, own the same block or inode.
Shared(v) ==
  LET Owners(inos) == [i \in inos |-> BlocksOf(v, i)]
      Twice(owned) == \E i, j \in DOMAIN owned : i # j /\ owned[i] \cap owned[j] # {}
      TwoNames(objs) == \E o, p \in objs : o # p /\ o[2].ino = p[2].ino
  IN  Twice(Owners(ReachableInodes(v))) \/ TwoNames(Objects(v))
=============================================================================
