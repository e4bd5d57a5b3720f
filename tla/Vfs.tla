-------------------------------- MODULE Vfs --------------------------------
(***************************************************************************)
(* The virtual file system: the mount table and paths (kernel/fs/vfs), the *)
(* calls of kernel/syscall/vfs.rs, and the execution of an operation of    *)
(* Fat32 or Ext2 on a volume, one write to the disk at a time.             *)
(*                                                                         *)
(* System calls are not preempted, so there is one operation at a time.    *)
(* What interrupts it is the disk: a read or a write that fails ends it    *)
(* with an I/O error, and a crash ends it without a word.  Both leave the  *)
(* writes already made, and neither driver keeps state in memory that a    *)
(* restart would lose: a cut is either.  Two lookups of Ext2 take a read   *)
(* that fails for a name that is not there, and go on.                     *)
(***************************************************************************)
EXTENDS Naturals, Sequences, FiniteSets, SequencesExt, FiniteSetsExt

CONSTANTS
  NClus, SEC, spc, MAX_TAIL, CHARS, STEM,                    \* see Fat32
  NBlocks, NInodes, first_inode, BS, DIRLEN, PER, NDIRECT,   \* see Ext2
  MountPoints, \* the texts mount is called with
  Paths,       \* the texts the other calls are called with
  Lengths,     \* the lengths written
  MaxMounts,   \* bound: mount points, all of them made before the first operation
  MaxCalls,    \* bound: mount points and operations on files together
  MaxCuts      \* bound: operations in which the disk or the machine fails

F == INSTANCE Fat32
E == INSTANCE Ext2

-----------------------------------------------------------------------------
(* Paths.  A text is a sequence of characters; "/" is one of them.         *)

Slash(t, i) == t[i] = "/"

\* The positions of a text that satisfy the test, in order.
Positions(t, Test(_)) == SelectSeq([i \in 1 .. Len(t) |-> i], Test)

Collapsed(out) ==
  LET keep == Positions(out, LAMBDA i : ~(Slash(out, i) /\ i > 1 /\ Slash(out, i - 1)))
  IN  [i \in 1 .. Len(keep) |-> out[keep[i]]]

\* One slash in front, runs of slashes made one, none at the end.
normalize_path(t) ==
  LET one == Collapsed(IF Slash(t, 1) THEN t ELSE <<"/">> \o t)
  IN  IF Len(one) > 1 /\ Slash(one, Len(one)) THEN Front(one) ELSE one

\* split_path: the names between the slashes.
split_path(t) ==
  LET s == Positions(t, LAMBDA i : ~Slash(t, i) /\ (i = 1 \/ Slash(t, i - 1)))
      e == Positions(t, LAMBDA i : ~Slash(t, i) /\ (i = Len(t) \/ Slash(t, i + 1)))
  IN  [n \in 1 .. Len(s) |-> SubSeq(t, s[n], e[n])]

\* The text of p that is left when the mount point mp is taken off it.
strip_mount_prefix(p, mp) ==
  LET tail == SubSeq(p, Len(mp) + 1, Len(p))
  IN  IF mp = <<"/">> THEN p ELSE IF tail = <<>> THEN <<"/">> ELSE tail

\* Whether a mount point takes the path: the whole of it, or up to a slash.
Covers(mp, p) ==
  \/ p = mp
  \/ Len(p) > Len(mp) /\ SubSeq(p, 1, Len(mp)) = mp /\ (mp = <<"/">> \/ Slash(p, Len(mp) + 1))

\* The first entry of the mount table that covers the path: its volume and the
\* path on it, or none.
resolve(table, t) ==
  LET p  == normalize_path(t)
      at == {i \in DOMAIN table : Covers(table[i].mp, p)}
  IN  IF at = {} THEN {}
      ELSE {[vol |-> table[Min(at)].vol, path |-> strip_mount_prefix(p, table[Min(at)].mp)]}

\* Mutant of Mounted: the table is not sorted.
MutUnsorted(table, mp, v) ==
  IF \E i \in DOMAIN table : table[i].mp = mp
  THEN [i \in DOMAIN table |-> IF table[i].mp = mp THEN [mp |-> mp, vol |-> v] ELSE table[i]]
  ELSE Append(table, [mp |-> mp, vol |-> v])

\* A mount point already in the table gets the new volume; a new one is put in,
\* and the table sorted, the longest first.
Mounted(table, mp, v) ==
  IF \E i \in DOMAIN table : table[i].mp = mp
  THEN [i \in DOMAIN table |-> IF table[i].mp = mp THEN [mp |-> mp, vol |-> v] ELSE table[i]]
  ELSE SortSeq(Append(table, [mp |-> mp, vol |-> v]), LAMBDA a, b : Len(a.mp) > Len(b.mp))

-----------------------------------------------------------------------------
(* The state.                                                              *)

Volumes == {"fat", "ext"}

VARIABLES
  mounts, \* MOUNTS
  disk,   \* the two volumes
  files,  \* auxiliary: what reading each path returns, View(disk)
  last,   \* the last operation and whether it returned Ok
  ops,    \* operations so far
  cuts,   \* the kinds of the operations cut short
  missed, \* the kinds of the operations that took a failed read for a missing name
  failed, \* the kinds of the operations that returned an error
  broken  \* the volumes an operation has left broken

vars == <<mounts, disk, files, last, ops, cuts, missed, failed, broken>>

\* The paths on a volume: those of Paths, and what a mount point leaves of them.
FilePaths ==
  LET ps == {split_path(t) : t \in Paths}
  IN  {p \in ps \cup {Front(p) : p \in ps} \cup {Tail(p) : p \in ps} : p # <<>>}

Files == Volumes \X FilePaths

\* What is found at a path of a volume.
Found(d, v, p) ==
  LET isdir == IF v = "fat" THEN F!IsDirAt(d.fat, p) ELSE E!IsDirAt(d.ext, p)
      cont  == IF v = "fat" THEN F!read_file(d.fat, p) ELSE E!read_file(d.ext, p)
  IN  IF isdir THEN [t |-> "dir"]
      ELSE IF cont = {} THEN [t |-> "absent"] ELSE [t |-> "file", c |-> CHOOSE c \in cont : TRUE]

View(d) == [f \in Files |-> Found(d, f[1], f[2])]

\* The volumes the Makefile makes: FAT32 with a label, the directory testdir and the
\* file hello.txt in the root, ext2 with a file that needs an indirect block.
FatVolume ==
  LET Short(name) == <<name, 0>>
      Entry(name, dir, c, size) == F!Ent(name, Short(name), dir, c, size)
      testdir == F!root_clus + 1
      hello == F!root_clus + 2
      root == <<F!VolumeLabel(Short(<<"M">>)), F!Lfn, Entry(<<"t">>, TRUE, testdir, 0),
                F!Lfn, Entry(<<"h">>, FALSE, hello, 1)>>
      dots == <<Entry(<<".">>, TRUE, testdir, 0), Entry(<<".", ".">>, TRUE, 0, 0)>>
      data(c) == CASE c = F!root_clus -> F!Padded(root)
                   [] c = testdir -> F!Padded(dots)
                   [] c = hello -> F!Padded(F!Bytes(0, 1))
                   [] OTHER -> F!ZeroCluster
  IN  [fat  |-> [c \in F!Clus |-> IF c <= hello THEN F!EOC ELSE 0],
       data |-> [c \in F!Clus |-> data(c)]]

BigFile == <<"a", "b">>

ExtVolume ==
  LET big  == [i \in 1 .. (NDIRECT + 1) |-> 1 + i]
      ind  == NDIRECT + 3
      used == 0 .. ind
      root == <<E!Rec(2, 12, <<".">>), E!Rec(2, 12, <<".", ".">>), E!Rec(3, DIRLEN - 24, BigFile)>>
      blk(b) == CASE b = 1 -> E!DirBlock(root)
                  [] b \in Range(big) -> E!DataBlock(E!Bytes(0, BS))
                  [] b = ind -> E!PtrBlock([i \in 1 .. PER |-> IF i = 1 THEN big[NDIRECT + 1] ELSE 0])
                  [] OTHER -> E!DataBlock(<<>>)
      bigptrs == [i \in E!Ptrs |-> IF i <= NDIRECT THEN big[i] ELSE IF i = NDIRECT + 1 THEN ind ELSE 0]
      ino(i) == CASE i = 2 -> E!Inode("dir", BS, E!inode_set_block_ptr(E!NoPtrs, 1, 1), 3)
                  [] i = 3 -> E!Inode("reg", (NDIRECT + 1) * BS, bigptrs, 1)
                  [] OTHER -> E!Inode("none", 0, E!NoPtrs, 0)
  IN  [bbm   |-> used,
       ibm   |-> 1 .. (first_inode - 1),
       sb    |-> [blocks |-> NBlocks - Cardinality(used), inodes |-> NInodes - first_inode + 1],
       gd    |-> [blocks |-> NBlocks - Cardinality(used), inodes |-> NInodes - first_inode + 1, dirs |-> 1],
       inode |-> [i \in E!Inodes |-> ino(i)],
       blk   |-> [b \in E!Blocks |-> blk(b)]]

Init ==
  /\ mounts = <<>>
  /\ disk = [fat |-> FatVolume, ext |-> ExtVolume]
  /\ files = View(disk)
  /\ last = [kind |-> "none"]
  /\ ops = 0
  /\ cuts = {}
  /\ missed = {}
  /\ failed = {}
  /\ broken = {}

-----------------------------------------------------------------------------
(* The calls.                                                              *)

\* sys_vfs_mount, by init at boot.  Mounting a volume as the file system it is
\* not fails, and changes nothing.
Mount(t, v) ==
  /\ ops = 0
  /\ Len(mounts) < MaxMounts \/ \E i \in DOMAIN mounts : mounts[i].mp = normalize_path(t)
  /\ mounts' = Mounted(mounts, normalize_path(t), v)
  /\ UNCHANGED <<disk, files, last, ops, cuts, missed, failed, broken>>

Broken(d, v) ==
  IF v = "fat" THEN F!Dangling(d.fat) \/ F!TooShort(d.fat) \/ F!Hidden(d.fat) ELSE E!Dangling(d.ext)

Plan(kind, v, p, d, miss) ==
  IF v = "fat"
  THEN IF kind = "mkdir" THEN F!mkdir(disk.fat, p) ELSE F!write_file(disk.fat, p, d, kind = "overwrite")
  ELSE IF kind = "mkdir" THEN E!mkdir(disk.ext, p, miss)
       ELSE E!write_file(disk.ext, p, d, kind = "overwrite", miss)

\* The lookups that may fail unnoticed.
Missable(v) == IF v = "ext" THEN {"write_file", "add_dir_entry"} ELSE {}

\* The volumes after each of the writes of a plan, and before them.
RECURSIVE Stages(_, _, _)
Stages(v, vol, log) ==
  IF log = <<>> THEN <<vol>>
  ELSE LET next == IF v = "fat" THEN F!Applied(vol, Head(log)) ELSE E!Applied(vol, Head(log))
       IN  <<vol>> \o Stages(v, next, Tail(log))

MayFail == Cardinality(cuts \cup missed) < MaxCuts

\* vfs_write, vfs_write_overwrite or vfs_mkdir_p: the writes of the plan, all of
\* them, or the first ones only when the disk or the machine fails.  A lookup that
\* fails unnoticed is looked at where the writes are others for it.
Operate(kind, t, len) ==
  \E r \in resolve(mounts, t) :
  \E f \in {<<r.vol, split_path(r.path)>>}, d \in {IF kind = "mkdir" THEN <<>> ELSE F!Bytes(ops + 1, len)} :
    /\ ops + Len(mounts) < MaxCalls
    /\ Len(f[2]) \in {1, 2}
    /\ ops' = ops + 1
    /\ \E miss \in (IF MayFail THEN SUBSET Missable(r.vol) ELSE {{}}) :
       \E plan \in {Plan(kind, r.vol, f[2], d, miss)} :
         /\ miss # {} => plan.log # Plan(kind, r.vol, f[2], d, {}).log
         /\ \E n \in (IF MayFail THEN 0 ELSE Len(plan.log)) .. Len(plan.log) :
              LET cut == n < Len(plan.log)
                  ok  == ~cut /\ plan.err = "Ok"
              IN  /\ disk' = [disk EXCEPT ![r.vol] = Stages(r.vol, @, plan.log)[n + 1]]
                  /\ last' = [kind |-> kind, file |-> f, data |-> d, ok |-> ok, missed |-> miss # {}]
                  /\ cuts' = IF cut THEN cuts \cup {<<r.vol, kind>>} ELSE cuts
                  /\ missed' = IF miss # {} THEN missed \cup {<<r.vol, kind>>} ELSE missed
                  /\ failed' = IF cut \/ ok THEN failed ELSE failed \cup {<<r.vol, kind>>}
    /\ files' = [g \in Files |-> IF g[1] = r.vol THEN Found(disk', g[1], g[2]) ELSE files[g]]
    /\ broken' = broken \cup {v \in {r.vol} : Broken(disk', v)}
    /\ UNCHANGED mounts

Next ==
  \/ \E t \in MountPoints, v \in Volumes : Mount(t, v)
  \/ \E t \in Paths, len \in Lengths : Operate("append", t, len)
  \/ \E t \in Paths, len \in Lengths : Operate("overwrite", t, len)
  \/ \E t \in Paths : Operate("mkdir", t, 0)

Spec == Init /\ [][Next]_vars

-----------------------------------------------------------------------------
(* Properties.                                                             *)

\* The volumes are well formed, and nothing is written outside them.
TypeOK ==
  /\ \A i \in DOMAIN mounts : mounts[i].vol \in Volumes
  /\ disk.fat.fat \in [F!Clus -> F!FatVal]
  /\ disk.ext.bbm \subseteq E!Bits
  /\ disk.ext.ibm \subseteq E!Inodes
  /\ \A i \in E!Inodes : Range(disk.ext.inode[i].ptrs) \subseteq E!Blocks
  /\ broken \subseteq Volumes
  /\ ops \in 0 .. MaxCalls

\* Whatever the order of the mounts, resolve finds the volume whose mount point has the
\* most names in common with the path, and what is left of the path is the rest of its
\* names: the table sorted by length, the comparison of texts and the check for a slash
\* amount to that (resolve and mount_fat32 in mount.rs).
ResolvesToDeepest ==
  \A t \in Paths \cup MountPoints :
    LET names == split_path(t)
        over  == {i \in DOMAIN mounts : IsPrefix(split_path(mounts[i].mp), names)}
        deep  == {i \in over : \A j \in over : Len(mounts[i].mp) >= Len(mounts[j].mp)}
    IN  /\ resolve(mounts, t) = {} <=> over = {}
        /\ \A r \in resolve(mounts, t) : \E i \in deep :
             r.vol = mounts[i].vol /\ split_path(mounts[i].mp) \o split_path(r.path) = names

\* No cluster or block belongs to two files or directories of a volume that was never
\* left broken: alloc_free_cluster and the bitmaps never give one out twice, whatever
\* operation failed or was cut short before.
NothingShared ==
  /\ "fat" \notin broken => ~F!Shared(disk.fat)
  /\ "ext" \notin broken => ~E!Shared(disk.ext)

\* As long as no operation failed, was cut short or missed a name, every cluster, block
\* and inode that is not free is owned by a file or a directory: overwriting and
\* appending lose nothing.
NoLeak ==
  \A v \in Volumes \ broken :
    (\A k \in {"append", "overwrite", "mkdir"} : <<v, k>> \notin cuts \cup missed \cup failed) =>
      IF v = "fat" THEN F!Allocated(disk.fat) = F!Reachable(disk.fat)
      ELSE /\ disk.ext.bbm = E!ReachableBlocks(disk.ext) \cup {0}
           /\ disk.ext.ibm = E!ReachableInodes(disk.ext) \cup 1 .. (first_inode - 1)

\* The free counts of the superblock and of the group agree with the bitmaps, also after
\* operations that failed half way, unless one was cut short between the two writes.
CountersAgree ==
  (\A k \in {"append", "overwrite", "mkdir"} : <<"ext", k>> \notin cuts) =>
    LET blocks == NBlocks - Cardinality(disk.ext.bbm)
        inodes == NInodes - Cardinality(disk.ext.ibm)
    IN  /\ disk.ext.sb = [blocks |-> blocks, inodes |-> inodes]
        /\ disk.ext.gd.blocks = blocks /\ disk.ext.gd.inodes = inodes

\* The volumes keep their form, and no two files share a cluster or a block.
VolumesSound == TypeOK /\ NothingShared

\* What the allocation tables, bitmaps and counters say is in use is what files
\* and directories use.
AccountsAgree == NoLeak /\ CountersAgree

\* What breaks a volume: on ext2 only an overwrite that did not come to its end, on FAT32
\* that, an operation cut while it adds a cluster to a chain, or a directory in which a
\* name did not fit into the sector with the first empty slot, its chains being whole.
OnlyKnownDamage ==
  [][ /\ "ext" \in broken' \ broken => last'.kind = "overwrite" /\ ~last'.ok
      /\ "fat" \in broken' \ broken =>
           \/ (F!Hidden(disk.fat) /\ ~F!Dangling(disk.fat) /\ ~F!TooShort(disk.fat))'
           \/ ~last'.ok /\ (last'.kind = "overwrite" \/ cuts' # cuts) ]_vars

Store == INSTANCE FileStore WITH InPlace <- {"fat"}

\* The two file systems, with the crashes and the errors of the disk, implement the
\* store of files: an operation changes the file it is about entirely or not at all, and
\* no other file, as long as the volume is not broken.  One that returns Ok has done what
\* it was asked, but for a write to ext2 that a failed read made take its file for a new
\* one: its contents may be in an inode that no name, or a second one, leads to.
ImplementsStore == Store!Spec

\* What is written can be read back, as the self-test expects.
ReadBack == last.kind # "none" /\ last.ok => files[last.file].t # "absent"
=============================================================================
