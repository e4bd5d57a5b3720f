-------------------------------- MODULE Fat32 --------------------------------
(***************************************************************************)
(* The FAT32 driver, kernel/fs/fat32.rs, as operators on a volume.         *)
(*                                                                         *)
(* A volume is the first file allocation table and the contents of the     *)
(* clusters.  The driver keeps nothing in memory between two calls, so a   *)
(* call is a plan: the writes it makes to the disk, in order, each seen by *)
(* the reads after it, and the error it returns.  Vfs executes the plan    *)
(* one write at a time and may stop it anywhere.                           *)
(*                                                                         *)
(* The unit of length is one directory slot of 32 bytes: a sector holds    *)
(* SEC of them, in a file or in a directory.                               *)
(***************************************************************************)
EXTENDS Naturals, Sequences, FiniteSets, SequencesExt, FiniteSetsExt

CONSTANTS
  NClus,    \* clusters of the data area, numbered from 2; 2 is the root
  SEC,      \* slots in a sector
  spc,      \* sectors in a cluster
  MAX_TAIL, \* the last ~n of make_unique_short_name_in_dir (9 in the code)
  CHARS,    \* characters in a long entry (13 in the code)
  STEM      \* characters of a short name (8 in the code)

Clus == 2 .. (NClus + 1)
root_clus == 2
MARK == NClus + 2 \* 0x0FFF_FFF7: no end of chain, and no cluster
EOC == NClus + 3  \* 0x0FFF_FFFF
FatVal == {0} \cup Clus \cup {MARK, EOC}

clus_bytes == spc * SEC

Zero == [k |-> "zero"]
ZeroCluster == [i \in 1 .. clus_bytes |-> Zero]

\* What a file of this length and tag is made of.
Bytes(tag, len) == [i \in 1 .. len |-> [k |-> "data", v |-> tag]]

Ent(name, short, dir, clus, size) ==
  [k |-> "ent", name |-> name, short |-> short, dir |-> dir, clus |-> clus, size |-> size]
Lfn == [k |-> "lfn"]
VolumeLabel(short) == [k |-> "vol", short |-> short]

\* The slots of a name: its characters and a final 0 in long entries, and the short entry.
Slots(name) == ((Len(name) + CHARS) \div CHARS) + 1

\* Names may agree in it; the extension, and characters it leaves out, are not modelled.
make_short_candidate(name) == SubSeq(name, 1, Min({STEM, Len(name)}))

is_eoc(v) == v = EOC
EndsChain(v) == v < 2 \/ is_eoc(v)

-----------------------------------------------------------------------------
(* A plan in the making: the volume as the writes so far leave it, the     *)
(* writes, the error if one has been met, and the cluster last obtained.   *)

Start(vol) == [fat |-> vol.fat, data |-> vol.data, log |-> <<>>, err |-> "Ok", got |-> 0]

Fail(st, e) == IF st.err = "Ok" THEN [st EXCEPT !.err = e] ELSE st

\* The ? of the code: the plan goes on with Step unless it has met an error.
Then(st, Step(_)) == IF st.err = "Ok" THEN Step(st) ELSE st

\* A write is to an entry of the table, or to sector w.sec of a cluster.
Applied(vol, w) ==
  IF w.to = "fat" THEN [vol EXCEPT !.fat[w.clus] = w.val]
  ELSE [vol EXCEPT !.data[w.clus] =
          [i \in 1 .. clus_bytes |-> IF (i - 1) \div SEC = w.sec THEN w.val[((i - 1) % SEC) + 1] ELSE @[i]]]

\* A write outside the volume, at the sector MARK would have, is an I/O error.
Write(st, w) ==
  CASE st.err # "Ok"     -> st
    [] w.clus \notin Clus -> Fail(st, "Io")
    [] OTHER              -> [Applied(st, w) EXCEPT !.log = Append(@, w)]

fat_entry_write(st, c, v) == Write(st, [to |-> "fat", clus |-> c, val |-> v])

\* write_sector: the sector of cluster c that position i is in, the cluster to have these cells.
WriteSector(st, c, i, cells) ==
  LET s == (i - 1) \div SEC
  IN  Write(st, [to |-> "data", clus |-> c, sec |-> s, val |-> SubSeq(cells, s * SEC + 1, (s + 1) * SEC)])

\* The sectors of a cluster, one by one.
RECURSIVE WriteSectors(_, _, _, _)
WriteSectors(st, c, s, cells) ==
  IF s = spc THEN st ELSE WriteSectors(WriteSector(st, c, s * SEC + 1, cells), c, s + 1, cells)

WriteCluster(st, c, cells) == WriteSectors(st, c, 0, cells)

alloc_free_cluster(st) ==
  LET free == {c \in Clus : st.fat[c] = 0}
  IN  IF free = {}
      THEN Fail(st, "Full")
      ELSE [fat_entry_write(st, Min(free), MARK) EXCEPT !.got = Min(free)]

\* A new chain of one cluster, at got.
NewChain(st) ==
  Then(alloc_free_cluster(st), LAMBDA a : fat_entry_write(a, a.got, EOC))

\* The chain that ends at cur goes on at got.
Extend(st, cur) ==
  Then(alloc_free_cluster(st),
       LAMBDA a : fat_entry_write(fat_entry_write(a, cur, a.got), a.got, EOC))

RECURSIVE free_cluster_chain(_, _)
free_cluster_chain(st, cur) ==
  IF st.err # "Ok" \/ cur < 2 THEN st
  ELSE IF cur \notin Clus THEN Fail(st, "Io")
  ELSE LET nxt == st.fat[cur]
           w   == fat_entry_write(st, cur, 0)
       IN  IF EndsChain(nxt) THEN w ELSE free_cluster_chain(w, nxt)

\* The clusters from c on, n at most.  A chain that leaves the volume ends in MARK.
RECURSIVE ChainUpTo(_, _, _)
ChainUpTo(fat, c, n) ==
  IF n = 0 \/ c < 2 THEN <<>>
  ELSE IF c \notin Clus THEN <<MARK>>
  ELSE <<c>> \o (IF EndsChain(fat[c]) THEN <<>> ELSE ChainUpTo(fat, fat[c], n - 1))

Chain(fat, c) == ChainUpTo(fat, c, NClus)

\* The first n units of the chain, or what there is of them; reading past the
\* volume is an error, here the value <<[k |-> "io"]>>.
read_cluster_chain(vol, start, n) ==
  LET need == (n + clus_bytes - 1) \div clus_bytes
      Units(chain) ==
        IF MARK \in Range(chain) THEN <<[k |-> "io"]>>
        ELSE [i \in 1 .. Min({n, Len(chain) * clus_bytes}) |->
                vol.data[chain[((i - 1) \div clus_bytes) + 1]][((i - 1) % clus_bytes) + 1]]
  IN  Units(ChainUpTo(vol.fat, start, need))

\* d, with zeros behind it to fill a cluster
Padded(d) == [i \in 1 .. clus_bytes |-> IF i <= Len(d) THEN d[i] ELSE Zero]

RECURSIVE write_cluster_chain_from(_, _, _)
write_cluster_chain_from(st, cur, d) ==
  LET rest == SubSeq(d, clus_bytes + 1, Len(d))
      Following(w) == IF is_eoc(w.fat[cur]) THEN Extend(w, cur) ELSE [w EXCEPT !.got = w.fat[cur]]
  IN  Then(WriteCluster(st, cur, Padded(d)),
           LAMBDA w : IF rest = <<>> THEN fat_entry_write(w, cur, EOC)
                      ELSE Then(Following(w), LAMBDA x : write_cluster_chain_from(x, x.got, rest)))

\* The next cluster of the chain, got; it is made when there is none.
NextOrExtend(st, cur) ==
  IF cur \notin Clus THEN Fail(st, "Io")
  ELSE IF EndsChain(st.fat[cur]) THEN Extend(st, cur) ELSE [st EXCEPT !.got = st.fat[cur]]

\* got is the cluster that holds position n of the chain from cur
RECURSIVE SeekTo(_, _, _)
SeekTo(st, cur, n) ==
  IF st.err # "Ok" THEN st
  ELSE IF n < clus_bytes THEN [st EXCEPT !.got = cur]
  ELSE Then(NextOrExtend(st, cur), LAMBDA x : SeekTo(x, x.got, n - clus_bytes))

Patched(cells, off, d) ==
  [i \in 1 .. clus_bytes |-> IF i > off /\ i - off <= Len(d) THEN d[i - off] ELSE cells[i]]

RECURSIVE AppendFrom(_, _, _, _)
AppendFrom(st, cur, off, d) ==
  IF st.err # "Ok" THEN st
  ELSE IF cur \notin Clus THEN Fail(st, "Io")
  ELSE LET rest == SubSeq(d, clus_bytes - off + 1, Len(d))
       IN  Then(WriteCluster(st, cur, Patched(st.data[cur], off, d)),
                LAMBDA w : IF rest = <<>> THEN w
                           ELSE Then(NextOrExtend(w, cur), LAMBDA x : AppendFrom(x, x.got, 0, rest)))

\* The plan with the first cluster of the chain as got.
append_to_chain(st, start_clus, cur_size, d) ==
  IF d = <<>> THEN [st EXCEPT !.got = start_clus]
  ELSE Then(IF start_clus < 2 THEN NewChain(st) ELSE [st EXCEPT !.got = start_clus],
            LAMBDA a : [Then(SeekTo(a, a.got, cur_size),
                             LAMBDA s : AppendFrom(s, s.got, cur_size % clus_bytes, d))
                        EXCEPT !.got = a.got])

-----------------------------------------------------------------------------
(* Directories.  The slots of one file, its long entries and the short     *)
(* one, lie in one sector and are written together.                        *)

\* The slots of a directory; 256 KiB of them, more than the volume has.
DirCells(vol, dir) == read_cluster_chain(vol, dir, NClus * clus_bytes)

\* The entries up to the first empty slot: no label, no deleted entry.
dir_list_from_with_names(vol, dir) ==
  LET Ends(cells) == {i \in DOMAIN cells : cells[i].k = "zero"} \cup {Len(cells) + 1}
      Listed(cells) == SelectSeq(SubSeq(cells, 1, Min(Ends(cells)) - 1), LAMBDA c : c.k = "ent")
  IN  Listed(DirCells(vol, dir))

\* The first entry of this name, or none.  Names are equal when eq_ci says so.
dir_find_in_dir(vol, dir, name) ==
  LET First(l) == IF l = <<>> THEN {} ELSE {Head(l)}
  IN  First(SelectSeq(dir_list_from_with_names(vol, dir), LAMBDA e : e.name = name))

\* The directory a path of names leads to: a set with its first cluster, or {}.
RECURSIVE WalkDirs(_, _, _)
WalkDirs(vol, dir, path) ==
  IF path = <<>> THEN {dir}
  ELSE LET found == {e \in dir_find_in_dir(vol, dir, Head(path)) : e.dir /\ e.clus >= 2}
       IN  UNION {WalkDirs(vol, e.clus, Tail(path)) : e \in found}

resolve_dir(vol, path) == WalkDirs(vol, root_clus, path)

IsFree(cell) == cell.k \in {"zero", "del"}

\* The places of a cluster where need free slots follow each other in a sector.
Runs(cells, need) ==
  {i \in 1 .. clus_bytes :
     /\ i + need - 1 <= clus_bytes
     /\ (i - 1) \div SEC = (i + need - 2) \div SEC
     /\ \A j \in i .. (i + need - 1) : IsFree(cells[j])}

\* The first run of the directory is overwritten with new; the directory grows
\* by zeroed clusters until there is one, or the volume is full.
RECURSIVE write_dir_entries_at(_, _, _)
write_dir_entries_at(st, cur, new) ==
  IF st.err # "Ok" THEN st
  ELSE IF cur \notin Clus THEN Fail(st, "Io")
  ELSE LET cells == st.data[cur]
           at    == Runs(cells, Len(new))
       IN  IF at # {} THEN WriteSector(st, cur, Min(at), Patched(cells, Min(at) - 1, new))
           ELSE IF EndsChain(st.fat[cur])
                THEN LET x == Extend(st, cur)
                     IN  IF x.err # "Ok" THEN x
                         ELSE write_dir_entries_at(WriteCluster(x, x.got, ZeroCluster), x.got, new)
                ELSE write_dir_entries_at(st, st.fat[cur], new)

\* The short names tried, in order; one that an entry of the directory has is taken.
make_unique_short_name_in_dir(st, dir, name) ==
  LET free == (0 .. MAX_TAIL) \ {e.short[2] : e \in {x \in Range(dir_list_from_with_names(st, dir)) :
                                                     x.short[1] = make_short_candidate(name)}}
  IN  IF free = {} THEN {} ELSE {<<make_short_candidate(name), Min(free)>>}

NewEntry(st, dir, name, clus, size, isdir) ==
  LET s == make_unique_short_name_in_dir(st, dir, name)
  IN  IF st.err # "Ok" THEN st
      ELSE IF s = {} THEN Fail(st, "Full")
      ELSE LET short == CHOOSE x \in s : TRUE
               lfns  == [i \in 1 .. (Slots(name) - 1) |-> Lfn]
           IN  write_dir_entries_at(st, dir, Append(lfns, Ent(name, short, isdir, clus, size)))

\* Mutant of SlotsOf: the name is not compared.
MutAnyName(cells, short) == {i \in 1 .. clus_bytes : cells[i].k \in {"ent", "vol"}}

\* The slots of a cluster a search for this short name stops at.
SlotsOf(cells, short) ==
  {i \in 1 .. clus_bytes : cells[i].k \in {"ent", "vol"} /\ cells[i].short = short}

\* The first slot with this short name is rewritten.  Unlike the listing, the
\* search goes past empty slots and takes a volume label for an entry.
RECURSIVE RewriteEntry(_, _, _, _)
RewriteEntry(st, cur, old, new) ==
  IF st.err # "Ok" THEN st
  ELSE IF cur \notin Clus THEN Fail(st, "Io")
  ELSE LET cells == st.data[cur]
           at    == SlotsOf(cells, old.short)
       IN  IF at # {} THEN WriteSector(st, cur, Min(at), Patched(cells, Min(at) - 1, <<new>>))
           ELSE IF EndsChain(st.fat[cur]) THEN Fail(st, "NotFound")
                ELSE RewriteEntry(st, st.fat[cur], old, new)

-----------------------------------------------------------------------------
(* The operations.                                                         *)

\* The contents of a file, {} when there is none of this name.
read_file(vol, path) ==
  LET found == UNION {dir_find_in_dir(vol, dir, Last(path)) : dir \in resolve_dir(vol, Front(path))}
  IN  {read_cluster_chain(vol, e.clus, e.size) : e \in {x \in found : ~x.dir}}

\* A chain for new contents, got its first cluster; none for an empty file.
FreshChain(st, d) ==
  IF d = <<>> THEN [st EXCEPT !.got = 0]
  ELSE Then(NewChain(st), LAMBDA a : [write_cluster_chain_from(a, a.got, d) EXCEPT !.got = a.got])

\* Mutant of Overwrite: the old chain is kept.
MutKeepChain(st, dir, e, d) ==
  Then(FreshChain(st, d), LAMBDA w : RewriteEntry(w, dir, e, [e EXCEPT !.clus = w.got, !.size = Len(d)]))

\* The old chain is freed, the new one written, and the entry last.
Overwrite(st, dir, e, d) ==
  Then(FreshChain(free_cluster_chain(st, e.clus), d),
       LAMBDA w : RewriteEntry(w, dir, e, [e EXCEPT !.clus = w.got, !.size = Len(d)]))

AppendTo(st, dir, e, d) ==
  Then(append_to_chain(st, e.clus, e.size, d),
       LAMBDA w : RewriteEntry(w, dir, e, [e EXCEPT !.clus = w.got, !.size = @ + Len(d)]))

Create(st, dir, name, d) ==
  Then(FreshChain(st, d), LAMBDA w : NewEntry(w, dir, name, w.got, Len(d), FALSE))

write_file_at(st, dir, name, d, overwrite) ==
  LET found == dir_find_in_dir(st, dir, name)
      Existing(e) == IF e.dir THEN Fail(st, "Name")
                     ELSE IF overwrite THEN Overwrite(st, dir, e, d) ELSE AppendTo(st, dir, e, d)
  IN  IF found = {} THEN Create(st, dir, name, d) ELSE Existing(CHOOSE e \in found : TRUE)

write_file(vol, path, d, overwrite) ==
  LET dirs == resolve_dir(vol, Front(path))
  IN  IF dirs = {} THEN Fail(Start(vol), "NotFound")
      ELSE write_file_at(Start(vol), CHOOSE c \in dirs : TRUE, Last(path), d, overwrite)

\* The dots of a new directory, then its entry in the parent.
mkdir_at(st, parent, name) ==
  LET Dot(c) == Ent(<<".">>, <<<<".">>, 0>>, TRUE, c, 0)
      dots   == Ent(<<".", ".">>, <<<<".", ".">>, 0>>, TRUE, parent, 0)
      Dots(z) == WriteSector(z, z.got, 1, Patched(ZeroCluster, 0, <<Dot(z.got), dots>>))
  IN  Then(NewChain(st),
           LAMBDA a : NewEntry(Dots(WriteCluster(a, a.got, ZeroCluster)), parent, name, a.got, 0, TRUE))

\* The directories of the path are made as they are found missing.
RECURSIVE MkdirFrom(_, _, _)
MkdirFrom(st, dir, path) ==
  IF st.err # "Ok" \/ path = <<>> THEN st
  ELSE LET Find(m) == dir_find_in_dir(m, dir, Head(path))
           Into(m, e) == IF e.dir THEN MkdirFrom(m, e.clus, Tail(path)) ELSE Fail(m, "Name")
       IN  Then(IF Find(st) = {} THEN mkdir_at(st, dir, Head(path)) ELSE st,
                LAMBDA m : IF Find(m) = {} THEN Fail(m, "NotFound")
                           ELSE Into(m, CHOOSE e \in Find(m) : TRUE))

mkdir(vol, path) == MkdirFrom(Start(vol), root_clus, path)

-----------------------------------------------------------------------------
(* What a volume holds.                                                    *)

IsDirAt(vol, path) == resolve_dir(vol, path) # {}

\* The entries of a directory but its dots, each with the directory it is in.
Below(vol, dir) ==
  LET l == dir_list_from_with_names(vol, dir)
  IN  {<<dir, l[i]>> : i \in {j \in DOMAIN l : l[j].name \notin {<<".">>, <<".", ".">>}}}

\* The entries that can be reached from the root, in directories two levels deep.
Objects(vol) ==
  LET top == Below(vol, root_clus)
  IN  top \cup UNION {Below(vol, o[2].clus) : o \in {x \in top : x[2].dir}}

DirsOf(vol) == {root_clus} \cup {o[2].clus : o \in {x \in Objects(vol) : x[2].dir}}

ClustersOf(vol, c) == Range(Chain(vol.fat, c))

Reachable(vol) == ClustersOf(vol, root_clus) \cup UNION {ClustersOf(vol, o[2].clus) : o \in Objects(vol)}

\* A chain goes on in a cluster that is free, or never ends.
Dangling(vol) == \E c \in Reachable(vol) : IF c \in Clus THEN vol.fat[c] = 0 ELSE TRUE

\* The chain of a file has fewer clusters than its size needs.
TooShort(vol) ==
  \E o \in Objects(vol) :
    o[2].clus >= 2 /\ Len(Chain(vol.fat, o[2].clus)) * clus_bytes < o[2].size

\* An entry lies behind an empty slot, where listing never comes.
Hidden(vol) ==
  \E cells \in {DirCells(vol, dir) : dir \in DirsOf(vol)} :
    \E i, j \in DOMAIN cells : i < j /\ cells[i].k = "zero" /\ cells[j].k = "ent"

\* Two entries, or an entry and the root, own the same cluster.
Shared(vol) ==
  LET Owners(objs) == [o \in objs |-> ClustersOf(vol, o[2].clus)]
      Twice(owned) == \E o \in DOMAIN owned :
                        \/ owned[o] \cap ClustersOf(vol, root_clus) # {}
                        \/ \E p \in DOMAIN owned \ {o} : owned[o] \cap owned[p] # {}
  IN  Twice(Owners(Objects(vol)))

Allocated(vol) == {c \in Clus : vol.fat[c] # 0}
=============================================================================
