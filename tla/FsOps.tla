-------------------------------- MODULE FsOps --------------------------------
(***************************************************************************)
(* The functions of the file system (kernel/fs/fs.c) that allocate, and    *)
(* those that change the tree of directories.                              *)
(*                                                                         *)
(* d is the disk, in areas that are functions from positions to contents,  *)
(* and m the kernel's memory: copies of the super block, of imap, of one   *)
(* sector of smap and of the current directory.  A function returns the    *)
(* memory it leaves and the sequence of its sdwrites.  None of them reads  *)
(* a sector that it has written itself, so all may read from d.            *)
(*                                                                         *)
(* A data block is named by its number; Wild is an address that has never  *)
(* been set.                                                               *)
(***************************************************************************)
EXTENDS SequencesExt, Integers

CONSTANTS
  INODE_ITEM_NUM,
  INODES_PER_SECTOR,   \* 8
  SMAP_SECTORS,        \* sectors of smap (256)
  SMAP_BITS,           \* data blocks that a sector of smap describes
  SECTOR_SIZE,
  NDIRECT,             \* direct pointers of an inode (10)
  NPOINTERS,           \* all its pointers (13)
  MAX_DIR_ITEM_NUM,
  Names

ASSUME FsAssumption ==
  /\ INODE_ITEM_NUM \in Nat \ {0} /\ INODES_PER_SECTOR \in Nat \ {0}
  /\ SMAP_SECTORS \in Nat \ {0} /\ SMAP_BITS \in Nat \ {0}
  /\ SECTOR_SIZE \in Nat \ {0} /\ MAX_DIR_ITEM_NUM \in Nat \ {0}
  /\ INODE_ITEM_NUM % INODES_PER_SECTOR = 0
  /\ NDIRECT \in Nat \ {0} /\ NPOINTERS \in Nat /\ NPOINTERS > NDIRECT

Inos == 0 .. INODE_ITEM_NUM - 1
Bits == 0 .. SMAP_BITS - 1
Blocks == 0 .. SMAP_SECTORS * SMAP_BITS - 1
Items == 0 .. MAX_DIR_ITEM_NUM - 1
Wild == -1
NoName == "?"

Groups == 0 .. (INODE_ITEM_NUM \div INODES_PER_SECTOR) - 1
InGroup == 0 .. INODES_PER_SECTOR - 1

Root == 0     \* its inode, and its data block: DARRAY_ADDR

EmptyDir(father) ==
  [fpointer |-> father, map |-> [i \in Items |-> [valid |-> 0, name |-> NoName, ino |-> 0]]]

\* A call sdwrite: what is written, and where.
Sdwrite(area, at, data) == [area |-> area, at |-> at, data |-> data]

\* The disk after one of these calls, after each of a sequence, and after all.
Written(d, w) == [d EXCEPT ![w.area][w.at] = w.data]
WrittenUpTo(d, ws) ==
  LET a[n \in 0 .. Len(ws)] == IF n = 0 THEN d ELSE Written(a[n - 1], ws[n]) IN a
WrittenAll(d, ws) == WrittenUpTo(d, ws)[Len(ws)]

\* An inode is read and written together with those of the same sector.
Inode(d, ino) == d.iarray[ino \div INODES_PER_SECTOR][ino % INODES_PER_SECTOR]
WriteInode(d, ino, inode) ==
  LET g == ino \div INODES_PER_SECTOR
  IN  Sdwrite("iarray", g, [d.iarray[g] EXCEPT ![ino % INODES_PER_SECTOR] = inode])

\* An inode that has not been written yet.
BlankInode == [type |-> "none", size |-> 0, size_allocated |-> 0,
               pointers |-> [k \in 0 .. NPOINTERS - 1 |-> Wild]]

\* What a data block holds when it is read as a directory.
IsDir(d, p) == p \in Blocks /\ d.darray[p].dir # <<>>
ReadDir(d, p) == d.darray[p].dir[1]
DirSector(dir) == [dir |-> <<dir>>, bytes |-> <<>>]

WriteSuper(m) == Sdwrite("super", 0, m.super_block)
WriteCurrentDir(m) == Sdwrite("darray", m.current_dir_pointer, DirSector(m.current_dir))

-----------------------------------------------------------------------------
\* Faulty variant of LowestFree: as if the bits were set from the lowest on.
LowestFree_count(s, all) == Cardinality(s)

\* The least bit that is not set.
LowestFree(s, all) == Min(all \ s)

iarray_alloc(m) ==
  LET i == LowestFree(m.imap, Inos)
      new == [m EXCEPT !.imap = @ \cup {i}, !.super_block.inode_used = @ + 1]
  IN  IF m.imap = Inos
      THEN [ret |-> -1, m |-> m, w |-> <<>>]
      ELSE [ret |-> i, m |-> new, w |-> <<Sdwrite("imap", 0, new.imap), WriteSuper(new)>>]

iarray_free(m, ino) ==
  LET new == [m EXCEPT !.imap = @ \ {ino}, !.super_block.inode_used = @ - 1]
  IN  [m |-> new, w |-> <<Sdwrite("imap", 0, new.imap), WriteSuper(new)>>]

\* Faulty variant of PastEnd: one sector further.
PastEnd_further(m) == [m EXCEPT !.smap_index = SMAP_SECTORS + 1, !.smap = {}]

PastEnd(m) == [m EXCEPT !.smap_index = SMAP_SECTORS, !.smap = {}]

\* The search goes on from the sector of smap that is in memory.  When it has
\* passed the last one, memory holds the sector that follows.
darray_alloc(m, d) ==
  LET sector(k) == IF k = m.smap_index THEN m.smap ELSE d.smap[k]
      candidates == {k \in m.smap_index .. SMAP_SECTORS - 1 : sector(k) # Bits}
      k == Min(candidates)
      j == LowestFree(sector(k), Bits)
      new == [m EXCEPT !.smap_index = k, !.smap = sector(k) \cup {j},
                       !.super_block.data_used = @ + 1]
  IN  IF candidates = {}
      THEN [ret |-> -1, m |-> PastEnd(m), w |-> <<>>]
      ELSE [ret |-> k * SMAP_BITS + j, m |-> new,
            w |-> <<Sdwrite("smap", k, new.smap), WriteSuper(new)>>]

\* Faulty variant of darray_free: smap is not read again.
darray_free_cached(m, d, dno) ==
  LET k == dno \div SMAP_BITS
      new == [m EXCEPT !.smap_index = k, !.smap = @ \ {dno % SMAP_BITS},
                       !.super_block.data_used = @ - 1]
  IN  [m |-> new, w |-> <<Sdwrite("smap", k, new.smap), WriteSuper(new)>>]

darray_free(m, d, dno) ==
  LET k == dno \div SMAP_BITS
      new == [m EXCEPT !.smap_index = k, !.smap = d.smap[k] \ {dno % SMAP_BITS},
                       !.super_block.data_used = @ - 1]
  IN  [m |-> new, w |-> <<Sdwrite("smap", k, new.smap), WriteSuper(new)>>]

-----------------------------------------------------------------------------
\* The items of a directory with this name.
Matching(dir, s) == {i \in Items : dir.map[i].valid = 1 /\ dir.map[i].name = s}

\* Its inode, or none.
Lookup(dir, s, none) ==
  IF Matching(dir, s) = {} THEN none ELSE dir.map[Min(Matching(dir, s))].ino

is_file_exist(m, s) == Lookup(m.current_dir, s, 0)

\* What a search for a path returns if it reads a block that is no directory.
Astray == -2

\* From the inode ino by the name s.
Follow(d, ino, s) ==
  LET p == Inode(d, ino).pointers[0]
  IN  IF ino = Astray THEN Astray
      ELSE IF ino = -1 \/ Inode(d, ino).type # "dir" THEN -1
      ELSE IF ~ IsDir(d, p) THEN Astray
      ELSE Lookup(ReadDir(d, p), s, -1)

\* A path is a sequence of names from the root.
parse_path(d, path) ==
  LET at[n \in 0 .. Len(path)] == IF n = 0 THEN Root ELSE Follow(d, at[n - 1], path[n])
  IN  at[Len(path)]

\* What a call returns that does nothing.
Refused(m) == [m |-> m, w |-> <<>>, events |-> {}]

FreeItems(m) == {i \in Items : m.current_dir.map[i].valid = 0}

\* Faulty variant of NewEntry: the directory is written before the inode is
\* allocated.
NewEntry_early(m, i, a, s) ==
  LET new == [a.m EXCEPT !.current_dir.map[i] = [valid |-> 1, name |-> s, ino |-> a.ret]]
  IN  [m |-> new, w |-> <<WriteCurrentDir(new)>> \o a.w]

\* The item i of the current directory becomes an entry for the inode that a, a
\* call of iarray_alloc, has returned.
NewEntry(m, i, a, s) ==
  LET new == [a.m EXCEPT !.current_dir.map[i] = [valid |-> 1, name |-> s, ino |-> a.ret]]
  IN  [m |-> new, w |-> Append(a.w, WriteCurrentDir(new))]

\* The part of mkdir and touch that they have in common.  The item is marked
\* valid before the inode is allocated, and stays so if there is none.
MakeEntry(m, s) ==
  LET i == Min(FreeItems(m))
      marked == [m EXCEPT !.current_dir.map[i].valid = 1]
      a == iarray_alloc(marked)
      e == NewEntry(marked, i, a, s)
  IN  IF a.ret = -1
      THEN [ret |-> -1, m |-> marked, w |-> <<>>]
      ELSE [ret |-> a.ret, m |-> e.m, w |-> e.w]

Refuses(m, s) == is_file_exist(m, s) # 0 \/ FreeItems(m) = {}

mkdir(m, d, s) ==
  LET e == MakeEntry(m, s)
      b == darray_alloc(e.m, d)
      inode == [Inode(d, e.ret) EXCEPT !.type = "dir", !.size = SECTOR_SIZE,
                  !.size_allocated = SECTOR_SIZE, !.pointers[0] = b.ret]
      dir == EmptyDir(m.current_dir_pointer)
  IN  IF Refuses(m, s) THEN Refused(m)
      ELSE IF e.ret = -1 THEN [m |-> e.m, w |-> <<>>, events |-> {"no_inode"}]
      ELSE IF b.ret = -1 THEN [m |-> b.m, w |-> e.w, events |-> {"no_block"}]
      ELSE [m |-> b.m, events |-> {},
            w |-> e.w \o b.w \o <<WriteInode(d, e.ret, inode),
                                  Sdwrite("darray", b.ret, DirSector(dir))>>]

touch(m, d, s) ==
  LET e == MakeEntry(m, s)
      inode == [Inode(d, e.ret) EXCEPT !.type = "normal", !.size = 0, !.size_allocated = 0]
  IN  IF Refuses(m, s) THEN Refused(m)
      ELSE IF e.ret = -1 THEN [m |-> e.m, w |-> <<>>, events |-> {"no_inode"}]
      ELSE [m |-> e.m, w |-> Append(e.w, WriteInode(d, e.ret, inode)), events |-> {}]

\* Faulty variant of NotEmpty.
NotEmpty_never(dir) == FALSE

NotEmpty(dir) == \E j \in Items : dir.map[j].valid = 1

rmdir(m, d, s) ==
  LET i == Min(Matching(m.current_dir, s))
      ino == m.current_dir.map[i].ino
      p == Inode(d, ino).pointers[0]
      a == iarray_free(m, ino)
      b == darray_free(a.m, d, p)
      new == [b.m EXCEPT !.current_dir.map[i].valid = 0]
  IN  IF Matching(m.current_dir, s) = {} \/ Inode(d, ino).type # "dir" THEN Refused(m)
      ELSE IF ~ IsDir(d, p) THEN [Refused(m) EXCEPT !.events = {"lost"}]
      ELSE IF NotEmpty(ReadDir(d, p)) THEN Refused(m)
      ELSE [m |-> new, w |-> a.w \o b.w \o <<WriteCurrentDir(new)>>, events |-> {}]

\* Faulty variant of Enter: current_dir_pointer is not set.
Enter_directory_only(m, d, p) ==
  IF ~ IsDir(d, p) THEN [Refused(m) EXCEPT !.events = {"lost"}]
  ELSE Refused([m EXCEPT !.current_dir = ReadDir(d, p)])

\* sdread of the directory at p, which becomes the current one.
Enter(m, d, p) ==
  IF ~ IsDir(d, p) THEN [Refused(m) EXCEPT !.events = {"lost"}]
  ELSE Refused([m EXCEPT !.current_dir = ReadDir(d, p), !.current_dir_pointer = p])

cd_father(m, d) ==
  IF m.current_dir_pointer = Root THEN Refused(m) ELSE Enter(m, d, m.current_dir.fpointer)

\* cd to the inode that a name or a path stands for.
cd(m, d, ino) ==
  IF ino = Astray THEN [Refused(m) EXCEPT !.events = {"lost"}]
  ELSE IF ino = -1 THEN Refused(m)
  ELSE IF Inode(d, ino).type # "dir" THEN Refused(m)
  ELSE Enter(m, d, Inode(d, ino).pointers[0])

\* The inodes that share a sector with the root's are written with it, from an
\* array that has not been initialised.
mkfs ==
  LET root == [BlankInode EXCEPT !.type = "dir", !.size = SECTOR_SIZE,
                 !.size_allocated = SECTOR_SIZE, !.pointers[0] = Root]
  IN  <<Sdwrite("super", 0, [inode_used |-> 1, data_used |-> 1]),
        Sdwrite("imap", 0, {Root}), Sdwrite("smap", 0, {Root})>>
      \o [k \in 1 .. SMAP_SECTORS - 1 |-> Sdwrite("smap", k, {})]
      \o <<Sdwrite("iarray", 0, [i \in InGroup |-> IF i = Root THEN root ELSE BlankInode]),
        Sdwrite("darray", Root, DirSector(EmptyDir(Root)))>>

mount(d) ==
  [super_block |-> d.super[0], imap |-> d.imap[0], smap |-> d.smap[0], smap_index |-> 0,
   current_dir |-> ReadDir(d, Root), current_dir_pointer |-> Root]
=============================================================================
