----------------------------- MODULE FileSystem -----------------------------
(***************************************************************************)
(* The file system (kernel/fs/fs.c): the system calls on directories and   *)
(* on files.  A call is one step, since interrupts are disabled in the     *)
(* kernel; but power may fail between any two of its sdwrites, and then    *)
(* the system boots again from what is on the disk.                        *)
(***************************************************************************)
EXTENDS FsOps, SlistOps

CONSTANTS
  FD_ARRAY_SIZE,
  Values,              \* bytes
  Sizes,               \* the sizes of the fwrite and fread calls
  MaxOffset,           \* bound on the offsets in a file
  MaxSize,             \* bound on the size in an inode
  Calls,               \* the calls that are made in this instance
  Followed             \* the events after which it is followed further

Junk == "junk"         \* a byte that has never been written

\* A call of fwrite with size 0 does nothing but write the inode again.
ASSUME FileAssumption ==
  /\ FD_ARRAY_SIZE \in Nat \ {0} /\ MaxOffset \in Nat /\ MaxSize \in Nat
  /\ Sizes \subseteq Nat \ {0} /\ Junk \notin Values
  /\ "lost" \notin Followed

VARIABLES
  disk,
  mem,                 \* the kernel's copies of parts of the disk
  mounted,             \* mount() has been called since mkfs() or power on
  fd_array_slist, fd_array,
  expected,            \* history: the bytes that were written to a file
  events               \* history: what has gone wrong

fdVars == <<fd_array_slist, fd_array>>
vars == <<disk, mem, mounted, fdVars, expected, events>>

Fds == 0 .. FD_ARRAY_SIZE - 1
Offsets == 0 .. MaxOffset - 1

BlankFd == [ino |-> 0, access |-> "O_RDWR", size |-> 0, offset |-> 0]
BlankFile == [o \in Offsets |-> Junk]
BlankSector == [dir |-> <<>>, bytes |-> <<>>]

BlankDisk ==
  [super |-> [k \in {0} |-> [inode_used |-> 0, data_used |-> 0]],
   imap |-> [k \in {0} |-> {}], smap |-> [k \in 0 .. SMAP_SECTORS - 1 |-> {}],
   iarray |-> [g \in Groups |-> [i \in InGroup |-> BlankInode]],
   darray |-> [p \in Blocks |-> BlankSector]]

\* init_file_system on a disk without a file system, and the mount command
\* that has to follow.
Init ==
  /\ disk = WrittenAll(BlankDisk, mkfs)
  /\ mem = mount(disk)
  /\ mounted = TRUE
  /\ fd_array_slist = slist_init(FD_ARRAY_SIZE + 1)
  /\ fd_array = [fd \in Fds |-> BlankFd]
  /\ expected = [i \in Inos |-> BlankFile]
  /\ events = {}

\* The system has not written to or read from a wrong place.
Running == "lost" \notin events

Call(name) == name \in Calls /\ events \subseteq Followed /\ mounted

\* A call on directories ends.
Done(r) ==
  /\ disk' = WrittenAll(disk, r.w)
  /\ mem' = r.m
  /\ events' = events \cup r.events
  /\ UNCHANGED <<mounted, fdVars>>

-----------------------------------------------------------------------------
Mkdir ==
  /\ Call("mkdir")
  /\ \E s \in Names : Done(mkdir(mem, disk, s))
  /\ UNCHANGED expected

Rmdir ==
  /\ Call("rmdir")
  /\ \E s \in Names : Done(rmdir(mem, disk, s))
  /\ UNCHANGED expected

Touch ==
  /\ Call("touch")
  /\ \E s \in Names :
       LET r == touch(mem, disk, s)
       IN  /\ Done(r)
           /\ expected' = [i \in Inos |-> IF i \in r.m.imap \ mem.imap THEN BlankFile
                                          ELSE expected[i]]

CdFather ==
  /\ Call("cd")
  /\ Done(cd_father(mem, disk))
  /\ UNCHANGED expected

CdName ==
  /\ Call("cd")
  /\ \E s \in Names : Done(cd(mem, disk, Lookup(mem.current_dir, s, -1)))
  /\ UNCHANGED expected

CdPath ==
  /\ Call("cd")
  /\ \E n \in 0 .. 2 : \E path \in [1 .. n -> Names] : Done(cd(mem, disk, parse_path(disk, path)))
  /\ UNCHANGED expected

-----------------------------------------------------------------------------
IsOpen(fd) == fd_array_slist[fd + 1].valid = 1

\* The number of the inode is reduced to its place in its sector, and this is
\* what goes into fd_array.
Fopen ==
  /\ Call("fopen")
  /\ \E s \in Names, access \in {"O_RDWR", "O_RD"} :
       LET ino == is_file_exist(mem, s)
           fd == slist_alloc_ret(fd_array_slist) - 1
       IN  /\ ino # 0 /\ Inode(disk, ino).type = "normal" /\ fd # -1
           /\ fd_array_slist' = slist_alloc(fd_array_slist)
           /\ fd_array' = [fd_array EXCEPT ![fd] =
                [ino |-> ino % INODES_PER_SECTOR, access |-> access,
                 size |-> Inode(disk, ino).size, offset |-> 0]]
           /\ events' = events \cup (IF ino < INODES_PER_SECTOR THEN {} ELSE {"alias"})
  /\ UNCHANGED <<disk, mem, mounted, expected>>

\* Programs use only what fopen has returned to them.
Fclose ==
  /\ Call("fclose")
  /\ \E fd \in Fds :
       /\ IsOpen(fd)
       /\ fd_array_slist' = slist_free(fd_array_slist, fd + 1, FD_ARRAY_SIZE + 1)
  /\ UNCHANGED <<disk, mem, mounted, fd_array, expected, events>>

Fseek ==
  /\ Call("fseek")
  /\ \E fd \in Fds, o \in Offsets :
       IsOpen(fd) /\ fd_array' = [fd_array EXCEPT ![fd].offset = o]
  /\ UNCHANGED <<disk, mem, mounted, fd_array_slist, expected, events>>

\* The data block of an offset.  Beyond the direct pointers the code looks into
\* indirect blocks, but no code ever writes one: what is found there is data.
offset_to_pointer(inode, offset) ==
  LET k == offset \div SECTOR_SIZE IN IF k < NDIRECT THEN inode.pointers[k] ELSE Wild

\* The two sizes are compared as unsigned numbers: a negative rest is large.
Fread ==
  /\ Call("fread")
  /\ \E fd \in Fds, n \in Sizes :
       LET rest == fd_array[fd].size - fd_array[fd].offset
           total == IF rest >= 0 /\ rest < n THEN rest ELSE n
       IN  /\ IsOpen(fd)
           /\ fd_array[fd].offset + total <= MaxOffset
           /\ fd_array' = [fd_array EXCEPT ![fd].offset = @ + total]
  /\ UNCHANGED <<disk, mem, mounted, fd_array_slist, expected, events>>

\* The pointer that gets the next block.
NextPointer(inode) == inode.size_allocated \div SECTOR_SIZE

\* fwrite allocates one more block.  f is the memory, the writes and the inode so
\* far; it is wrong to run out of pointers.
OneMoreBlock(d, f) ==
  LET b == darray_alloc(f.m, d)
      k == NextPointer(f.inode)
  IN  IF f.status # "ok" THEN f
      ELSE IF b.ret = -1 THEN [f EXCEPT !.m = b.m, !.status = "full"]
      ELSE IF k >= NPOINTERS THEN [f EXCEPT !.status = "lost"]
      ELSE [f EXCEPT !.m = b.m, !.w = @ \o b.w, !.inode.pointers[k] = b.ret,
                     !.inode.size_allocated = @ + SECTOR_SIZE]

\* After each of n turns.
FileGrows(d, m, inode, n) ==
  LET f[i \in 0 .. n] == IF i = 0 THEN [m |-> m, w |-> <<>>, inode |-> inode, status |-> "ok"]
                         ELSE OneMoreBlock(d, f[i - 1])
  IN  f

\* Faulty variant of Stored: the sector is written from its start.
Stored_from_start(c, k, offset, n, x) ==
  [dir |-> <<>>,
   bytes |-> [i \in 1 .. SECTOR_SIZE |->
                IF k * SECTOR_SIZE + i - 1 < offset + n THEN x
                ELSE IF c.bytes = <<>> THEN Junk ELSE c.bytes[i]]]

\* The k-th sector of a file, which held c, after n bytes x at offset.
Stored(c, k, offset, n, x) ==
  [dir |-> <<>>,
   bytes |-> [i \in 1 .. SECTOR_SIZE |->
                IF k * SECTOR_SIZE + i - 1 \in offset .. offset + n - 1 THEN x
                ELSE IF c.bytes = <<>> THEN Junk ELSE c.bytes[i]]]

\* The blocks that fwrite needs.  Again a negative rest is large.
BlocksNeeded(inode, offset, n) ==
  LET rest == inode.size_allocated - offset
  IN  IF rest < 0 \/ rest >= n THEN 0 ELSE (n - rest + SECTOR_SIZE - 1) \div SECTOR_SIZE

fwrite(m, d, fd, n, x) ==
  LET ino == fd.ino
      needed == BlocksNeeded(Inode(d, ino), fd.offset, n)
      g == FileGrows(d, m, Inode(d, ino), needed)[needed]
      first == fd.offset \div SECTOR_SIZE
      last == (fd.offset + n - 1) \div SECTOR_SIZE
      block(k) == offset_to_pointer(g.inode, k * SECTOR_SIZE)
      data == [i \in 1 .. last - first + 1 |->
                 Sdwrite("darray", block(first + i - 1),
                         Stored(d.darray[block(first + i - 1)], first + i - 1, fd.offset, n, x))]
      lost == g.status = "lost" \/ \E k \in first .. last : block(k) = Wild
      beyond == fd.offset > Inode(d, ino).size_allocated
  IN  IF g.status = "full"
      THEN [m |-> g.m, w |-> Append(g.w, WriteInode(d, ino, g.inode)), events |-> {}, n |-> 0]
      ELSE IF lost THEN [m |-> g.m, w |-> <<>>, events |-> {"lost"}, n |-> 0]
      ELSE [m |-> g.m, n |-> n,
            w |-> g.w \o data \o <<WriteInode(d, ino, [g.inode EXCEPT !.size = @ + n])>>,
            events |-> (IF beyond THEN {"beyond"} ELSE {})
                       \cup (IF fd.offset # Inode(d, ino).size THEN {"seek"} ELSE {})]

Fwrite ==
  /\ Call("fwrite")
  /\ \E fd \in Fds, n \in Sizes, x \in Values :
       LET r == fwrite(mem, disk, fd_array[fd], n, x)
           o == fd_array[fd].offset
       IN  /\ IsOpen(fd) /\ fd_array[fd].access # "O_RD"
           /\ o + n <= MaxOffset /\ Inode(disk, fd_array[fd].ino).size + n <= MaxSize
           /\ disk' = WrittenAll(disk, r.w) /\ mem' = r.m /\ events' = events \cup r.events
           /\ fd_array' = [fd_array EXCEPT ![fd].offset = @ + r.n, ![fd].size = @ + r.n]
           /\ expected' = [expected EXCEPT ![fd_array[fd].ino] =
                [p \in Offsets |-> IF p \in o .. o + r.n - 1 THEN x ELSE @[p]]]
  /\ UNCHANGED <<mounted, fd_array_slist>>

-----------------------------------------------------------------------------
\* The mkfs command: memory is as it was until mount.
Mkfs ==
  /\ "mkfs" \in Calls /\ events \subseteq Followed
  /\ disk' = WrittenAll(disk, mkfs)
  /\ mounted' = FALSE
  /\ expected' = [i \in Inos |-> BlankFile]
  /\ events' = {"remade"} \cup IF \E fd \in Fds : IsOpen(fd) THEN {"alias"} ELSE {}
  /\ UNCHANGED <<mem, fdVars>>

Mount ==
  /\ "mkfs" \in Calls /\ events \subseteq Followed
  /\ IF IsDir(disk, Root)
     THEN mem' = mount(disk) /\ mounted' = TRUE /\ UNCHANGED events
     ELSE events' = events \cup {"lost"} /\ UNCHANGED <<mem, mounted>>
  /\ UNCHANGED <<disk, fdVars, expected>>

\* Any other call before mount works with memory that has nothing to do with
\* the disk.
Unmounted ==
  /\ events \subseteq Followed /\ ~ mounted
  /\ events' = events \cup {"lost"}
  /\ UNCHANGED <<disk, mem, mounted, fdVars, expected>>

\* Power fails after the writes w, and the system boots again.
CutShort(w, event) ==
  LET d == WrittenAll(disk, w)
  IN  /\ disk' = d
      /\ IF IsDir(d, Root)
         THEN mem' = mount(d) /\ events' = events \cup event
         ELSE mem' = mem /\ events' = events \cup {"lost"}
      /\ mounted' = TRUE
      /\ fd_array_slist' = slist_init(FD_ARRAY_SIZE + 1)
      /\ fd_array' = [fd \in Fds |-> BlankFd]
      /\ UNCHANGED expected

\* The writes of a call that is not completed.
Begun(r) == {SubSeq(r.w, 1, n) : n \in 1 .. Len(r.w) - 1}

\* In the middle of a call this happens once in an instance, and not after mkfs:
\* it may lower inode_used each time.
PowerFailure ==
  /\ Call("power")
  /\ \/ CutShort(<<>>, {})
     \/ /\ events \cap {"torn", "torn_rmdir", "remade"} = {}
        /\ \/ \E s \in Names : \E w \in Begun(mkdir(mem, disk, s)) \cup Begun(touch(mem, disk, s)) :
                CutShort(w, {"torn"})
           \/ \E s \in Names : \E w \in Begun(rmdir(mem, disk, s)) : CutShort(w, {"torn_rmdir"})
           \/ \E fd \in Fds, n \in Sizes, x \in Values :
                /\ IsOpen(fd) /\ fd_array[fd].access # "O_RD"
                /\ fd_array[fd].offset + n <= MaxOffset
                /\ \E w \in Begun(fwrite(mem, disk, fd_array[fd], n, x)) : CutShort(w, {"torn"})

Next ==
  \/ Mkdir \/ Rmdir \/ Touch \/ CdFather \/ CdName \/ CdPath
  \/ Fopen \/ Fclose \/ Fseek \/ Fread \/ Fwrite
  \/ Mkfs \/ Mount \/ Unmounted \/ PowerFailure

Spec == Init /\ [][Next]_vars

-----------------------------------------------------------------------------
DirType == [fpointer : Blocks, map : [Items -> [valid : 0 .. 1, name : Names \cup {NoName},
                                                ino : Inos]]]
CountsType == [inode_used : Int, data_used : Int]
InodeType == [type : {"none", "dir", "normal"}, size : Nat, size_allocated : Nat,
              pointers : [0 .. NPOINTERS - 1 -> Blocks \cup {Wild}]]

\* Types; in particular smap_index stays in the array, and an inode does not
\* point outside the data area.
TypeOK ==
  /\ disk.super \in [{0} -> CountsType] /\ disk.imap \in [{0} -> SUBSET Inos]
  /\ disk.smap \in [0 .. SMAP_SECTORS - 1 -> SUBSET Bits]
  /\ disk.iarray \in [Groups -> [InGroup -> InodeType]]
  /\ DOMAIN disk.darray = Blocks
  /\ \A p \in Blocks :
       /\ IsDir(disk, p) => ReadDir(disk, p) \in DirType
       /\ disk.darray[p].bytes # <<>> =>
            disk.darray[p].bytes \in [1 .. SECTOR_SIZE -> Values \cup {Junk}]
  /\ mem.super_block \in CountsType /\ mem.imap \subseteq Inos /\ mem.smap \subseteq Bits
  /\ mem.smap_index \in 0 .. SMAP_SECTORS
  /\ mem.current_dir \in DirType /\ mem.current_dir_pointer \in Blocks
  /\ mounted \in BOOLEAN
  /\ fd_array_slist \in SlistType(FD_ARRAY_SIZE + 1)
  /\ fd_array \in [Fds -> [ino : InGroup, access : {"O_RDWR", "O_RD"}, size : Nat, offset : Nat]]
  /\ expected \in [Inos -> [Offsets -> Values \cup {Junk}]]
  /\ events \subseteq {"no_inode", "no_block", "alias", "beyond", "seek", "torn", "torn_rmdir",
                       "remade", "lost"}

\* Nothing has happened that the code does not cope with.
Unharmed == mounted /\ events \subseteq {"seek", "remade"}

\* The inodes in use of the disk d, and the data block of a directory.
Imap(d) == d.imap[0]
Dirs(d) == {i \in Imap(d) : Inode(d, i).type = "dir"}
Files(d) == {i \in Imap(d) : Inode(d, i).type = "normal"}
DirBlock(d, i) == Inode(d, i).pointers[0]
DirBlocks(d) == {DirBlock(d, i) : i \in Dirs(d)}

\* The valid items in the data blocks of the directories.
Item(d, e) == ReadDir(d, e[1]).map[e[2]]
Entries(d) == {e \in DirBlocks(d) \X Items : IsDir(d, e[1]) /\ Item(d, e).valid = 1}

\* The blocks of all inodes in use, as pairs of the inode and a position in it.
Held(d) ==
  UNION {{<<i, k>> : k \in 0 .. (Inode(d, i).size_allocated \div SECTOR_SIZE) - 1} : i \in Imap(d)}
BlockAt(d, b) == Inode(d, b[1]).pointers[b[2]]

\* The blocks that are marked in smap, in all its sectors.
Marked(d) == {p \in Blocks : p % SMAP_BITS \in d.smap[p \div SMAP_BITS]}

\* Directories form a tree, and imap is what it contains: each inode in use but
\* the root's is the target of one entry, names are unique in a directory, a
\* directory knows its father, and the root can be reached from everywhere.
\* It takes mkdir, touch, rmdir and cd, each of which works on the copies in
\* memory that the others have left.
TreeOK ==
  Unharmed =>
    /\ Imap(disk) = Dirs(disk) \cup Files(disk) /\ Root \in Dirs(disk)
    /\ \A i \in Dirs(disk) : IsDir(disk, DirBlock(disk, i))
    /\ {Item(disk, e).ino : e \in Entries(disk)} = Imap(disk) \ {Root}
    /\ \A e, f \in Entries(disk) :
         e # f => /\ Item(disk, e).ino # Item(disk, f).ino
                  /\ e[1] = f[1] => Item(disk, e).name # Item(disk, f).name
    /\ \A e \in Entries(disk) :
         Item(disk, e).ino \in Dirs(disk) =>
           ReadDir(disk, DirBlock(disk, Item(disk, e).ino)).fpointer = e[1]
    /\ \A X \in SUBSET (Dirs(disk) \ {Root}) :
         X # {} => \E e \in Entries(disk) :
                     Item(disk, e).ino \in X /\ e[1] \notin {DirBlock(disk, i) : i \in X}

\* A data block is in one file or directory, once, or it is free: smap, in all
\* its sectors, is what the inodes point to, and the super block counts it.
BlocksOK ==
  Unharmed =>
    /\ {BlockAt(disk, b) : b \in Held(disk)} = Marked(disk)
    /\ \A b, c \in Held(disk) : b # c => BlockAt(disk, b) # BlockAt(disk, c)
    /\ disk.super[0] = [inode_used |-> Cardinality(Imap(disk)),
                        data_used |-> Cardinality(Held(disk))]

\* What the kernel has in memory is what is on the disk, whatever went wrong
\* before; for the current directory, if nothing did.
CacheOK ==
  Running /\ mounted =>
    /\ mem.super_block = disk.super[0] /\ mem.imap = Imap(disk)
    /\ mem.smap_index < SMAP_SECTORS => mem.smap = disk.smap[mem.smap_index]
    /\ Unharmed => /\ mem.current_dir_pointer \in DirBlocks(disk)
                   /\ mem.current_dir = ReadDir(disk, mem.current_dir_pointer)

\* After a power failure in mkdir, touch or fwrite an entry may lead to an inode
\* that was not written, but never to one that is free or that another entry
\* leads to: the inode is marked in imap before the entry is written.
CrashOK ==
  mounted /\ events \subseteq {"seek", "torn"} =>
    /\ \A e \in Entries(disk) : Item(disk, e).ino \in Imap(disk)
    /\ \A e, f \in Entries(disk) : e # f => Item(disk, e).ino # Item(disk, f).ino

\* A file contains what has been written to it, in whatever pieces and through
\* whichever descriptor; and its size is right if it was only appended to
\* ("file size caculating error when write after write", kernel/fs/fs.c:661).
FilesOK ==
  /\ Unharmed =>
       \A i \in Files(disk) : \A o \in Offsets : expected[i][o] # Junk =>
         disk.darray[offset_to_pointer(Inode(disk, i), o)].bytes[(o % SECTOR_SIZE) + 1]
           = expected[i][o]
  /\ mounted /\ events \subseteq {"remade"} =>
       \A i \in Files(disk) : Inode(disk, i).size = Cardinality({o \in Offsets : expected[i][o] # Junk})
=============================================================================
