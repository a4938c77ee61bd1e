-------------------------- MODULE FileSystemProofs --------------------------
(***************************************************************************)
(* The file system, for a disk of any size, any names and files, whatever  *)
(* calls are made and whatever has gone wrong before that the instance     *)
(* follows: its invariants, with power failures between any two writes.    *)
(*                                                                         *)
(* What a call does to the disk is a sequence of writes.  The lemmas give  *)
(* the disk after each of the allocating functions and then after each     *)
(* call, and the invariants are preserved by these.                        *)
(***************************************************************************)
EXTENDS FileSystem, SlistOpsProofs, SequenceTheorems, FiniteSetTheorems, WellFoundedInduction

SectorType == [dir : {<<>>} \cup {<<x>> : x \in DirType},
               bytes : {<<>>} \cup [1 .. SECTOR_SIZE -> Values \cup {Junk}]]
DiskType ==
  [super : [{0} -> CountsType], imap : [{0} -> SUBSET Inos],
   smap : [0 .. SMAP_SECTORS - 1 -> SUBSET Bits],
   iarray : [Groups -> [InGroup -> InodeType]], darray : [Blocks -> SectorType]]
MemType ==
  [super_block : CountsType, imap : SUBSET Inos, smap : SUBSET Bits,
   smap_index : 0 .. SMAP_SECTORS, current_dir : DirType, current_dir_pointer : Blocks]
Writes ==
  [area : {"super"}, at : {0}, data : CountsType]
  \cup [area : {"imap"}, at : {0}, data : SUBSET Inos]
  \cup [area : {"smap"}, at : 0 .. SMAP_SECTORS - 1, data : SUBSET Bits]
  \cup [area : {"iarray"}, at : Groups, data : [InGroup -> InodeType]]
  \cup [area : {"darray"}, at : Blocks, data : SectorType]

-----------------------------------------------------------------------------
\* Numbers.

\* Every nonempty set of natural numbers has a least element.
LEMMA LeastNat ==
  ASSUME NEW T, T \subseteq Nat, T # {}
  PROVE  \E x \in T : \A y \in T : x <= y
<1> DEFINE R == {ss \in Nat \X Nat : ss[1] < ss[2]}
<1>1. IsWellFoundedOn(R, Nat)
  BY NatLessThanWellFounded DEF OpToRel
<1>2. \A x, y \in Nat : x < y => <<x, y>> \in R
  OBVIOUS
<1> HIDE DEF R
<1>3. PICK x \in T : \A y \in T : ~ (<<y, x>> \in R)
  BY <1>1, WFMin
<1>4. ASSUME NEW y \in T PROVE x <= y
  <2>1. x \in Nat /\ y \in Nat
    OBVIOUS
  <2>2. ~ y < x
    BY <1>2, <1>3, <2>1
  <2> QED BY <2>1, <2>2
<1> QED BY <1>4

\* Min is that element.
LEMMA MinFacts ==
  ASSUME NEW T, T \subseteq Nat, T # {}
  PROVE  Min(T) \in T /\ \A y \in T : Min(T) <= y
BY LeastNat DEF Min

\* Induction over the turns of a loop; T is the set of those that are right.
LEMMA Turns ==
  ASSUME NEW N \in Nat, NEW T, 0 \in T, \A n \in 1 .. N : n - 1 \in T => n \in T
  PROVE  \A n \in 0 .. N : n \in T
<1> DEFINE B == {n \in 0 .. N : n \notin T}
<1> SUFFICES ASSUME B # {} PROVE FALSE
  OBVIOUS
<1>1. PICK m \in B : \A y \in B : m <= y
  <2>1. B \subseteq Nat
    OBVIOUS
  <2> HIDE DEF B
  <2> QED BY <2>1, LeastNat
<1>2. m \in 1 .. N /\ m - 1 \in 0 .. N
  BY <1>1
<1>3. m - 1 \notin B
  BY <1>1, <1>2
<1> QED BY <1>1, <1>2, <1>3

LEMMA DivMod ==
  ASSUME NEW a \in Nat, NEW n \in Nat \ {0}
  PROVE  /\ a \div n \in Nat /\ a % n \in 0 .. n - 1
         /\ a = (a \div n) * n + (a % n)
OBVIOUS

\* The quotient is the only one.
LEMMA DivUnique ==
  ASSUME NEW k \in Nat, NEW n \in Nat \ {0}, NEW j \in 0 .. n - 1
  PROVE  (k * n + j) \div n = k /\ (k * n + j) % n = j
<1> DEFINE a == k * n + j
<1>1. a \in Nat
  OBVIOUS
<1>2. a \div n \in Nat /\ a % n \in 0 .. n - 1 /\ a = (a \div n) * n + (a % n)
  BY <1>1, DivMod
<1> QED BY <1>2

LEMMA Consts ==
  /\ INODE_ITEM_NUM \in Nat \ {0} /\ INODES_PER_SECTOR \in Nat \ {0}
  /\ SMAP_SECTORS \in Nat \ {0} /\ SMAP_BITS \in Nat \ {0}
  /\ SECTOR_SIZE \in Nat \ {0} /\ MAX_DIR_ITEM_NUM \in Nat \ {0}
  /\ NDIRECT \in Nat \ {0} /\ NPOINTERS \in Nat \ {0} /\ NPOINTERS > NDIRECT
  /\ FD_ARRAY_SIZE \in Nat \ {0} /\ MaxOffset \in Nat
  /\ Inos \subseteq Nat /\ Blocks \subseteq Nat /\ Items \subseteq Nat /\ Bits \subseteq Nat
  /\ Root \in Inos /\ Root \in Blocks /\ Root = 0 /\ Wild \notin Blocks /\ 0 \in Items
  /\ 0 \in Groups /\ Root \in InGroup
  /\ INODES_PER_SECTOR <= INODE_ITEM_NUM
<1>1. /\ INODE_ITEM_NUM \in Nat \ {0} /\ INODES_PER_SECTOR \in Nat \ {0}
      /\ SMAP_SECTORS \in Nat \ {0} /\ SMAP_BITS \in Nat \ {0}
      /\ SECTOR_SIZE \in Nat \ {0} /\ MAX_DIR_ITEM_NUM \in Nat \ {0}
      /\ NDIRECT \in Nat \ {0} /\ NPOINTERS \in Nat \ {0} /\ NPOINTERS > NDIRECT
      /\ INODE_ITEM_NUM % INODES_PER_SECTOR = 0
  BY FsAssumption
<1>2. FD_ARRAY_SIZE \in Nat \ {0} /\ MaxOffset \in Nat
  BY FileAssumption
<1>3. SMAP_SECTORS * SMAP_BITS \in Nat \ {0}
  BY <1>1
<1>4. /\ INODE_ITEM_NUM \div INODES_PER_SECTOR \in Nat
      /\ INODE_ITEM_NUM = (INODE_ITEM_NUM \div INODES_PER_SECTOR) * INODES_PER_SECTOR
  BY <1>1, DivMod
<1>5. INODE_ITEM_NUM \div INODES_PER_SECTOR > 0
  BY <1>1, <1>4
<1>6. INODES_PER_SECTOR <= INODE_ITEM_NUM
  BY <1>1, <1>4, <1>5
<1> QED BY <1>1, <1>2, <1>3, <1>5, <1>6 DEF Inos, Blocks, Items, Bits, Root, Wild, Groups, InGroup

\* An inode has a place of its own in iarray.
LEMMA InodePlace ==
  ASSUME NEW i \in Inos
  PROVE  /\ i \div INODES_PER_SECTOR \in Groups /\ i % INODES_PER_SECTOR \in InGroup
         /\ \A j \in Inos : i \div INODES_PER_SECTOR = j \div INODES_PER_SECTOR
                            /\ i % INODES_PER_SECTOR = j % INODES_PER_SECTOR => i = j
<1> DEFINE n == INODES_PER_SECTOR
           q == INODE_ITEM_NUM \div INODES_PER_SECTOR
<1>1. n \in Nat \ {0} /\ INODE_ITEM_NUM \in Nat \ {0} /\ INODE_ITEM_NUM % n = 0
  BY FsAssumption
<1>2. q \in Nat /\ INODE_ITEM_NUM = q * n
  BY <1>1, DivMod
<1>3. ASSUME NEW j \in Inos
      PROVE  j \div n \in Nat /\ j % n \in 0 .. n - 1 /\ j = (j \div n) * n + (j % n)
  <2>1. j \in Nat
    BY Consts
  <2> QED BY <1>1, <2>1, DivMod
<1>4. i \div n <= q - 1
  <2>1. i < q * n /\ i \in Nat
    BY <1>1, <1>2 DEF Inos
  <2>2. (i \div n) * n <= i /\ i \div n \in Nat
    BY <1>1, <1>3, <2>1
  <2>3. (i \div n) * n < q * n
    BY <1>1, <1>2, <2>1, <2>2
  <2> QED BY <1>1, <1>2, <2>2, <2>3
<1> QED BY <1>2, <1>3, <1>4 DEF Groups, InGroup

\* A block has a bit of its own in smap, ...
LEMMA BlockPlace ==
  ASSUME NEW p \in Blocks
  PROVE  /\ p \div SMAP_BITS \in 0 .. SMAP_SECTORS - 1 /\ p % SMAP_BITS \in Bits
         /\ p = (p \div SMAP_BITS) * SMAP_BITS + (p % SMAP_BITS)
<1> DEFINE n == SMAP_BITS
<1>1. n \in Nat \ {0} /\ SMAP_SECTORS \in Nat \ {0}
  BY FsAssumption
<1>2. p \div n \in Nat /\ p % n \in 0 .. n - 1 /\ p = (p \div n) * n + (p % n)
  BY <1>1, DivMod DEF Blocks
<1>3. p \div n <= SMAP_SECTORS - 1
  <2>1. p < SMAP_SECTORS * n /\ p \in Nat
    BY <1>1 DEF Blocks
  <2>2. (p \div n) * n <= p
    BY <1>1, <1>2, <2>1
  <2>3. (p \div n) * n < SMAP_SECTORS * n
    BY <1>1, <1>2, <2>1, <2>2
  <2> QED BY <1>1, <1>2, <2>3
<1> QED BY <1>2, <1>3 DEF Bits

\* ... and the bit j of sector k is a block's.
LEMMA PlaceBlock ==
  ASSUME NEW k \in 0 .. SMAP_SECTORS - 1, NEW j \in Bits
  PROVE  /\ k * SMAP_BITS + j \in Blocks
         /\ (k * SMAP_BITS + j) \div SMAP_BITS = k /\ (k * SMAP_BITS + j) % SMAP_BITS = j
<1> DEFINE n == SMAP_BITS
<1>1. n \in Nat \ {0} /\ SMAP_SECTORS \in Nat \ {0} /\ k \in Nat /\ j \in 0 .. n - 1
  BY FsAssumption DEF Bits
<1>2. k * n \in Nat /\ k * n <= (SMAP_SECTORS - 1) * n
  BY <1>1
<1>3. (SMAP_SECTORS - 1) * n = SMAP_SECTORS * n - n
  BY <1>1
<1>4. k * n + j \in Blocks
  BY <1>1, <1>2, <1>3 DEF Blocks
<1>5. (k * n + j) \div n = k /\ (k * n + j) % n = j
  BY <1>1, DivUnique
<1> QED BY <1>4, <1>5

-----------------------------------------------------------------------------
\* The disk and its writes.

\* One turn of the loops of the model: a write, a name of a path, a block.
Turn(kind, d, v, x) ==
  CASE kind = "write" -> Written(v, x)
    [] kind = "path" -> Follow(d, v, x)
    [] OTHER -> OneMoreBlock(d, v)

IsLoop(kind, f, n, d, v, xs) ==
  f = [i \in 0 .. n |-> IF i = 0 THEN v ELSE Turn(kind, d, f[i - 1], xs[i])]

\* Each loop has a history of any length.
LEMMA LoopExists ==
  ASSUME NEW kind, NEW d, NEW v, NEW xs, NEW n \in Nat
  PROVE  \E f : IsLoop(kind, f, n, d, v, xs)
<1> DEFINE T == {i \in Nat : ~ \E f : IsLoop(kind, f, i, d, v, xs)}
<1> SUFFICES ASSUME T # {} PROVE FALSE
  OBVIOUS
<1>1. PICK m \in T : \A y \in T : m <= y
  <2>1. T \subseteq Nat
    OBVIOUS
  <2> HIDE DEF T
  <2> QED BY <2>1, LeastNat
<1>2. CASE m = 0
  <2> DEFINE f == [i \in 0 .. 0 |-> v]
  <2>1. f = [i \in 0 .. 0 |-> IF i = 0 THEN v ELSE Turn(kind, d, f[i - 1], xs[i])]
    OBVIOUS
  <2>2. IsLoop(kind, f, 0, d, v, xs)
    BY <2>1, Zenon DEF IsLoop
  <2> QED BY <1>2, <2>2
<1>3. CASE m # 0
  <2>1. m \in Nat /\ m - 1 \in Nat /\ m - 1 \notin T
    BY <1>1, <1>3
  <2>2. PICK f : IsLoop(kind, f, m - 1, d, v, xs)
    BY <2>1
  <2> DEFINE last == Turn(kind, d, f[m - 1], xs[m])
             g == [i \in 0 .. m |-> IF i = m THEN last ELSE f[i]]
             step(i) == Turn(kind, d, g[i - 1], xs[i])
             h == [i \in 0 .. m |-> IF i = 0 THEN v ELSE step(i)]
  <2>3. ASSUME NEW i \in 0 .. m PROVE g[i] = IF i = 0 THEN v ELSE step(i)
    <3>1. CASE i = 0
      <4>1. f[0] = v
        BY <2>1, <2>2 DEF IsLoop
      <4> QED BY <1>3, <2>1, <3>1, <4>1
    <3>2. CASE i # 0 /\ i # m
      <4>1. f[i] = Turn(kind, d, f[i - 1], xs[i])
        <5>1. i \in 0 .. m - 1
          BY <2>1, <3>2
        <5> QED BY <2>2, <3>2, <5>1 DEF IsLoop
      <4>2. g[i] = f[i] /\ g[i - 1] = f[i - 1]
        BY <2>1, <3>2
      <4> QED BY <3>2, <4>1, <4>2
    <3>3. CASE i = m
      <4>1. g[m] = last /\ g[m - 1] = f[m - 1]
        BY <2>1
      <4> QED BY <1>3, <3>3, <4>1
    <3> QED BY <3>1, <3>2, <3>3
  <2>4. g = h
    BY <2>3
  <2>5. IsLoop(kind, g, m, d, v, xs)
    BY <2>4, Zenon DEF IsLoop
  <2> QED BY <2>5
<1> QED BY <1>2, <1>3

LEMMA WriteTurns ==
  ASSUME NEW d, NEW S, NEW ws \in Seq(S)
  PROVE  /\ WrittenUpTo(d, ws)[0] = d
         /\ \A n \in 1 .. Len(ws) :
              WrittenUpTo(d, ws)[n] = Written(WrittenUpTo(d, ws)[n - 1], ws[n])
<1> DEFINE a == CHOOSE f : f = [n \in 0 .. Len(ws) |-> IF n = 0 THEN d ELSE Written(f[n - 1], ws[n])]
<1>1. WrittenUpTo(d, ws) = a
  BY DEF WrittenUpTo
<1>2. Len(ws) \in Nat
  OBVIOUS
<1>3. PICK f : IsLoop("write", f, Len(ws), d, d, ws)
  BY <1>2, LoopExists
<1>4. f = [n \in 0 .. Len(ws) |-> IF n = 0 THEN d ELSE Written(f[n - 1], ws[n])]
  BY <1>3, Zenon DEF IsLoop, Turn
<1>5. a = [n \in 0 .. Len(ws) |-> IF n = 0 THEN d ELSE Written(a[n - 1], ws[n])]
  BY <1>4, Zenon
<1> HIDE DEF a
<1> QED BY <1>1, <1>2, <1>5

\* The same for the names of a path, ...
LEMMA PathTurns ==
  ASSUME NEW d, NEW S, NEW path \in Seq(S)
  PROVE  \E at : /\ at[0] = Root /\ parse_path(d, path) = at[Len(path)]
                 /\ \A n \in 1 .. Len(path) : at[n] = Follow(d, at[n - 1], path[n])
<1> DEFINE a == CHOOSE f : f = [n \in 0 .. Len(path) |->
                                  IF n = 0 THEN Root ELSE Follow(d, f[n - 1], path[n])]
<1>1. parse_path(d, path) = a[Len(path)]
  BY DEF parse_path
<1>2. Len(path) \in Nat
  OBVIOUS
<1>3. PICK f : IsLoop("path", f, Len(path), d, Root, path)
  BY <1>2, LoopExists
<1>4. f = [n \in 0 .. Len(path) |-> IF n = 0 THEN Root ELSE Follow(d, f[n - 1], path[n])]
  <2>1. \A v, x : Turn("path", d, v, x) = Follow(d, v, x)
    BY DEF Turn
  <2> QED BY <1>3, <2>1 DEF IsLoop
<1>5. a = [n \in 0 .. Len(path) |-> IF n = 0 THEN Root ELSE Follow(d, a[n - 1], path[n])]
  BY <1>4, Zenon
<1> HIDE DEF a
<1>6. a[0] = Root /\ \A n \in 1 .. Len(path) : a[n] = Follow(d, a[n - 1], path[n])
  BY <1>2, <1>5
<1> QED BY <1>1, <1>6

NotGrown(m, inode) == [m |-> m, w |-> <<>>, inode |-> inode, status |-> "ok"]

\* ... and for the blocks that fwrite allocates.
LEMMA GrowTurns ==
  ASSUME NEW d, NEW m, NEW inode, NEW n \in Nat
  PROVE  LET f == FileGrows(d, m, inode, n)
         IN  f[0] = NotGrown(m, inode) /\ \A i \in 1 .. n : f[i] = OneMoreBlock(d, f[i - 1])
<1> DEFINE v == NotGrown(m, inode)
           a == CHOOSE f : f = [i \in 0 .. n |-> IF i = 0 THEN v ELSE OneMoreBlock(d, f[i - 1])]
<1>1. FileGrows(d, m, inode, n) = a
  BY DEF FileGrows, NotGrown
<1> HIDE DEF v
<1>3. PICK f : IsLoop("grow", f, n, d, v, <<>>)
  BY LoopExists
<1>4. f = [i \in 0 .. n |-> IF i = 0 THEN v ELSE OneMoreBlock(d, f[i - 1])]
  <2>1. \A u, x : Turn("grow", d, u, x) = OneMoreBlock(d, u)
    BY DEF Turn
  <2> QED BY <1>3, <2>1 DEF IsLoop
<1>5. a = [i \in 0 .. n |-> IF i = 0 THEN v ELSE OneMoreBlock(d, a[i - 1])]
  BY <1>4, Zenon
<1> HIDE DEF a
<1>6. a[0] = v /\ \A i \in 1 .. n : a[i] = OneMoreBlock(d, a[i - 1])
  BY <1>5
<1> QED BY <1>1, <1>6 DEF v

\* What is written does not depend on what will be written later.
LEMMA WritePrefix ==
  ASSUME NEW d, NEW S, NEW ws \in Seq(S), NEW vs \in Seq(S), NEW k \in 0 .. Len(ws),
         k <= Len(vs), \A i \in 1 .. k : ws[i] = vs[i]
  PROVE  WrittenUpTo(d, ws)[k] = WrittenUpTo(d, vs)[k]
<1> DEFINE T == {n \in 0 .. k : WrittenUpTo(d, ws)[n] = WrittenUpTo(d, vs)[n]}
<1>0. Len(ws) \in Nat /\ Len(vs) \in Nat /\ k \in Nat
  OBVIOUS
<1>1. 0 \in T
  BY <1>0, WriteTurns
<1>2. ASSUME NEW n \in 1 .. k, n - 1 \in T PROVE n \in T
  <2>1. n \in 1 .. Len(ws) /\ n \in 1 .. Len(vs) /\ ws[n] = vs[n]
    BY <1>0
  <2>2. WrittenUpTo(d, ws)[n] = Written(WrittenUpTo(d, ws)[n - 1], ws[n])
    BY <2>1, WriteTurns
  <2>3. WrittenUpTo(d, vs)[n] = Written(WrittenUpTo(d, vs)[n - 1], vs[n])
    BY <2>1, WriteTurns
  <2>4. WrittenUpTo(d, ws)[n - 1] = WrittenUpTo(d, vs)[n - 1]
    BY <1>2
  <2>5. n \in 0 .. k
    OBVIOUS
  <2> QED BY <2>1, <2>2, <2>3, <2>4, <2>5
<1> HIDE DEF T
<1>3. \A n \in 0 .. k : n \in T
  BY <1>0, <1>1, <1>2, Turns
<1> QED BY <1>0, <1>3 DEF T

\* The disks that a power failure may leave in the course of the writes ws.
Stages(d, ws) == {WrittenUpTo(d, ws)[n] : n \in 0 .. Len(ws)}

LEMMA WriteNone ==
  ASSUME NEW d
  PROVE  WrittenAll(d, <<>>) = d /\ Stages(d, <<>>) = {d}
<1>1. <<>> \in Seq({0}) /\ Len(<<>>) = 0
  OBVIOUS
<1>2. WrittenUpTo(d, <<>>)[0] = d
  BY <1>1, WriteTurns
<1> QED BY <1>1, <1>2 DEF WrittenAll, Stages

LEMMA WriteOne ==
  ASSUME NEW d, NEW w
  PROVE  WrittenAll(d, <<w>>) = Written(d, w) /\ Stages(d, <<w>>) = {d, Written(d, w)}
<1> DEFINE ws == <<w>>
<1>1. ws \in Seq({w}) /\ Len(ws) = 1 /\ ws[1] = w
  OBVIOUS
<1> HIDE DEF ws
<1>2. WrittenUpTo(d, ws)[0] = d
  BY <1>1, WriteTurns
<1>3. 1 \in 1 .. Len(ws) /\ 1 - 1 = 0
  BY <1>1
<1>4. WrittenUpTo(d, ws)[1] = Written(WrittenUpTo(d, ws)[1 - 1], ws[1])
  BY <1>1, <1>3, WriteTurns
<1>5. WrittenUpTo(d, ws)[1] = Written(d, w)
  BY <1>1, <1>2, <1>3, <1>4
<1>6. 0 .. Len(ws) = {0, 1}
  BY <1>1
<1> QED BY <1>1, <1>2, <1>5, <1>6 DEF WrittenAll, Stages, ws

LEMMA WriteConcat ==
  ASSUME NEW d, NEW S, NEW ws \in Seq(S), NEW vs \in Seq(S)
  PROVE  /\ WrittenAll(d, ws \o vs) = WrittenAll(WrittenAll(d, ws), vs)
         /\ Stages(d, ws \o vs) \subseteq Stages(d, ws) \cup Stages(WrittenAll(d, ws), vs)
<1> DEFINE us == ws \o vs
           c == WrittenAll(d, ws)
           k == Len(ws)
           T == {n \in 0 .. Len(vs) : WrittenUpTo(d, us)[k + n] = WrittenUpTo(c, vs)[n]}
<1>1. /\ us \in Seq(S) /\ Len(us) = k + Len(vs) /\ k \in Nat /\ Len(vs) \in Nat
      /\ \A i \in 1 .. k : us[i] = ws[i]
      /\ \A i \in 1 .. Len(vs) : us[k + i] = vs[i]
  BY ConcatProperties
<1> HIDE DEF us
<1>2. \A n \in 0 .. k : WrittenUpTo(d, us)[n] = WrittenUpTo(d, ws)[n]
  <2> TAKE n \in 0 .. k
  <2>1. us \in Seq(S) /\ n \in 0 .. Len(us) /\ n <= Len(ws) /\ \A i \in 1 .. n : us[i] = ws[i]
    BY <1>1
  <2> HIDE DEF T, c, k
  <2> QED BY <2>1, WritePrefix
<1>3. 0 \in T
  <2>1. WrittenUpTo(c, vs)[0] = c
    BY WriteTurns
  <2>2. WrittenUpTo(d, us)[k] = c
    BY <1>1, <1>2 DEF WrittenAll
  <2> QED BY <1>1, <2>1, <2>2
<1>4. ASSUME NEW n \in 1 .. Len(vs), n - 1 \in T PROVE n \in T
  <2>1. k + n \in 1 .. Len(us) /\ (k + n) - 1 = k + (n - 1) /\ us[k + n] = vs[n]
    BY <1>1
  <2>2. \A j \in 1 .. Len(us) : WrittenUpTo(d, us)[j] = Written(WrittenUpTo(d, us)[j - 1], us[j])
    <3>1. us \in Seq(S)
      BY <1>1
    <3> HIDE DEF T, c, k
    <3> QED BY <3>1, WriteTurns
  <2>3. WrittenUpTo(c, vs)[n] = Written(WrittenUpTo(c, vs)[n - 1], vs[n])
    BY WriteTurns
  <2>4. WrittenUpTo(d, us)[k + (n - 1)] = WrittenUpTo(c, vs)[n - 1]
    BY <1>4
  <2> QED BY <1>1, <2>1, <2>2, <2>3, <2>4
<1> HIDE DEF T
<1>5. \A n \in 0 .. Len(vs) : n \in T
  BY <1>1, <1>3, <1>4, Turns
<1>6. \A n \in 0 .. Len(vs) : WrittenUpTo(d, us)[k + n] = WrittenUpTo(c, vs)[n]
  BY <1>5 DEF T
<1>7. WrittenAll(d, us) = WrittenAll(c, vs)
  BY <1>1, <1>6 DEF WrittenAll
<1>8. ASSUME NEW n \in 0 .. Len(us)
      PROVE  WrittenUpTo(d, us)[n] \in Stages(d, ws) \cup Stages(c, vs)
  <2>1. CASE n <= k
    <3>1. n \in 0 .. Len(ws)
      BY <1>1, <2>1
    <3> QED BY <1>2, <3>1 DEF Stages
  <2>2. CASE ~ n <= k
    <3>1. n - k \in 0 .. Len(vs) /\ n = k + (n - k)
      BY <1>1, <2>2
    <3> QED BY <1>6, <3>1 DEF Stages
  <2> QED BY <2>1, <2>2
<1> QED BY <1>7, <1>8 DEF Stages, us

\* One write more.
OneMore(us, ws, w) == us = Append(ws, w) \/ us = ws \o <<w>>

LEMMA WriteMore ==
  ASSUME NEW d, NEW S, NEW ws \in Seq(S), NEW w \in S,
         NEW us, OneMore(us, ws, w)
  PROVE  /\ us \in Seq(S) /\ WrittenAll(d, us) = Written(WrittenAll(d, ws), w)
         /\ Stages(d, us) \subseteq Stages(d, ws) \cup {Written(WrittenAll(d, ws), w)}
<1>0. <<w>> \in Seq(S) /\ Append(ws, w) = ws \o <<w>> /\ Append(ws, w) \in Seq(S)
  BY AppendIsConcat
<1>1. <<w>> \in Seq(S) /\ us = ws \o <<w>> /\ us \in Seq(S)
  BY <1>0 DEF OneMore
<1>2. WrittenAll(d, ws) \in Stages(d, ws)
  BY DEF WrittenAll, Stages
<1> DEFINE c == WrittenAll(d, ws)
           v == <<w>>
<1> HIDE DEF v, c
<1>3. /\ WrittenAll(d, ws \o v) = WrittenAll(c, v)
      /\ Stages(d, ws \o v) \subseteq Stages(d, ws) \cup Stages(c, v)
  BY <1>1, WriteConcat DEF v, c
<1>4. WrittenAll(c, v) = Written(c, w) /\ Stages(c, v) = {c, Written(c, w)}
  BY WriteOne DEF v
<1> QED BY <1>1, <1>2, <1>3, <1>4 DEF v, c

\* Two writes.
LEMMA WriteTwo ==
  ASSUME NEW d, NEW v, NEW w
  PROVE  /\ WrittenAll(d, <<v, w>>) = Written(Written(d, v), w)
         /\ Stages(d, <<v, w>>) \subseteq {d, Written(d, v), Written(Written(d, v), w)}
<1> DEFINE vs == <<v>>
           us == <<w>>
           S == {v, w}
           c == WrittenAll(d, vs)
<1>1. vs \in Seq(S) /\ us \in Seq(S) /\ <<v, w>> = vs \o us
  <2>1. vs \in Seq(S) /\ w \in S /\ <<v, w>> = Append(vs, w)
    OBVIOUS
  <2>2. us \in Seq(S)
    OBVIOUS
  <2> HIDE DEF vs, S
  <2>3. Append(vs, w) = vs \o us
    BY <2>1, AppendIsConcat
  <2> QED BY <2>1, <2>2, <2>3
<1>2. c = Written(d, v) /\ Stages(d, vs) = {d, Written(d, v)}
  BY WriteOne
<1>3. WrittenAll(c, us) = Written(c, w) /\ Stages(c, us) = {c, Written(c, w)}
  BY WriteOne
<1> HIDE DEF vs, us, S
<1>4. WrittenAll(d, vs \o us) = WrittenAll(c, us) /\ Stages(d, vs \o us) \subseteq Stages(d, vs) \cup Stages(c, us)
  BY <1>1, WriteConcat
<1> QED BY <1>1, <1>2, <1>3, <1>4

\* The writes of a call that is not completed lead to one of its stages.
LEMMA WriteBegun ==
  ASSUME NEW d, NEW r, NEW S, r.w \in Seq(S), NEW w \in Begun(r)
  PROVE  WrittenAll(d, w) \in Stages(d, r.w)
<1> DEFINE ws == r.w
<1>1. PICK n \in 1 .. Len(ws) - 1 : w = SubSeq(ws, 1, n)
  BY DEF Begun
<1>2. Len(ws) \in Nat /\ n \in 0 .. Len(ws) /\ n \in Nat /\ n \in Int /\ 1 <= n
  BY <1>1
<1>3. \A i \in 1 .. n : ws[i] \in S
  BY <1>2
<1>4. w \in Seq(S) /\ Len(w) = n /\ \A i \in 1 .. n : w[i] = ws[i]
  BY <1>1, <1>2, <1>3, SubSeqProperties
<1>5. WrittenUpTo(d, ws)[n] = WrittenUpTo(d, w)[n]
  BY <1>2, <1>4, WritePrefix
<1> QED BY <1>2, <1>4, <1>5 DEF WrittenAll, Stages

-----------------------------------------------------------------------------
\* What one write changes.

LEMMA OnSuper ==
  ASSUME NEW d \in DiskType, NEW x \in CountsType
  PROVE  LET w == Sdwrite("super", 0, x)  e == Written(d, w)
         IN  /\ w \in Writes /\ e \in DiskType
             /\ e.super[0] = x /\ e.imap = d.imap /\ e.smap = d.smap
             /\ e.iarray = d.iarray /\ e.darray = d.darray
<1>1. Sdwrite("super", 0, x) \in Writes
  BY DEF Sdwrite, Writes
<1> QED BY <1>1 DEF Sdwrite, Written, DiskType

LEMMA OnImap ==
  ASSUME NEW d \in DiskType, NEW x \in SUBSET Inos
  PROVE  LET w == Sdwrite("imap", 0, x)  e == Written(d, w)
         IN  /\ w \in Writes /\ e \in DiskType
             /\ e.super = d.super /\ e.imap[0] = x /\ e.smap = d.smap
             /\ e.iarray = d.iarray /\ e.darray = d.darray
<1>1. Sdwrite("imap", 0, x) \in Writes
  BY DEF Sdwrite, Writes
<1> QED BY <1>1 DEF Sdwrite, Written, DiskType

LEMMA OnSmap ==
  ASSUME NEW d \in DiskType, NEW k \in 0 .. SMAP_SECTORS - 1, NEW x \in SUBSET Bits
  PROVE  LET w == Sdwrite("smap", k, x)  e == Written(d, w)
         IN  /\ w \in Writes /\ e \in DiskType
             /\ e.super = d.super /\ e.imap = d.imap /\ e.smap = [d.smap EXCEPT ![k] = x]
             /\ e.iarray = d.iarray /\ e.darray = d.darray
<1>1. Sdwrite("smap", k, x) \in Writes
  BY DEF Sdwrite, Writes
<1> QED BY <1>1 DEF Sdwrite, Written, DiskType

LEMMA OnIarray ==
  ASSUME NEW d \in DiskType, NEW g \in Groups, NEW x \in [InGroup -> InodeType]
  PROVE  LET w == Sdwrite("iarray", g, x)  e == Written(d, w)
         IN  /\ w \in Writes /\ e \in DiskType
             /\ e.super = d.super /\ e.imap = d.imap /\ e.smap = d.smap
             /\ e.iarray = [d.iarray EXCEPT ![g] = x] /\ e.darray = d.darray
<1>1. Sdwrite("iarray", g, x) \in Writes
  BY DEF Sdwrite, Writes
<1> QED BY <1>1 DEF Sdwrite, Written, DiskType

LEMMA OnDarray ==
  ASSUME NEW d \in DiskType, NEW p \in Blocks, NEW x \in SectorType
  PROVE  LET w == Sdwrite("darray", p, x)  e == Written(d, w)
         IN  /\ w \in Writes /\ e \in DiskType
             /\ e.super = d.super /\ e.imap = d.imap /\ e.smap = d.smap
             /\ e.iarray = d.iarray /\ e.darray = [d.darray EXCEPT ![p] = x]
<1>1. Sdwrite("darray", p, x) \in Writes
  BY DEF Sdwrite, Writes
<1> QED BY <1>1 DEF Sdwrite, Written, DiskType

\* Every write is one of these.
LEMMA WriteCases ==
  ASSUME NEW w \in Writes
  PROVE  \/ \E x \in CountsType : w = Sdwrite("super", 0, x)
         \/ \E x \in SUBSET Inos : w = Sdwrite("imap", 0, x)
         \/ \E k \in 0 .. SMAP_SECTORS - 1, x \in SUBSET Bits : w = Sdwrite("smap", k, x)
         \/ \E g \in Groups, x \in [InGroup -> InodeType] : w = Sdwrite("iarray", g, x)
         \/ \E p \in Blocks, x \in SectorType : w = Sdwrite("darray", p, x)
<1>1. CASE w \in [area : {"super"}, at : {0}, data : CountsType]
  BY <1>1 DEF Sdwrite
<1>2. CASE w \in [area : {"imap"}, at : {0}, data : SUBSET Inos]
  BY <1>2 DEF Sdwrite
<1>3. CASE w \in [area : {"smap"}, at : 0 .. SMAP_SECTORS - 1, data : SUBSET Bits]
  BY <1>3 DEF Sdwrite
<1>4. CASE w \in [area : {"iarray"}, at : Groups, data : [InGroup -> InodeType]]
  BY <1>4 DEF Sdwrite
<1>5. CASE w \in [area : {"darray"}, at : Blocks, data : SectorType]
  BY <1>5 DEF Sdwrite
<1> QED BY <1>1, <1>2, <1>3, <1>4, <1>5 DEF Writes

LEMMA WrittenType ==
  ASSUME NEW d \in DiskType, NEW w \in Writes
  PROVE  Written(d, w) \in DiskType
<1>1. ASSUME NEW x \in CountsType, w = Sdwrite("super", 0, x) PROVE Written(d, w) \in DiskType
  BY <1>1, OnSuper
<1>2. ASSUME NEW x \in SUBSET Inos, w = Sdwrite("imap", 0, x) PROVE Written(d, w) \in DiskType
  BY <1>2, OnImap
<1>3. ASSUME NEW k \in 0 .. SMAP_SECTORS - 1, NEW x \in SUBSET Bits, w = Sdwrite("smap", k, x)
      PROVE  Written(d, w) \in DiskType
  BY <1>3, OnSmap
<1>4. ASSUME NEW g \in Groups, NEW x \in [InGroup -> InodeType], w = Sdwrite("iarray", g, x)
      PROVE  Written(d, w) \in DiskType
  BY <1>4, OnIarray
<1>5. ASSUME NEW p \in Blocks, NEW x \in SectorType, w = Sdwrite("darray", p, x)
      PROVE  Written(d, w) \in DiskType
  BY <1>5, OnDarray
<1> QED BY <1>1, <1>2, <1>3, <1>4, <1>5, WriteCases

LEMMA StagesType ==
  ASSUME NEW d \in DiskType, NEW ws \in Seq(Writes)
  PROVE  WrittenAll(d, ws) \in DiskType /\ Stages(d, ws) \subseteq DiskType
<1> DEFINE T == {n \in 0 .. Len(ws) : WrittenUpTo(d, ws)[n] \in DiskType}
<1>0. Len(ws) \in Nat
  OBVIOUS
<1>1. 0 \in T
  BY <1>0, WriteTurns
<1>2. ASSUME NEW n \in 1 .. Len(ws), n - 1 \in T PROVE n \in T
  <2>1. WrittenUpTo(d, ws)[n] = Written(WrittenUpTo(d, ws)[n - 1], ws[n])
    BY WriteTurns
  <2>2. ws[n] \in Writes /\ WrittenUpTo(d, ws)[n - 1] \in DiskType /\ n \in 0 .. Len(ws)
    BY <1>0, <1>2
  <2> QED BY <2>1, <2>2, WrittenType
<1> HIDE DEF T
<1>3. \A n \in 0 .. Len(ws) : n \in T
  BY <1>0, <1>1, <1>2, Turns
<1> QED BY <1>0, <1>3 DEF T, WrittenAll, Stages

\* The inodes of the disk, and what it is to write one.
LEMMA InodeIn ==
  ASSUME NEW d \in DiskType, NEW i \in Inos
  PROVE  /\ Inode(d, i) \in InodeType
         /\ Inode(d, i).size \in Nat /\ Inode(d, i).size_allocated \in Nat
         /\ Inode(d, i).pointers \in [0 .. NPOINTERS - 1 -> Blocks \cup {Wild}]
         /\ Inode(d, i).pointers[0] \in Blocks \cup {Wild}
<1>1. Inode(d, i) \in InodeType
  BY InodePlace DEF DiskType, Inode
<1>2. 0 \in 0 .. NPOINTERS - 1
  BY Consts
<1> QED BY <1>1, <1>2 DEF InodeType

LEMMA OnInode ==
  ASSUME NEW c \in DiskType, NEW d \in DiskType, c.iarray = d.iarray,
         NEW i \in Inos, NEW inode \in InodeType
  PROVE  LET w == WriteInode(d, i, inode)  e == Written(c, w)
         IN  /\ w \in Writes /\ e \in DiskType
             /\ e.super = c.super /\ e.imap = c.imap /\ e.smap = c.smap /\ e.darray = c.darray
             /\ Inode(e, i) = inode
             /\ \A j \in Inos : j # i => Inode(e, j) = Inode(c, j)
<1> DEFINE g == i \div INODES_PER_SECTOR
           x == [d.iarray[g] EXCEPT ![i % INODES_PER_SECTOR] = inode]
           w == WriteInode(d, i, inode)
           e == Written(c, w)
<1>1. g \in Groups /\ i % INODES_PER_SECTOR \in InGroup
  BY InodePlace
<1>2. d.iarray[g] \in [InGroup -> InodeType] /\ d.iarray \in [Groups -> [InGroup -> InodeType]]
  BY <1>1 DEF DiskType
<1>3. x \in [InGroup -> InodeType]
  BY <1>2
<1>4. w = Sdwrite("iarray", g, x)
  BY DEF WriteInode
<1> HIDE DEF x, w
<1>5. /\ w \in Writes /\ e \in DiskType
      /\ e.super = c.super /\ e.imap = c.imap /\ e.smap = c.smap /\ e.darray = c.darray
      /\ e.iarray = [d.iarray EXCEPT ![g] = x]
  BY <1>1, <1>3, <1>4, OnIarray
<1> HIDE DEF e
<1>6. Inode(e, i) = inode
  BY <1>1, <1>2, <1>5 DEF Inode, x
<1>7. ASSUME NEW j \in Inos, j # i PROVE Inode(e, j) = Inode(c, j)
  <2>1. j \div INODES_PER_SECTOR \in Groups /\ j % INODES_PER_SECTOR \in InGroup
    BY InodePlace
  <2>2. CASE j \div INODES_PER_SECTOR = g
    <3>1. j % INODES_PER_SECTOR # i % INODES_PER_SECTOR
      BY <1>7, <2>2, InodePlace
    <3> QED BY <1>1, <1>2, <1>5, <2>1, <2>2, <3>1 DEF Inode, x
  <2>3. CASE j \div INODES_PER_SECTOR # g
    BY <1>1, <1>2, <1>5, <2>1, <2>3 DEF Inode
  <2> QED BY <2>2, <2>3
<1> QED BY <1>5, <1>6, <1>7 DEF w, e

\* Directories on the disk.
LEMMA DirIn ==
  ASSUME NEW d \in DiskType, NEW p, IsDir(d, p)
  PROVE  p \in Blocks /\ ReadDir(d, p) \in DirType
<1>1. p \in Blocks /\ d.darray[p] \in SectorType /\ d.darray[p].dir # <<>>
  BY DEF IsDir, DiskType
<1>2. d.darray[p].dir[1] \in DirType
  BY <1>1 DEF SectorType
<1> QED BY <1>1, <1>2 DEF ReadDir

LEMMA OnDir ==
  ASSUME NEW d \in DiskType, NEW p \in Blocks, NEW dir \in DirType
  PROVE  LET w == Sdwrite("darray", p, DirSector(dir))  e == Written(d, w)
         IN  /\ w \in Writes /\ e \in DiskType
             /\ e.super = d.super /\ e.imap = d.imap /\ e.smap = d.smap /\ e.iarray = d.iarray
             /\ IsDir(e, p) /\ ReadDir(e, p) = dir
             /\ \A q \in Blocks : q # p => e.darray[q] = d.darray[q]
<1> DEFINE w == Sdwrite("darray", p, DirSector(dir))
           e == Written(d, w)
<1>1. DirSector(dir) \in SectorType /\ DirSector(dir).dir # <<>> /\ DirSector(dir).dir[1] = dir
  BY DEF DirSector, SectorType
<1>2. /\ w \in Writes /\ e \in DiskType
      /\ e.super = d.super /\ e.imap = d.imap /\ e.smap = d.smap /\ e.iarray = d.iarray
      /\ e.darray = [d.darray EXCEPT ![p] = DirSector(dir)]
  BY <1>1, OnDarray
<1> HIDE DEF e, w
<1>3. d.darray \in [Blocks -> SectorType]
  BY DEF DiskType
<1>4. e.darray[p] = DirSector(dir) /\ \A q \in Blocks : q # p => e.darray[q] = d.darray[q]
  BY <1>2, <1>3
<1> QED BY <1>1, <1>2, <1>4 DEF IsDir, ReadDir, w, e

LEMMA EmptyDirType ==
  ASSUME NEW p \in Blocks
  PROVE  EmptyDir(p) \in DirType /\ \A k \in Items : EmptyDir(p).map[k].valid = 0
BY Consts DEF EmptyDir, DirType, Root

-----------------------------------------------------------------------------
\* Entries that a power failure leaves.  They are considered in all blocks, for
\* the inode of a directory may not have been written yet.

ValidAt(d, p, k) == IsDir(d, p) /\ ReadDir(d, p).map[k].valid = 1
TargetAt(d, p, k) == ReadDir(d, p).map[k].ino

\* No entry leads to a free inode, and no two lead to the same.
NoSharing(d) ==
  /\ \A p \in Blocks, k \in Items : ValidAt(d, p, k) => TargetAt(d, p, k) \in d.imap[0]
  /\ \A p, q \in Blocks, k, l \in Items :
       ValidAt(d, p, k) /\ ValidAt(d, q, l) /\ TargetAt(d, p, k) = TargetAt(d, q, l)
         => p = q /\ k = l

NoItems(x) == x.dir = <<>> \/ \A k \in Items : x.dir[1].map[k].valid = 0

\* The writes that add no entry and free no inode.
Quiet == {w \in Writes : w.area # "imap" /\ (w.area = "darray" => NoItems(w.data))}

\* The disk e has no other entries than d.
Fewer(d, e) ==
  /\ e.imap[0] = d.imap[0]
  /\ \A p \in Blocks : e.darray[p].dir = d.darray[p].dir \/ NoItems(e.darray[p])

LEMMA FewerShared ==
  ASSUME NEW d, NEW e, Fewer(d, e), NoSharing(d)
  PROVE  NoSharing(e)
<1>1. ASSUME NEW p \in Blocks, NEW k \in Items, ValidAt(e, p, k)
      PROVE  ValidAt(d, p, k) /\ TargetAt(d, p, k) = TargetAt(e, p, k)
  <2>1. e.darray[p].dir # <<>> /\ e.darray[p].dir[1].map[k].valid = 1
    BY <1>1 DEF ValidAt, IsDir, ReadDir
  <2>2. ~ NoItems(e.darray[p])
    BY <2>1 DEF NoItems
  <2>3. e.darray[p].dir = d.darray[p].dir
    BY <2>2 DEF Fewer
  <2> QED BY <1>1, <2>3 DEF ValidAt, TargetAt, IsDir, ReadDir
<1>2. e.imap[0] = d.imap[0]
  BY DEF Fewer
<1> QED BY <1>1, <1>2 DEF NoSharing

LEMMA FewerTwice ==
  ASSUME NEW c, NEW d, NEW e, Fewer(c, d), Fewer(d, e)
  PROVE  Fewer(c, e)
BY DEF Fewer, NoItems

LEMMA QuietWrite ==
  ASSUME NEW d \in DiskType, NEW w \in Quiet
  PROVE  Written(d, w) \in DiskType /\ Fewer(d, Written(d, w))
<1> DEFINE e == Written(d, w)
<1>0. w \in Writes /\ w.area # "imap" /\ (w.area = "darray" => NoItems(w.data))
  BY DEF Quiet
<1>1. e \in DiskType
  BY <1>0, WrittenType
<1>2. ASSUME NEW x \in CountsType, w = Sdwrite("super", 0, x) PROVE Fewer(d, e)
  BY <1>2, OnSuper DEF Fewer
<1>3. ASSUME NEW x \in SUBSET Inos, w = Sdwrite("imap", 0, x) PROVE Fewer(d, e)
  BY <1>0, <1>3 DEF Sdwrite
<1>4. ASSUME NEW k \in 0 .. SMAP_SECTORS - 1, NEW x \in SUBSET Bits, w = Sdwrite("smap", k, x)
      PROVE  Fewer(d, e)
  BY <1>4, OnSmap DEF Fewer
<1>5. ASSUME NEW g \in Groups, NEW x \in [InGroup -> InodeType], w = Sdwrite("iarray", g, x)
      PROVE  Fewer(d, e)
  BY <1>5, OnIarray DEF Fewer
<1>6. ASSUME NEW p \in Blocks, NEW x \in SectorType, w = Sdwrite("darray", p, x)
      PROVE  Fewer(d, e)
  <2>1. NoItems(x)
    BY <1>0, <1>6 DEF Sdwrite
  <2>2. e.imap = d.imap /\ e.darray = [d.darray EXCEPT ![p] = x]
    BY <1>6, OnDarray
  <2>3. d.darray \in [Blocks -> SectorType]
    BY DEF DiskType
  <2> HIDE DEF e
  <2>4. \A q \in Blocks : e.darray[q] = IF q = p THEN x ELSE d.darray[q]
    BY <2>2, <2>3
  <2> QED BY <2>1, <2>2, <2>4 DEF Fewer
<1> QED BY <1>0, <1>1, <1>2, <1>3, <1>4, <1>5, <1>6, WriteCases

LEMMA QuietStages ==
  ASSUME NEW d \in DiskType, NEW ws \in Seq(Quiet)
  PROVE  /\ ws \in Seq(Writes) /\ WrittenAll(d, ws) \in Stages(d, ws)
         /\ \A s \in Stages(d, ws) : s \in DiskType /\ Fewer(d, s)
<1> DEFINE at == WrittenUpTo(d, ws)
           T == {n \in 0 .. Len(ws) : at[n] \in DiskType /\ Fewer(d, at[n])}
<1>0. Len(ws) \in Nat /\ ws \in Seq(Writes) /\ Len(ws) \in 0 .. Len(ws)
  <2>1. Quiet \subseteq Writes /\ Len(ws) \in Nat
    BY DEF Quiet
  <2> QED BY <2>1
<1>1. 0 \in T
  <2>1. at[0] = d
    BY WriteTurns
  <2> QED BY <1>0, <2>1 DEF Fewer
<1>2. ASSUME NEW n \in 1 .. Len(ws), n - 1 \in T PROVE n \in T
  <2>1. at[n] = Written(at[n - 1], ws[n])
    BY WriteTurns
  <2>2. ws[n] \in Quiet /\ at[n - 1] \in DiskType /\ Fewer(d, at[n - 1]) /\ n \in 0 .. Len(ws)
    BY <1>0, <1>2
  <2> HIDE DEF at
  <2>3. at[n] \in DiskType /\ Fewer(at[n - 1], at[n])
    BY <2>1, <2>2, QuietWrite
  <2>4. Fewer(d, at[n])
    BY <2>2, <2>3, FewerTwice
  <2> QED BY <2>2, <2>3, <2>4
<1> HIDE DEF T
<1>3. \A n \in 0 .. Len(ws) : n \in T
  BY <1>0, <1>1, <1>2, Turns
<1> QED BY <1>0, <1>3 DEF T, WrittenAll, Stages

-----------------------------------------------------------------------------
\* The functions that allocate and free.  iarray_alloc and iarray_free write
\* imap and the super block, darray_alloc and darray_free a sector of smap and
\* the super block.

Counts(i, b) == [inode_used |-> i, data_used |-> b]

MemOf(sb, im, sm, ix, cur, p) ==
  [super_block |-> sb, imap |-> im, smap |-> sm, smap_index |-> ix,
   current_dir |-> cur, current_dir_pointer |-> p]

LEMMA ImapSuper ==
  ASSUME NEW c \in DiskType, NEW x \in SUBSET Inos, NEW n \in CountsType
  PROVE  LET ws == <<Sdwrite("imap", 0, x), Sdwrite("super", 0, n)>>  e == WrittenAll(c, ws)
         IN  /\ ws \in Seq(Writes) /\ e \in DiskType
             /\ e.imap[0] = x /\ e.super[0] = n /\ e.smap = c.smap
             /\ e.iarray = c.iarray /\ e.darray = c.darray
             /\ \A s \in Stages(c, ws) : s.darray = c.darray /\ s.imap[0] \in {c.imap[0], x}
<1> DEFINE v == Sdwrite("imap", 0, x)
           w == Sdwrite("super", 0, n)
           b == Written(c, v)
           e == Written(b, w)
<1>1. /\ v \in Writes /\ b \in DiskType
      /\ b.super = c.super /\ b.imap[0] = x /\ b.smap = c.smap
      /\ b.iarray = c.iarray /\ b.darray = c.darray
  BY OnImap
<1> HIDE DEF v, b
<1>2. /\ w \in Writes /\ e \in DiskType
      /\ e.super[0] = n /\ e.imap = b.imap /\ e.smap = b.smap
      /\ e.iarray = b.iarray /\ e.darray = b.darray
  BY <1>1, OnSuper
<1> HIDE DEF w, e
<1>3. WrittenAll(c, <<v, w>>) = e /\ Stages(c, <<v, w>>) \subseteq {c, b, e}
  BY WriteTwo DEF b, e
<1>4. <<v, w>> \in Seq(Writes)
  BY <1>1, <1>2
<1>5. \A s \in {c, b, e} : s.darray = c.darray /\ s.imap[0] \in {c.imap[0], x}
  BY <1>1, <1>2
<1> QED BY <1>1, <1>2, <1>3, <1>4, <1>5 DEF v, w

LEMMA SmapSuper ==
  ASSUME NEW c \in DiskType, NEW k \in 0 .. SMAP_SECTORS - 1, NEW x \in SUBSET Bits,
         NEW n \in CountsType
  PROVE  LET ws == <<Sdwrite("smap", k, x), Sdwrite("super", 0, n)>>  e == WrittenAll(c, ws)
         IN  /\ ws \in Seq(Quiet) /\ ws \in Seq(Writes) /\ e \in DiskType
             /\ e.imap = c.imap /\ e.super[0] = n /\ e.smap = [c.smap EXCEPT ![k] = x]
             /\ e.iarray = c.iarray /\ e.darray = c.darray
<1> DEFINE v == Sdwrite("smap", k, x)
           w == Sdwrite("super", 0, n)
           b == Written(c, v)
           e == Written(b, w)
<1>1. /\ v \in Writes /\ b \in DiskType
      /\ b.super = c.super /\ b.imap = c.imap /\ b.smap = [c.smap EXCEPT ![k] = x]
      /\ b.iarray = c.iarray /\ b.darray = c.darray
  BY OnSmap
<1> HIDE DEF v, b
<1>2. /\ w \in Writes /\ e \in DiskType
      /\ e.super[0] = n /\ e.imap = b.imap /\ e.smap = b.smap
      /\ e.iarray = b.iarray /\ e.darray = b.darray
  BY <1>1, OnSuper
<1>4. v \in Quiet /\ w \in Quiet
  BY <1>1, <1>2 DEF Quiet, v, Sdwrite
<1> HIDE DEF w, e
<1>3. WrittenAll(c, <<v, w>>) = e
  BY WriteTwo DEF b, e
<1>5. <<v, w>> \in Seq(Writes) /\ <<v, w>> \in Seq(Quiet)
  BY <1>1, <1>2, <1>4
<1> QED BY <1>1, <1>2, <1>3, <1>4, <1>5 DEF v, w

\* A change of imap and of the count of inodes in memory.
SetInodes(m, x, k) == [m EXCEPT !.imap = x, !.super_block.inode_used = k]

LEMMA MemInodes ==
  ASSUME NEW m \in MemType, NEW x \in SUBSET Inos, NEW k \in Int
  PROVE  /\ SetInodes(m, x, k)
              = MemOf(Counts(k, m.super_block.data_used), x, m.smap, m.smap_index,
                      m.current_dir, m.current_dir_pointer)
         /\ MemOf(Counts(k, m.super_block.data_used), x, m.smap, m.smap_index,
                  m.current_dir, m.current_dir_pointer) \in MemType
         /\ m.super_block.inode_used \in Int /\ m.super_block.data_used \in Int
<1> DEFINE a == [m EXCEPT !.imap = x]
           n == [a.super_block EXCEPT !.inode_used = k]
<1>1. SetInodes(m, x, k) = [a EXCEPT !.super_block = n]
  BY DEF SetInodes
<1>2. a = MemOf(m.super_block, x, m.smap, m.smap_index, m.current_dir, m.current_dir_pointer)
  BY DEF MemType, MemOf
<1> HIDE DEF a
<1>3. n = Counts(k, m.super_block.data_used)
  BY <1>2 DEF MemType, MemOf, Counts, CountsType
<1> HIDE DEF n
<1>4. [a EXCEPT !.super_block = n]
        = MemOf(n, x, m.smap, m.smap_index, m.current_dir, m.current_dir_pointer)
  BY <1>2 DEF MemOf
<1>5. m.super_block.inode_used \in Int /\ m.super_block.data_used \in Int
  BY DEF MemType, CountsType
<1>6. MemOf(Counts(k, m.super_block.data_used), x, m.smap, m.smap_index,
            m.current_dir, m.current_dir_pointer) \in MemType
  BY <1>5 DEF MemType, MemOf, Counts, CountsType
<1> QED BY <1>1, <1>3, <1>4, <1>5, <1>6

\* A change of the sector of smap that is in memory and of the count of blocks.
SetBlocks(m, j, x, k) == [m EXCEPT !.smap_index = j, !.smap = x, !.super_block.data_used = k]

LEMMA MemBlocks ==
  ASSUME NEW m \in MemType, NEW j \in 0 .. SMAP_SECTORS, NEW x \in SUBSET Bits, NEW k \in Int
  PROVE  /\ SetBlocks(m, j, x, k)
              = MemOf(Counts(m.super_block.inode_used, k), m.imap, x, j,
                      m.current_dir, m.current_dir_pointer)
         /\ MemOf(Counts(m.super_block.inode_used, k), m.imap, x, j,
                  m.current_dir, m.current_dir_pointer) \in MemType
         /\ m.super_block.inode_used \in Int /\ m.super_block.data_used \in Int
<1> DEFINE z == [m EXCEPT !.smap_index = j]
           a == [z EXCEPT !.smap = x]
           n == [a.super_block EXCEPT !.data_used = k]
<1>1. SetBlocks(m, j, x, k) = [a EXCEPT !.super_block = n]
  BY DEF SetBlocks
<1>2. z = MemOf(m.super_block, m.imap, m.smap, j, m.current_dir, m.current_dir_pointer)
  BY DEF MemType, MemOf
<1> HIDE DEF z
<1>3. a = MemOf(m.super_block, m.imap, x, j, m.current_dir, m.current_dir_pointer)
  BY <1>2 DEF MemOf
<1> HIDE DEF a
<1>4. n = Counts(m.super_block.inode_used, k)
  BY <1>3 DEF MemType, MemOf, Counts, CountsType
<1> HIDE DEF n
<1>5. [a EXCEPT !.super_block = n]
        = MemOf(n, m.imap, x, j, m.current_dir, m.current_dir_pointer)
  BY <1>3 DEF MemOf
<1>6. m.super_block.inode_used \in Int /\ m.super_block.data_used \in Int
  BY DEF MemType, CountsType
<1>7. MemOf(Counts(m.super_block.inode_used, k), m.imap, x, j,
            m.current_dir, m.current_dir_pointer) \in MemType
  BY <1>6 DEF MemType, MemOf, Counts, CountsType
<1> QED BY <1>1, <1>4, <1>5, <1>6, <1>7

\* The copies in memory m are what is on the disk c.
Sync(m, c) ==
  /\ m.super_block = c.super[0] /\ m.imap = c.imap[0]
  /\ m.smap_index < SMAP_SECTORS => m.smap = c.smap[m.smap_index]

SameDir(m, n) ==
  n.current_dir = m.current_dir /\ n.current_dir_pointer = m.current_dir_pointer

LEMMA AllocInode ==
  ASSUME NEW m \in MemType, NEW c \in DiskType, Sync(m, c)
  PROVE  LET a == iarray_alloc(m)  e == WrittenAll(c, a.w)
         IN  \/ a.ret = -1
             \/ /\ a.ret \in Inos \ c.imap[0] /\ a.m \in MemType /\ e \in DiskType /\ a.w \in Seq(Writes)
                /\ Sync(a.m, e) /\ SameDir(m, a.m) /\ a.m.smap = m.smap /\ a.m.smap_index = m.smap_index
                /\ e.imap[0] = c.imap[0] \cup {a.ret}
                /\ e.super[0] = Counts(c.super[0].inode_used + 1, c.super[0].data_used)
                /\ e.smap = c.smap /\ e.iarray = c.iarray /\ e.darray = c.darray
                /\ \A s \in Stages(c, a.w) :
                     s.darray = c.darray /\ s.imap[0] \in {c.imap[0], e.imap[0]}
<1> DEFINE a == iarray_alloc(m)
           i == LowestFree(m.imap, Inos)
           x == m.imap \cup {i}
           k == m.super_block.inode_used + 1
           new == [m EXCEPT !.imap = m.imap \cup {i}, !.super_block.inode_used = m.super_block.inode_used + 1]
           ws == <<Sdwrite("imap", 0, new.imap), Sdwrite("super", 0, new.super_block)>>
<1>1. CASE m.imap = Inos
  BY <1>1 DEF iarray_alloc
<1>2. CASE m.imap # Inos
  <2>1. a = [ret |-> i, m |-> new, w |-> ws]
    BY <1>2 DEF iarray_alloc, WriteSuper
  <2>2. m.imap \in SUBSET Inos /\ Inos \ m.imap # {} /\ Inos \ m.imap \subseteq Nat
    BY <1>2, Consts DEF MemType
  <2>3. i \in Inos \ m.imap
    BY <2>2, MinFacts DEF LowestFree
  <2> HIDE DEF i
  <2>4. x \in SUBSET Inos /\ m.super_block.inode_used \in Int /\ k \in Int
    BY <2>2, <2>3 DEF MemType, CountsType
  <2> HIDE DEF x, k
  <2>5. new = SetInodes(m, x, k)
    BY DEF x, k, SetInodes
  <2> HIDE DEF new
  <2>6. /\ new = MemOf(Counts(k, m.super_block.data_used), x, m.smap, m.smap_index,
                       m.current_dir, m.current_dir_pointer)
        /\ new \in MemType
    BY <2>4, <2>5, MemInodes
  <2>7. /\ new.imap = x /\ new.super_block = Counts(k, m.super_block.data_used)
        /\ new.super_block \in CountsType
        /\ SameDir(m, new) /\ new.smap = m.smap /\ new.smap_index = m.smap_index
    BY <2>6 DEF MemOf, MemType, SameDir
  <2> DEFINE e == WrittenAll(c, ws)
  <2>8. /\ ws \in Seq(Writes) /\ e \in DiskType
        /\ e.imap[0] = x /\ e.super[0] = new.super_block /\ e.smap = c.smap
        /\ e.iarray = c.iarray /\ e.darray = c.darray
        /\ \A s \in Stages(c, ws) : s.darray = c.darray /\ s.imap[0] \in {c.imap[0], x}
    BY <2>4, <2>7, ImapSuper
  <2> HIDE DEF ws, e
  <2>9. a.ret = i /\ a.m = new /\ a.w = ws
    BY <2>1
  <2>10. Sync(new, e)
    BY <2>7, <2>8 DEF Sync
  <2>11. x = c.imap[0] \cup {i} /\ i \in Inos \ c.imap[0]
         /\ Counts(k, m.super_block.data_used) = Counts(c.super[0].inode_used + 1, c.super[0].data_used)
    BY <2>3 DEF x, k, Sync
  <2> QED BY <2>6, <2>7, <2>8, <2>9, <2>10, <2>11 DEF e
<1> QED BY <1>1, <1>2

LEMMA FreeInode ==
  ASSUME NEW m \in MemType, NEW c \in DiskType, Sync(m, c), NEW i \in Inos
  PROVE  LET a == iarray_free(m, i)  e == WrittenAll(c, a.w)
         IN  /\ a.m \in MemType /\ e \in DiskType /\ a.w \in Seq(Writes)
             /\ Sync(a.m, e) /\ SameDir(m, a.m) /\ a.m.smap = m.smap /\ a.m.smap_index = m.smap_index
             /\ e.imap[0] = c.imap[0] \ {i}
             /\ e.super[0] = Counts(c.super[0].inode_used - 1, c.super[0].data_used)
             /\ e.smap = c.smap /\ e.iarray = c.iarray /\ e.darray = c.darray
<1> DEFINE a == iarray_free(m, i)
           x == m.imap \ {i}
           k == m.super_block.inode_used - 1
           new == [m EXCEPT !.imap = m.imap \ {i}, !.super_block.inode_used = m.super_block.inode_used - 1]
           ws == <<Sdwrite("imap", 0, new.imap), Sdwrite("super", 0, new.super_block)>>
<1>1. a = [m |-> new, w |-> ws]
  BY DEF iarray_free, WriteSuper
<1>2. x \in SUBSET Inos /\ m.super_block.inode_used \in Int /\ k \in Int
  BY DEF MemType, CountsType
<1> HIDE DEF x, k
<1>3. new = SetInodes(m, x, k)
  BY DEF x, k, SetInodes
<1> HIDE DEF new
<1>4. /\ new = MemOf(Counts(k, m.super_block.data_used), x, m.smap, m.smap_index,
                     m.current_dir, m.current_dir_pointer)
      /\ new \in MemType
  BY <1>2, <1>3, MemInodes
<1>5. /\ new.imap = x /\ new.super_block = Counts(k, m.super_block.data_used)
      /\ new.super_block \in CountsType
      /\ SameDir(m, new) /\ new.smap = m.smap /\ new.smap_index = m.smap_index
  BY <1>4 DEF MemOf, MemType, SameDir
<1> DEFINE e == WrittenAll(c, ws)
<1>6. /\ ws \in Seq(Writes) /\ e \in DiskType
      /\ e.imap[0] = x /\ e.super[0] = new.super_block /\ e.smap = c.smap
      /\ e.iarray = c.iarray /\ e.darray = c.darray
  BY <1>2, <1>5, ImapSuper
<1> HIDE DEF ws, e
<1>7. a.m = new /\ a.w = ws
  BY <1>1
<1>8. Sync(new, e)
  BY <1>5, <1>6 DEF Sync
<1>9. x = c.imap[0] \ {i}
      /\ Counts(k, m.super_block.data_used) = Counts(c.super[0].inode_used - 1, c.super[0].data_used)
  BY DEF x, k, Sync
<1> QED BY <1>4, <1>5, <1>6, <1>7, <1>8, <1>9 DEF e

BlockNo(k, j) == k * SMAP_BITS + j

\* e has the bit j more, or less, in sector k of smap than c.
SmapMore(c, e, k, j) ==
  /\ e.smap[k] = c.smap[k] \cup {j}
  /\ \A i \in 0 .. SMAP_SECTORS - 1 : i # k => e.smap[i] = c.smap[i]
SmapLess(c, e, k, j) ==
  /\ e.smap[k] = c.smap[k] \ {j}
  /\ \A i \in 0 .. SMAP_SECTORS - 1 : i # k => e.smap[i] = c.smap[i]

LEMMA MarkedAfter ==
  ASSUME NEW c \in DiskType, NEW e \in DiskType, NEW k \in 0 .. SMAP_SECTORS - 1, NEW j \in Bits
  PROVE  /\ SmapMore(c, e, k, j) => Marked(e) = Marked(c) \cup {BlockNo(k, j)}
         /\ SmapLess(c, e, k, j) => Marked(e) = Marked(c) \ {BlockNo(k, j)}
         /\ j \notin c.smap[k] => BlockNo(k, j) \in Blocks \ Marked(c)
<1> DEFINE At(q) == q \div SMAP_BITS
           Bit(q) == q % SMAP_BITS
           p == BlockNo(k, j)
<1>1. p \in Blocks /\ At(p) = k /\ Bit(p) = j
  BY PlaceBlock DEF BlockNo
<1>2. ASSUME NEW q \in Blocks, q # p
      PROVE  At(q) \in 0 .. SMAP_SECTORS - 1 /\ (At(q) = k => Bit(q) # j)
  BY <1>2, BlockPlace DEF BlockNo
<1>4. \A q, d : q \in Marked(d) <=> q \in Blocks /\ Bit(q) \in d.smap[At(q)]
  BY DEF Marked
<1> HIDE DEF At, Bit, p
<1>5. ASSUME SmapMore(c, e, k, j)
      PROVE  Marked(e) = Marked(c) \cup {p}
  <2>2. ASSUME NEW q PROVE q \in Marked(e) <=> q \in Marked(c) \/ q = p
    BY <1>1, <1>2, <1>4, <1>5 DEF SmapMore, SmapLess
  <2> QED BY <2>2
<1>6. ASSUME SmapLess(c, e, k, j)
      PROVE  Marked(e) = Marked(c) \ {p}
  <2>2. ASSUME NEW q PROVE q \in Marked(e) <=> q \in Marked(c) /\ q # p
    BY <1>1, <1>2, <1>4, <1>6 DEF SmapMore, SmapLess
  <2> QED BY <2>2
<1>7. j \notin c.smap[k] => p \in Blocks \ Marked(c)
  BY <1>1, <1>4
<1> QED BY <1>5, <1>6, <1>7 DEF p

LEMMA FreeBlock ==
  ASSUME NEW m \in MemType, NEW c \in DiskType, Sync(m, c), NEW d \in DiskType, d.smap = c.smap,
         NEW p \in Blocks
  PROVE  LET b == darray_free(m, d, p)  e == WrittenAll(c, b.w)
         IN  /\ b.m \in MemType /\ e \in DiskType /\ b.w \in Seq(Writes)
             /\ Sync(b.m, e) /\ SameDir(m, b.m) /\ b.m.imap = m.imap
             /\ e.imap = c.imap /\ e.iarray = c.iarray /\ e.darray = c.darray
             /\ Marked(e) = Marked(c) \ {p}
             /\ e.super[0] = Counts(c.super[0].inode_used, c.super[0].data_used - 1)
<1> DEFINE b == darray_free(m, d, p)
           k == p \div SMAP_BITS
           j == p % SMAP_BITS
           x == d.smap[k] \ {j}
           n == m.super_block.data_used - 1
           new == [m EXCEPT !.smap_index = p \div SMAP_BITS,
                            !.smap = d.smap[p \div SMAP_BITS] \ {p % SMAP_BITS},
                            !.super_block.data_used = m.super_block.data_used - 1]
           ws == <<Sdwrite("smap", k, new.smap), Sdwrite("super", 0, new.super_block)>>
<1>1. b = [m |-> new, w |-> ws]
  BY DEF darray_free, WriteSuper
<1>2. k \in 0 .. SMAP_SECTORS - 1 /\ j \in Bits /\ p = k * SMAP_BITS + j
  BY BlockPlace
<1>3. /\ x \in SUBSET Bits /\ m.super_block.data_used \in Int /\ n \in Int
      /\ k \in 0 .. SMAP_SECTORS /\ k < SMAP_SECTORS
  <2>1. d.smap[k] \in SUBSET Bits
    BY <1>2 DEF DiskType
  <2>2. m.super_block.data_used \in Int
    BY DEF MemType, CountsType
  <2> QED BY <1>2, <2>1, <2>2, Consts
<1> HIDE DEF x, n, k, j
<1>4. new = SetBlocks(m, k, x, n)
  BY DEF x, n, k, j, SetBlocks
<1> HIDE DEF new
<1>5. /\ new = MemOf(Counts(m.super_block.inode_used, n), m.imap, x, k,
                     m.current_dir, m.current_dir_pointer)
      /\ new \in MemType
  BY <1>3, <1>4, MemBlocks
<1>6. /\ new.imap = m.imap /\ new.super_block = Counts(m.super_block.inode_used, n)
      /\ new.super_block \in CountsType
      /\ SameDir(m, new) /\ new.smap = x /\ new.smap_index = k
  BY <1>5 DEF MemOf, MemType, SameDir
<1> DEFINE e == WrittenAll(c, ws)
<1>7. /\ ws \in Seq(Writes) /\ e \in DiskType
      /\ e.imap = c.imap /\ e.super[0] = new.super_block /\ e.smap = [c.smap EXCEPT ![k] = x]
      /\ e.iarray = c.iarray /\ e.darray = c.darray
  BY <1>2, <1>3, <1>6, SmapSuper
<1> HIDE DEF ws, e
<1>8. b.m = new /\ b.w = ws
  BY <1>1
<1>9. c.smap \in [0 .. SMAP_SECTORS - 1 -> SUBSET Bits]
  BY DEF DiskType
<1>10. Sync(new, e)
  BY <1>2, <1>6, <1>7, <1>9 DEF Sync
<1>11. Marked(e) = Marked(c) \ {p}
  <2>1. SmapLess(c, e, k, j)
    BY <1>2, <1>7, <1>9 DEF x, SmapMore, SmapLess
  <2>2. k \in 0 .. SMAP_SECTORS - 1 /\ j \in Bits /\ p = BlockNo(k, j) /\ e \in DiskType
    BY <1>2, <1>7 DEF BlockNo
  <2> QED BY <2>1, <2>2, MarkedAfter
<1>12. Counts(m.super_block.inode_used, n) = Counts(c.super[0].inode_used, c.super[0].data_used - 1)
  BY DEF n, Sync
<1> QED BY <1>5, <1>6, <1>7, <1>8, <1>10, <1>11, <1>12 DEF e

LEMMA AllocBlock ==
  ASSUME NEW m \in MemType, NEW c \in DiskType, Sync(m, c), NEW d \in DiskType,
         \A k \in 0 .. SMAP_SECTORS - 1 : k > m.smap_index => d.smap[k] = c.smap[k]
  PROVE  LET b == darray_alloc(m, d)  e == WrittenAll(c, b.w)
         IN  /\ b.m \in MemType /\ e \in DiskType /\ b.w \in Seq(Quiet)
             /\ Sync(b.m, e) /\ SameDir(m, b.m) /\ b.m.imap = m.imap
             /\ e.imap = c.imap /\ e.iarray = c.iarray /\ e.darray = c.darray
             /\ \A k \in 0 .. SMAP_SECTORS - 1 : k > b.m.smap_index => d.smap[k] = e.smap[k]
             /\ \/ b.ret = -1 /\ b.w = <<>>
                \/ /\ b.ret \in Blocks \ Marked(c) /\ Marked(e) = Marked(c) \cup {b.ret}
                   /\ e.super[0] = Counts(c.super[0].inode_used, c.super[0].data_used + 1)
<1> DEFINE sector(k) == IF k = m.smap_index THEN m.smap ELSE d.smap[k]
           candidates == {k \in m.smap_index .. SMAP_SECTORS - 1 : sector(k) # Bits}
           k == Min(candidates)
           j == LowestFree(sector(k), Bits)
           x == sector(k) \cup {j}
           n == m.super_block.data_used + 1
           b == darray_alloc(m, d)
           new == [m EXCEPT !.smap_index = k, !.smap = sector(k) \cup {j},
                            !.super_block.data_used = m.super_block.data_used + 1]
           ws == <<Sdwrite("smap", k, new.smap), Sdwrite("super", 0, new.super_block)>>
<1>0. /\ m.smap_index \in 0 .. SMAP_SECTORS /\ m.smap \in SUBSET Bits /\ SMAP_SECTORS \in Nat \ {0}
      /\ c.smap \in [0 .. SMAP_SECTORS - 1 -> SUBSET Bits] /\ m.super_block.data_used \in Int
  BY Consts DEF MemType, DiskType, CountsType
<1>1. CASE candidates = {}
  <2>1. b = [ret |-> -1, m |-> PastEnd(m), w |-> <<>>]
    BY <1>1 DEF darray_alloc
  <2> HIDE DEF sector, candidates, k, j, x, n, new, ws
  <2>2. PastEnd(m) = MemOf(m.super_block, m.imap, {}, SMAP_SECTORS, m.current_dir, m.current_dir_pointer)
    <3> DEFINE z == [m EXCEPT !.smap_index = SMAP_SECTORS]
               none == {}
    <3>1. PastEnd(m) = [z EXCEPT !.smap = none]
      BY DEF PastEnd
    <3>2. z = MemOf(m.super_block, m.imap, m.smap, SMAP_SECTORS, m.current_dir, m.current_dir_pointer)
      BY DEF MemType, MemOf
    <3> HIDE DEF z, none
    <3>3. [z EXCEPT !.smap = none]
            = MemOf(m.super_block, m.imap, none, SMAP_SECTORS, m.current_dir, m.current_dir_pointer)
      BY <3>2 DEF MemOf
    <3> QED BY <3>1, <3>3 DEF none
  <2>3. SMAP_SECTORS \in 0 .. SMAP_SECTORS /\ ~ SMAP_SECTORS < SMAP_SECTORS
        /\ \A i \in 0 .. SMAP_SECTORS - 1 : ~ i > SMAP_SECTORS
    BY <1>0
  <2>4. PastEnd(m) \in MemType
    BY <2>2, <2>3 DEF MemOf, MemType
  <2>5. /\ Sync(PastEnd(m), c) /\ SameDir(m, PastEnd(m)) /\ PastEnd(m).imap = m.imap
        /\ PastEnd(m).smap_index = SMAP_SECTORS
    BY <2>2, <2>3 DEF MemOf, Sync, SameDir
  <2>6. <<>> \in Seq(Quiet) /\ WrittenAll(c, <<>>) = c
    BY WriteNone
  <2>7. b.ret = -1 /\ b.m = PastEnd(m) /\ b.w = <<>>
    BY <2>1
  <2> QED BY <2>3, <2>4, <2>5, <2>6, <2>7
<1>2. CASE candidates # {}
  <2>1. b = [ret |-> k * SMAP_BITS + j, m |-> new, w |-> ws]
    BY <1>2 DEF darray_alloc, WriteSuper
  <2>2. k \in candidates
    <3>1. candidates \subseteq Nat
      BY <1>0
    <3> HIDE DEF candidates
    <3> QED BY <1>2, <3>1, MinFacts
  <2> HIDE DEF k
  <2>3. k \in 0 .. SMAP_SECTORS - 1 /\ k >= m.smap_index /\ sector(k) # Bits /\ k < SMAP_SECTORS
        /\ k \in 0 .. SMAP_SECTORS
    BY <1>0, <2>2
  <2>4. sector(k) = c.smap[k]
    BY <1>0, <2>3 DEF Sync
  <2>5. sector(k) \in SUBSET Bits
    BY <1>0, <2>3, <2>4
  <2> HIDE DEF sector, candidates
  <2>6. Bits \ sector(k) # {} /\ Bits \ sector(k) \subseteq Nat
    BY <2>3, <2>5, Consts
  <2>7. j \in Bits /\ j \notin sector(k)
    BY <2>6, MinFacts DEF LowestFree
  <2> HIDE DEF j
  <2>8. x \in SUBSET Bits /\ n \in Int
    BY <1>0, <2>5, <2>7
  <2> HIDE DEF x, n
  <2>9. new = SetBlocks(m, k, x, n)
    BY DEF x, n, SetBlocks
  <2> HIDE DEF new
  <2>10. /\ new = MemOf(Counts(m.super_block.inode_used, n), m.imap, x, k,
                        m.current_dir, m.current_dir_pointer)
         /\ new \in MemType
    BY <2>3, <2>8, <2>9, MemBlocks
  <2>11. /\ new.imap = m.imap /\ new.super_block = Counts(m.super_block.inode_used, n)
         /\ new.super_block \in CountsType
         /\ SameDir(m, new) /\ new.smap = x /\ new.smap_index = k
    BY <2>10 DEF MemOf, MemType, SameDir
  <2> DEFINE e == WrittenAll(c, ws)
  <2>12. /\ ws \in Seq(Quiet) /\ e \in DiskType
         /\ e.imap = c.imap /\ e.super[0] = new.super_block /\ e.smap = [c.smap EXCEPT ![k] = x]
         /\ e.iarray = c.iarray /\ e.darray = c.darray
    BY <2>3, <2>8, <2>11, SmapSuper
  <2> HIDE DEF ws, e
  <2>13. b.m = new /\ b.w = ws /\ b.ret = BlockNo(k, j)
    BY <2>1 DEF BlockNo
  <2> HIDE DEF b
  <2>14. Sync(new, e)
    BY <1>0, <2>3, <2>11, <2>12 DEF Sync
  <2>15. Marked(e) = Marked(c) \cup {BlockNo(k, j)} /\ BlockNo(k, j) \in Blocks \ Marked(c)
    <3>1. SmapMore(c, e, k, j)
      BY <1>0, <2>3, <2>4, <2>12 DEF x, SmapMore, SmapLess
    <3>2. j \notin c.smap[k]
      BY <2>4, <2>7
    <3>3. k \in 0 .. SMAP_SECTORS - 1 /\ j \in Bits /\ e \in DiskType
      BY <2>3, <2>7, <2>12
    <3>4. BlockNo(k, j) \in Blocks \ Marked(c)
      BY <3>2, <3>3, MarkedAfter
    <3>5. Marked(e) = Marked(c) \cup {BlockNo(k, j)}
      BY <3>1, <3>3, MarkedAfter
    <3> QED BY <3>4, <3>5
  <2>16. Counts(m.super_block.inode_used, n)
           = Counts(c.super[0].inode_used, c.super[0].data_used + 1)
    BY DEF n, Sync
  <2>17. \A i \in 0 .. SMAP_SECTORS - 1 : i > k => d.smap[i] = e.smap[i]
    BY <1>0, <2>3, <2>12
  <2> QED BY <2>10, <2>11, <2>12, <2>13, <2>14, <2>15, <2>16, <2>17, ZenonT(30) DEF e, b
<1> QED BY <1>1, <1>2

-----------------------------------------------------------------------------
\* The calls on directories.

ItemType == [valid : 0 .. 1, name : Names \cup {NoName}, ino : Inos]

\* A directory, and a memory with that current directory.
WithItem(dir, i, x) == [fpointer |-> dir.fpointer, map |-> [dir.map EXCEPT ![i] = x]]
WithDir(m, dir) ==
  MemOf(m.super_block, m.imap, m.smap, m.smap_index, dir, m.current_dir_pointer)

LEMMA ItemIn ==
  ASSUME NEW dir \in DirType, NEW i \in Items
  PROVE  /\ dir.map[i] \in ItemType /\ dir.map[i].valid \in 0 .. 1 /\ dir.map[i].ino \in Inos
         /\ dir.fpointer \in Blocks
         /\ \A x \in ItemType :
              /\ WithItem(dir, i, x) \in DirType /\ WithItem(dir, i, x).map[i] = x
              /\ WithItem(dir, i, x).fpointer = dir.fpointer
              /\ \A j \in Items : j # i => WithItem(dir, i, x).map[j] = dir.map[j]
<1>1. dir.map \in [Items -> ItemType] /\ dir.fpointer \in Blocks
  BY DEF DirType, ItemType
<1>2. dir.map[i] \in ItemType /\ dir.map[i].valid \in 0 .. 1 /\ dir.map[i].ino \in Inos
  BY <1>1 DEF ItemType
<1>3. ASSUME NEW x \in ItemType
      PROVE  /\ WithItem(dir, i, x) \in DirType /\ WithItem(dir, i, x).map[i] = x
             /\ WithItem(dir, i, x).fpointer = dir.fpointer
             /\ \A j \in Items : j # i => WithItem(dir, i, x).map[j] = dir.map[j]
  <2> DEFINE f == [dir.map EXCEPT ![i] = x]
  <2>1. f \in [Items -> ItemType] /\ f[i] = x /\ \A j \in Items : j # i => f[j] = dir.map[j]
    BY <1>1
  <2> HIDE DEF f
  <2>2. WithItem(dir, i, x) = [fpointer |-> dir.fpointer, map |-> f]
    BY DEF WithItem, f
  <2> QED BY <1>1, <2>1, <2>2 DEF DirType, ItemType
<1> QED BY <1>1, <1>2, <1>3

LEMMA WithDirFacts ==
  ASSUME NEW m \in MemType, NEW dir \in DirType
  PROVE  LET n == WithDir(m, dir)
         IN  /\ n \in MemType /\ n.current_dir = dir /\ n.current_dir_pointer = m.current_dir_pointer
             /\ n.super_block = m.super_block /\ n.imap = m.imap /\ n.smap = m.smap
             /\ n.smap_index = m.smap_index
             /\ \A c : Sync(m, c) => Sync(n, c)
<1> DEFINE n == WithDir(m, dir)
<1>1. n \in MemType
  BY DEF MemType, WithDir, MemOf
<1>2. /\ n.current_dir = dir /\ n.current_dir_pointer = m.current_dir_pointer
      /\ n.super_block = m.super_block /\ n.imap = m.imap /\ n.smap = m.smap
      /\ n.smap_index = m.smap_index
  BY DEF WithDir, MemOf
<1> QED BY <1>1, <1>2 DEF Sync

\* A change of an item of the current directory in memory.
SetItem(m, i, x) == [m EXCEPT !.current_dir.map[i] = x]
SetValid(m, i, v) == [m EXCEPT !.current_dir.map[i].valid = v]

LEMMA MemItem ==
  ASSUME NEW m \in MemType, NEW i \in Items
  PROVE  /\ \A x \in ItemType : SetItem(m, i, x) = WithDir(m, WithItem(m.current_dir, i, x))
         /\ \A v \in 0 .. 1 : SetValid(m, i, v)
              = WithDir(m, WithItem(m.current_dir, i,
                  [valid |-> v, name |-> m.current_dir.map[i].name, ino |-> m.current_dir.map[i].ino]))
<1> DEFINE dir == m.current_dir
<1>1. ASSUME NEW x PROVE [m EXCEPT !.current_dir = x] = WithDir(m, x)
  BY DEF MemType, WithDir, MemOf
<1>2. dir \in DirType
  BY DEF MemType
<1>3. ASSUME NEW x PROVE [dir EXCEPT !.map[i] = x] = WithItem(dir, i, x)
  <2> DEFINE f == [dir.map EXCEPT ![i] = x]
  <2>1. [dir EXCEPT !.map[i] = x] = [dir EXCEPT !.map = f]
    OBVIOUS
  <2> HIDE DEF f
  <2>2. [dir EXCEPT !.map = f] = [fpointer |-> dir.fpointer, map |-> f]
    BY <1>2 DEF DirType
  <2> QED BY <2>1, <2>2 DEF WithItem, f
<1>4. ASSUME NEW x PROVE SetItem(m, i, x) = WithDir(m, WithItem(dir, i, x))
  <2> DEFINE y == [dir EXCEPT !.map[i] = x]
  <2>1. SetItem(m, i, x) = [m EXCEPT !.current_dir = y]
    BY DEF SetItem
  <2> HIDE DEF y
  <2>2. y = WithItem(dir, i, x)
    BY <1>3 DEF y
  <2> QED BY <1>1, <2>1, <2>2
<1>5. ASSUME NEW v PROVE SetValid(m, i, v) = SetItem(m, i, [valid |-> v, name |-> dir.map[i].name, ino |-> dir.map[i].ino])
  <2> DEFINE y == [dir.map[i] EXCEPT !.valid = v]
  <2>1. SetValid(m, i, v) = [m EXCEPT !.current_dir.map[i] = y]
    BY DEF SetValid
  <2> HIDE DEF y
  <2>2. y = [valid |-> v, name |-> dir.map[i].name, ino |-> dir.map[i].ino]
    BY <1>2, ItemIn DEF y, ItemType
  <2> QED BY <2>1, <2>2 DEF SetItem
<1> QED BY <1>4, <1>5

NewItem(s, ino) == [valid |-> 1, name |-> s, ino |-> ino]

\* The disk f is c with an entry s for the inode ino, which was free, as item i
\* of the current directory of memory m; n is the memory after it.
Entered(m, c, n, f, s, ino, i) ==
  /\ ino \in Inos \ c.imap[0] /\ i \in Items /\ m.current_dir.map[i].valid = 0
  /\ n.current_dir = WithItem(m.current_dir, i, NewItem(s, ino))
  /\ f \in DiskType
  /\ f.imap[0] = c.imap[0] \cup {ino}
  /\ f.super[0] = Counts(c.super[0].inode_used + 1, c.super[0].data_used)
  /\ f.smap = c.smap /\ f.iarray = c.iarray
  /\ IsDir(f, m.current_dir_pointer) /\ ReadDir(f, m.current_dir_pointer) = n.current_dir
  /\ \A q \in Blocks : q # m.current_dir_pointer => f.darray[q] = c.darray[q]

\* The current directory is written.
LEMMA OnCurrentDir ==
  ASSUME NEW m \in MemType, NEW c \in DiskType
  PROVE  LET w == WriteCurrentDir(m)  e == Written(c, w)  p == m.current_dir_pointer
         IN  /\ w \in Writes /\ e \in DiskType /\ p \in Blocks
             /\ e.super = c.super /\ e.imap = c.imap /\ e.smap = c.smap /\ e.iarray = c.iarray
             /\ IsDir(e, p) /\ ReadDir(e, p) = m.current_dir
             /\ \A q \in Blocks : q # p => e.darray[q] = c.darray[q]
<1>1. m.current_dir_pointer \in Blocks /\ m.current_dir \in DirType
  BY DEF MemType
<1> QED BY <1>1, OnDir DEF WriteCurrentDir

LEMMA SyncOf ==
  ASSUME NEW m, NEW c, NEW n, NEW e, Sync(m, c),
         n.super_block = m.super_block, n.imap = m.imap, n.smap = m.smap, n.smap_index = m.smap_index,
         e.super = c.super, e.imap = c.imap, e.smap = c.smap
  PROVE  Sync(n, e)
BY DEF Sync

LEMMA EntryMade ==
  ASSUME NEW m \in MemType, NEW c \in DiskType, Sync(m, c), FreeItems(m) # {}, NEW s \in Names
  PROVE  LET e == MakeEntry(m, s)  f == WrittenAll(c, e.w)
         IN  /\ e.m \in MemType /\ e.w \in Seq(Writes) /\ Sync(e.m, f)
             /\ e.m.current_dir_pointer = m.current_dir_pointer
             /\ e.m.smap = m.smap /\ e.m.smap_index = m.smap_index
             /\ \/ e.ret = -1 /\ e.w = <<>>
                \/ /\ \E i \in Items : Entered(m, c, e.m, f, s, e.ret, i)
                   /\ e.m.imap = m.imap \cup {e.ret}
                   /\ \A t \in Stages(c, e.w) :
                        \/ t = f
                        \/ t.darray = c.darray /\ t.imap[0] \in {c.imap[0], f.imap[0]}
<1> DEFINE i == Min(FreeItems(m))
           x == [valid |-> 1, name |-> m.current_dir.map[i].name, ino |-> m.current_dir.map[i].ino]
           marked == SetValid(m, i, 1)
           a == iarray_alloc(marked)
           y == NewItem(s, a.ret)
           new == SetItem(a.m, i, y)
           ws == Append(a.w, WriteCurrentDir(new))
           e == MakeEntry(m, s)
<1>1. e = IF a.ret = -1 THEN [ret |-> -1, m |-> marked, w |-> <<>>]
          ELSE [ret |-> a.ret, m |-> new, w |-> ws]
  BY DEF MakeEntry, NewEntry, SetValid, SetItem, NewItem
<1>2. i \in Items /\ m.current_dir.map[i].valid = 0
  <2>1. FreeItems(m) \subseteq Nat /\ i \in FreeItems(m)
    BY Consts, MinFacts DEF FreeItems
  <2> QED BY <2>1 DEF FreeItems
<1> HIDE DEF i
<1>3. m.current_dir \in DirType /\ x \in ItemType
  <2>1. m.current_dir \in DirType
    BY DEF MemType
  <2> QED BY <1>2, <2>1, ItemIn DEF ItemType
<1>4. marked = WithDir(m, WithItem(m.current_dir, i, x))
  <2>1. 1 \in 0 .. 1
    OBVIOUS
  <2>2. \A v \in 0 .. 1 : SetValid(m, i, v)
          = WithDir(m, WithItem(m.current_dir, i,
              [valid |-> v, name |-> m.current_dir.map[i].name, ino |-> m.current_dir.map[i].ino]))
    BY <1>2, MemItem
  <2> QED BY <2>1, <2>2, Zenon
<1> HIDE DEF x, marked
<1>5. WithItem(m.current_dir, i, x) \in DirType
  BY <1>2, <1>3, ItemIn
<1>6. /\ marked \in MemType /\ marked.current_dir = WithItem(m.current_dir, i, x)
      /\ marked.current_dir_pointer = m.current_dir_pointer
      /\ marked.imap = m.imap /\ marked.smap = m.smap /\ marked.smap_index = m.smap_index
      /\ Sync(marked, c)
  BY <1>4, <1>5, WithDirFacts
<1> HIDE DEF a
<1>7. CASE a.ret = -1
  <2>1. e.ret = -1 /\ e.m = marked /\ e.w = <<>>
    BY <1>1, <1>7
  <2>2. <<>> \in Seq(Writes) /\ WrittenAll(c, <<>>) = c
    BY WriteNone
  <2> QED BY <1>6, <2>1, <2>2
<1>8. CASE a.ret # -1
  <2> DEFINE b == WrittenAll(c, a.w)
             f == WrittenAll(c, ws)
             p == m.current_dir_pointer
  <2>1. e.ret = a.ret /\ e.m = new /\ e.w = ws
    BY <1>1, <1>8
  <2>2. /\ a.ret \in Inos \ c.imap[0] /\ a.m \in MemType /\ b \in DiskType /\ a.w \in Seq(Writes)
        /\ Sync(a.m, b) /\ SameDir(marked, a.m) /\ a.m.smap = marked.smap
        /\ a.m.smap_index = marked.smap_index
        /\ b.imap[0] = c.imap[0] \cup {a.ret}
        /\ b.super[0] = Counts(c.super[0].inode_used + 1, c.super[0].data_used)
        /\ b.smap = c.smap /\ b.iarray = c.iarray /\ b.darray = c.darray
        /\ \A t \in Stages(c, a.w) : t.darray = c.darray /\ t.imap[0] \in {c.imap[0], b.imap[0]}
    BY <1>6, <1>8, AllocInode DEF a
  <2> HIDE DEF b
  <2>3. y \in ItemType
    BY <2>2 DEF NewItem, ItemType
  <2>4. new = WithDir(a.m, WithItem(a.m.current_dir, i, y))
    BY <1>2, <2>2, <2>3, MemItem, ZenonT(30)
  <2> HIDE DEF y
  <2>5. WithItem(a.m.current_dir, i, y) = WithItem(m.current_dir, i, y)
    <3>1. a.m.current_dir = WithItem(m.current_dir, i, x)
      BY <1>6, <2>2 DEF SameDir
    <3>2. [[m.current_dir.map EXCEPT ![i] = x] EXCEPT ![i] = y] = [m.current_dir.map EXCEPT ![i] = y]
      OBVIOUS
    <3> QED BY <3>1, <3>2 DEF WithItem
  <2>6. WithItem(m.current_dir, i, y) \in DirType
    BY <1>2, <1>3, <2>3, ItemIn
  <2> HIDE DEF new
  <2>7. /\ new \in MemType /\ new.current_dir = WithItem(m.current_dir, i, y)
        /\ new.current_dir_pointer = m.current_dir_pointer
        /\ new.super_block = a.m.super_block
        /\ new.imap = a.m.imap /\ new.smap = a.m.smap /\ new.smap_index = a.m.smap_index
    BY <1>6, <2>2, <2>4, <2>5, <2>6, WithDirFacts DEF SameDir
  <2> DEFINE w == WriteCurrentDir(new)
             h == Written(b, w)
  <2>8. /\ w \in Writes /\ h \in DiskType /\ p \in Blocks
        /\ h.super = b.super /\ h.imap = b.imap /\ h.smap = b.smap /\ h.iarray = b.iarray
        /\ IsDir(h, p) /\ ReadDir(h, p) = new.current_dir
        /\ \A q \in Blocks : q # p => h.darray[q] = b.darray[q]
    <3>1. new \in MemType /\ b \in DiskType /\ p = new.current_dir_pointer
      BY <2>2, <2>7
    <3> HIDE DEF p, ws, f
    <3> QED BY <3>1, OnCurrentDir
  <2> HIDE DEF w, h
  <2>9. f = h /\ ws \in Seq(Writes) /\ Stages(c, ws) \subseteq Stages(c, a.w) \cup {h}
    <3>1. ws = Append(a.w, w)
      BY DEF w
    <3>2. f = Written(b, w) /\ Stages(c, ws) \subseteq Stages(c, a.w) \cup {Written(b, w)}
      <4>1. a.w \in Seq(Writes) /\ w \in Writes
        BY <2>2, <2>8
      <4>2. OneMore(ws, a.w, w)
        BY <3>1 DEF OneMore
      <4> HIDE DEF p, ws
      <4> QED BY <4>1, <4>2, WriteMore DEF b
    <3> QED BY <2>2, <2>8, <3>1, <3>2 DEF h
  <2> HIDE DEF ws, f
  <2>10. Sync(new, f)
    BY <2>2, <2>7, <2>8, <2>9, SyncOf
  <2>11. Entered(m, c, new, f, s, a.ret, i)
    BY <1>2, <2>2, <2>7, <2>8, <2>9 DEF Entered, y
  <2>12. \A t \in Stages(c, ws) :
           t = f \/ (t.darray = c.darray /\ t.imap[0] \in {c.imap[0], f.imap[0]})
    BY <2>2, <2>8, <2>9
  <2>13. new.imap = m.imap \cup {a.ret}
    BY <2>2, <2>7 DEF Sync
  <2>14. new.smap = m.smap /\ new.smap_index = m.smap_index
    BY <1>6, <2>2, <2>7
  <2> QED BY <1>2, <2>1, <2>7, <2>9, <2>10, <2>11, <2>12, <2>13, <2>14 DEF f
<1> QED BY <1>7, <1>8

\* The inodes that mkdir and touch make.
InodeOf(t, n, a, ps) == [type |-> t, size |-> n, size_allocated |-> a, pointers |-> ps]
DirInode(x, p) ==
  [x EXCEPT !.type = "dir", !.size = SECTOR_SIZE, !.size_allocated = SECTOR_SIZE, !.pointers[0] = p]
FileInode(x) == [x EXCEPT !.type = "normal", !.size = 0, !.size_allocated = 0]

LEMMA NewInodes ==
  ASSUME NEW x \in InodeType
  PROVE  /\ \A p \in Blocks :
              /\ DirInode(x, p) \in InodeType /\ DirInode(x, p).type = "dir"
              /\ DirInode(x, p).size_allocated = SECTOR_SIZE /\ DirInode(x, p).pointers[0] = p
         /\ FileInode(x) \in InodeType /\ FileInode(x).type = "normal"
         /\ FileInode(x).size = 0 /\ FileInode(x).size_allocated = 0
<1>0. x.pointers \in [0 .. NPOINTERS - 1 -> Blocks \cup {Wild}] /\ 0 \in 0 .. NPOINTERS - 1
      /\ SECTOR_SIZE \in Nat
  BY Consts DEF InodeType
<1>1. ASSUME NEW p \in Blocks
      PROVE  /\ DirInode(x, p) \in InodeType /\ DirInode(x, p).type = "dir"
             /\ DirInode(x, p).size_allocated = SECTOR_SIZE /\ DirInode(x, p).pointers[0] = p
  <2> DEFINE a == [x EXCEPT !.type = "dir"]
             b == [a EXCEPT !.size = SECTOR_SIZE]
             c == [b EXCEPT !.size_allocated = SECTOR_SIZE]
             ps == [c.pointers EXCEPT ![0] = p]
  <2>1. DirInode(x, p) = [c EXCEPT !.pointers = ps]
    BY DEF DirInode
  <2>2. a = InodeOf("dir", x.size, x.size_allocated, x.pointers)
    BY DEF InodeType, InodeOf
  <2> HIDE DEF a
  <2>3. b = InodeOf("dir", SECTOR_SIZE, x.size_allocated, x.pointers)
    BY <2>2 DEF InodeOf
  <2> HIDE DEF b
  <2>4. c = InodeOf("dir", SECTOR_SIZE, SECTOR_SIZE, x.pointers)
    BY <2>3 DEF InodeOf
  <2> HIDE DEF c
  <2>5. c.pointers = x.pointers
    BY <2>4 DEF InodeOf
  <2>6. ps \in [0 .. NPOINTERS - 1 -> Blocks \cup {Wild}] /\ ps[0] = p
    BY <1>0, <2>5
  <2> HIDE DEF ps
  <2>7. DirInode(x, p) = InodeOf("dir", SECTOR_SIZE, SECTOR_SIZE, ps)
    BY <2>1, <2>4 DEF InodeOf
  <2> QED BY <1>0, <2>6, <2>7 DEF InodeOf, InodeType
<1>2. FileInode(x) \in InodeType /\ FileInode(x).type = "normal"
      /\ FileInode(x).size = 0 /\ FileInode(x).size_allocated = 0
  <2> DEFINE a == [x EXCEPT !.type = "normal"]
             b == [a EXCEPT !.size = 0]
  <2>1. FileInode(x) = [b EXCEPT !.size_allocated = 0]
    BY DEF FileInode
  <2>2. a = InodeOf("normal", x.size, x.size_allocated, x.pointers)
    BY DEF InodeType, InodeOf
  <2> HIDE DEF a
  <2>3. b = InodeOf("normal", 0, x.size_allocated, x.pointers)
    BY <2>2 DEF InodeOf
  <2> HIDE DEF b
  <2>4. FileInode(x) = InodeOf("normal", 0, 0, x.pointers)
    BY <2>1, <2>3 DEF InodeOf
  <2> QED BY <1>0, <2>4 DEF InodeOf, InodeType
<1> QED BY <1>1, <1>2

\* No inode but ino changes.
OtherInodes(h, f, ino) == \A j \in Inos : j # ino => Inode(f, j) = Inode(h, j)

\* The disk f is h with an empty directory as the inode ino in block p, whose
\* father is the directory in block q.
DirMade(h, f, ino, p, q) ==
  /\ p \in Blocks \ Marked(h) /\ Marked(f) = Marked(h) \cup {p}
  /\ f.imap = h.imap /\ f.super[0] = Counts(h.super[0].inode_used, h.super[0].data_used + 1)
  /\ Inode(f, ino).type = "dir" /\ Inode(f, ino).size_allocated = SECTOR_SIZE
  /\ Inode(f, ino).pointers[0] = p /\ OtherInodes(h, f, ino)
  /\ IsDir(f, p) /\ ReadDir(f, p) = EmptyDir(q)
  /\ \A b \in Blocks : b # p => f.darray[b] = h.darray[b]

\* The same for an empty file.
FileMade(h, f, ino) ==
  /\ f.smap = h.smap /\ f.imap = h.imap /\ f.super = h.super
  /\ Inode(f, ino).type = "normal" /\ Inode(f, ino).size = 0 /\ Inode(f, ino).size_allocated = 0
  /\ OtherInodes(h, f, ino) /\ f.darray = h.darray

\* The disks after each of the writes.
EntryStages(c, h, T) ==
  \A t \in T : \/ t.darray = c.darray /\ t.imap[0] \in {c.imap[0], h.imap[0]}
               \/ Fewer(h, t)

\* The part of mkdir that follows the entry.
DirWrites(c, ino, p, q) ==
  <<WriteInode(c, ino, DirInode(Inode(c, ino), p)), Sdwrite("darray", p, DirSector(EmptyDir(q)))>>

LEMMA DirWritten ==
  ASSUME NEW c \in DiskType, NEW k \in DiskType, k.iarray = c.iarray,
         NEW ino \in Inos, NEW p \in Blocks, NEW q \in Blocks
  PROVE  LET two == DirWrites(c, ino, p, q)  f == WrittenAll(k, two)
         IN  /\ two \in Seq(Quiet) /\ f \in DiskType
             /\ f.super = k.super /\ f.imap = k.imap /\ f.smap = k.smap
             /\ Inode(f, ino).type = "dir" /\ Inode(f, ino).size_allocated = SECTOR_SIZE
             /\ Inode(f, ino).pointers[0] = p /\ OtherInodes(k, f, ino)
             /\ IsDir(f, p) /\ ReadDir(f, p) = EmptyDir(q)
             /\ \A b \in Blocks : b # p => f.darray[b] = k.darray[b]
<1> DEFINE inode == DirInode(Inode(c, ino), p)
           v == WriteInode(c, ino, inode)
           w == Sdwrite("darray", p, DirSector(EmptyDir(q)))
           b == Written(k, v)
           f == Written(b, w)
<1>1. /\ inode \in InodeType /\ inode.type = "dir" /\ inode.size_allocated = SECTOR_SIZE
      /\ inode.pointers[0] = p
  BY InodeIn, NewInodes
<1> HIDE DEF inode
<1>2. /\ v \in Writes /\ b \in DiskType
      /\ b.super = k.super /\ b.imap = k.imap /\ b.smap = k.smap /\ b.darray = k.darray
      /\ Inode(b, ino) = inode /\ \A j \in Inos : j # ino => Inode(b, j) = Inode(k, j)
  BY <1>1, OnInode
<1>3. v.area = "iarray"
  BY DEF WriteInode, Sdwrite
<1> HIDE DEF v, b
<1>4. EmptyDir(q) \in DirType /\ \A j \in Items : EmptyDir(q).map[j].valid = 0
  BY EmptyDirType
<1>5. /\ w \in Writes /\ f \in DiskType
      /\ f.super = b.super /\ f.imap = b.imap /\ f.smap = b.smap /\ f.iarray = b.iarray
      /\ IsDir(f, p) /\ ReadDir(f, p) = EmptyDir(q)
      /\ \A x \in Blocks : x # p => f.darray[x] = b.darray[x]
  BY <1>2, <1>4, OnDir
<1>6. w.area = "darray" /\ NoItems(w.data)
  BY <1>4 DEF Sdwrite, DirSector, NoItems
<1> HIDE DEF w, f
<1>7. v \in Quiet /\ w \in Quiet
  BY <1>2, <1>3, <1>5, <1>6 DEF Quiet
<1>8. <<v, w>> \in Seq(Quiet) /\ DirWrites(c, ino, p, q) = <<v, w>>
  BY <1>7 DEF DirWrites, v, w, inode
<1>9. WrittenAll(k, <<v, w>>) = f
  BY WriteTwo DEF b, f
<1>10. \A j \in Inos : Inode(f, j) = Inode(b, j)
  BY <1>5 DEF Inode
<1>11. OtherInodes(k, f, ino)
  BY <1>2, <1>10 DEF OtherInodes
<1> QED BY <1>1, <1>2, <1>5, <1>8, <1>9, <1>10, <1>11

LEMMA DirAdded ==
  ASSUME NEW n \in MemType, NEW h \in DiskType, Sync(n, h), NEW c \in DiskType,
         h.smap = c.smap, h.iarray = c.iarray, NEW ino \in Inos, NEW q \in Blocks,
         darray_alloc(n, c).ret # -1
  PROVE  LET b == darray_alloc(n, c)  k == WrittenAll(h, b.w)
             two == DirWrites(c, ino, b.ret, q)  f == WrittenAll(k, two)
         IN  /\ b.w \in Seq(Quiet) /\ two \in Seq(Quiet) /\ f \in DiskType /\ b.m \in MemType
             /\ Sync(b.m, f) /\ SameDir(n, b.m) /\ b.m.imap = n.imap
             /\ DirMade(h, f, ino, b.ret, q)
             /\ \A t \in Stages(h, b.w) \cup Stages(k, two) : Fewer(h, t)
<1> DEFINE b == darray_alloc(n, c)
           k == WrittenAll(h, b.w)
           two == DirWrites(c, ino, b.ret, q)
           f == WrittenAll(k, two)
<1>1. /\ b.m \in MemType /\ k \in DiskType /\ b.w \in Seq(Quiet)
      /\ Sync(b.m, k) /\ SameDir(n, b.m) /\ b.m.imap = n.imap
      /\ k.imap = h.imap /\ k.iarray = h.iarray /\ k.darray = h.darray
      /\ b.ret \in Blocks \ Marked(h) /\ Marked(k) = Marked(h) \cup {b.ret}
      /\ k.super[0] = Counts(h.super[0].inode_used, h.super[0].data_used + 1)
  BY AllocBlock
<1>2. \A t \in Stages(h, b.w) : Fewer(h, t) /\ Fewer(h, k)
  BY <1>1, QuietStages
<1> HIDE DEF k
<1>3. /\ two \in Seq(Quiet) /\ f \in DiskType
      /\ f.super = k.super /\ f.imap = k.imap /\ f.smap = k.smap
      /\ Inode(f, ino).type = "dir" /\ Inode(f, ino).size_allocated = SECTOR_SIZE
      /\ Inode(f, ino).pointers[0] = b.ret /\ OtherInodes(k, f, ino)
      /\ IsDir(f, b.ret) /\ ReadDir(f, b.ret) = EmptyDir(q)
      /\ \A x \in Blocks : x # b.ret => f.darray[x] = k.darray[x]
  <2>1. b.ret \in Blocks /\ k \in DiskType /\ k.iarray = c.iarray
    BY <1>1
  <2>2. ASSUME NEW p \in Blocks
        PROVE  LET ws == DirWrites(c, ino, p, q)  e == WrittenAll(k, ws)
               IN  /\ ws \in Seq(Quiet) /\ e \in DiskType
                   /\ e.super = k.super /\ e.imap = k.imap /\ e.smap = k.smap
                   /\ Inode(e, ino).type = "dir" /\ Inode(e, ino).size_allocated = SECTOR_SIZE
                   /\ Inode(e, ino).pointers[0] = p /\ OtherInodes(k, e, ino)
                   /\ IsDir(e, p) /\ ReadDir(e, p) = EmptyDir(q)
                   /\ \A x \in Blocks : x # p => e.darray[x] = k.darray[x]
    BY <2>1, DirWritten
  <2> HIDE DEF b
  <2> QED BY <2>1, <2>2
<1> HIDE DEF two, b
<1>4. \A t \in Stages(k, two) : Fewer(k, t)
  BY <1>1, <1>3, QuietStages
<1>5. Fewer(h, k)
  BY <1>1 DEF Fewer
<1>6. \A t \in Stages(h, b.w) \cup Stages(k, two) : Fewer(h, t)
  BY <1>2, <1>4, <1>5, FewerTwice
<1> HIDE DEF f
<1>7. Sync(b.m, f)
  BY <1>1, <1>3, SyncOf
<1>8. OtherInodes(h, f, ino)
  BY <1>1, <1>3 DEF OtherInodes, Inode
<1>9. Marked(f) = Marked(k)
  BY <1>3 DEF Marked
<1>10. DirMade(h, f, ino, b.ret, q)
  BY <1>1, <1>3, <1>8, <1>9 DEF DirMade
<1> QED BY <1>1, <1>3, <1>6, <1>7, <1>10 DEF b, k, two, f

\* What a call that makes an entry does: r is its result, f the disk after it.
Makes(m, c, r, f, s, h, i, ino) ==
  /\ Entered(m, c, r.m, h, s, ino, i) /\ r.m.imap = m.imap \cup {ino}
  /\ Fewer(h, f) /\ EntryStages(c, h, Stages(c, r.w))

LEMMA SeqWrites ==
  ASSUME NEW ws \in Seq(Quiet)
  PROVE  ws \in Seq(Writes)
<1>1. Quiet \subseteq Writes
  BY DEF Quiet
<1> QED BY <1>1

LEMMA MkdirDone ==
  ASSUME NEW m \in MemType, NEW c \in DiskType, Sync(m, c), NEW s \in Names
  PROVE  LET r == mkdir(m, c, s)  f == WrittenAll(c, r.w)  q == m.current_dir_pointer
         IN  /\ r.m \in MemType /\ r.w \in Seq(Writes) /\ f \in DiskType /\ Sync(r.m, f)
             /\ r.m.current_dir_pointer = q
             /\ \/ r.events = {} /\ r.m = m /\ r.w = <<>> /\ f = c
                \/ r.events = {"no_inode"} /\ r.w = <<>> /\ f = c
                \/ \E h, i, ino :
                     /\ Makes(m, c, r, f, s, h, i, ino)
                     /\ \/ r.events = {"no_block"}
                        \/ r.events = {} /\ \E p \in Blocks : DirMade(h, f, ino, p, q)
<1> DEFINE e == MakeEntry(m, s)
           b == darray_alloc(e.m, c)
           q == m.current_dir_pointer
           two == DirWrites(c, e.ret, b.ret, q)
           r == mkdir(m, c, s)
           h == WrittenAll(c, e.w)
<1>1. r = IF Refuses(m, s) THEN [m |-> m, w |-> <<>>, events |-> {}]
          ELSE IF e.ret = -1 THEN [m |-> e.m, w |-> <<>>, events |-> {"no_inode"}]
          ELSE IF b.ret = -1 THEN [m |-> b.m, w |-> e.w, events |-> {"no_block"}]
          ELSE [m |-> b.m, events |-> {}, w |-> (e.w \o b.w) \o two]
  BY DEF mkdir, Refused, DirWrites, DirInode
<1>2. <<>> \in Seq(Writes) /\ WrittenAll(c, <<>>) = c
  BY WriteNone
<1>3. CASE Refuses(m, s)
  <2>1. r.m = m /\ r.w = <<>> /\ r.events = {}
    BY <1>1, <1>3
  <2> QED BY <1>2, <2>1
<1>4. CASE ~ Refuses(m, s)
  <2>1. FreeItems(m) # {}
    BY <1>4 DEF Refuses
  <2>2. /\ e.m \in MemType /\ e.w \in Seq(Writes) /\ Sync(e.m, h)
        /\ e.m.current_dir_pointer = q /\ e.m.smap = m.smap /\ e.m.smap_index = m.smap_index
        /\ \/ e.ret = -1 /\ e.w = <<>>
           \/ /\ \E i \in Items : Entered(m, c, e.m, h, s, e.ret, i)
              /\ e.m.imap = m.imap \cup {e.ret}
              /\ \A t \in Stages(c, e.w) :
                   \/ t = h
                   \/ t.darray = c.darray /\ t.imap[0] \in {c.imap[0], h.imap[0]}
    BY <2>1, EntryMade
  <2> HIDE DEF e
  <2>3. CASE e.ret = -1
    <3>0. ~ \E i \in Items : Entered(m, c, e.m, h, s, e.ret, i)
      BY <2>3, Consts DEF Entered
    <3>1. r.m = e.m /\ r.w = <<>> /\ r.events = {"no_inode"} /\ e.w = <<>>
      BY <1>1, <1>4, <2>2, <2>3, <3>0
    <3> QED BY <1>2, <2>2, <3>1
  <2>4. CASE e.ret # -1
    <3>1. PICK i \in Items : Entered(m, c, e.m, h, s, e.ret, i)
      BY <2>2, <2>4
    <3>2. /\ h \in DiskType /\ h.smap = c.smap /\ h.iarray = c.iarray /\ e.ret \in Inos
          /\ q \in Blocks /\ h.imap[0] = c.imap[0] \cup {e.ret}
      BY <3>1 DEF Entered, MemType
    <3>3. \A t \in Stages(c, e.w) :
            t = h \/ (t.darray = c.darray /\ t.imap[0] \in {c.imap[0], h.imap[0]})
      BY <2>2, <2>4
    <3>4. Fewer(h, h)
      BY DEF Fewer
    <3>5. CASE b.ret = -1
      <4>1. r.m = b.m /\ r.w = e.w /\ r.events = {"no_block"}
        BY <1>1, <1>4, <2>4, <3>5
      <4>2. /\ b.m \in MemType /\ SameDir(e.m, b.m) /\ b.m.imap = e.m.imap
            /\ Sync(b.m, WrittenAll(h, b.w))
            /\ (b.w = <<>> \/ b.ret \in Blocks)
        BY <2>2, <3>2, AllocBlock
      <4>3. b.w = <<>>
        BY <3>5, <4>2, Consts
      <4>4. Sync(b.m, h)
        BY <4>2, <4>3, WriteNone
      <4> HIDE DEF b, h, r
      <4>5. EntryStages(c, h, Stages(c, r.w))
        BY <3>3, <3>4, <4>1 DEF EntryStages
      <4>6. Makes(m, c, r, h, s, h, i, e.ret)
        BY <2>2, <2>4, <3>1, <3>4, <4>1, <4>2, <4>5 DEF Makes, Entered, SameDir
      <4>7. r.m.current_dir_pointer = q
        BY <2>2, <4>1, <4>2 DEF SameDir
      <4>8. WrittenAll(c, r.w) = h
        BY <4>1 DEF h
      <4> QED BY <2>2, <3>2, <4>1, <4>2, <4>4, <4>6, <4>7, <4>8 DEF r, q
    <3>6. CASE b.ret # -1
      <4> DEFINE k == WrittenAll(h, b.w)
                 f == WrittenAll(k, two)
                 v == e.w \o b.w
                 u == v \o two
      <4>1. r.m = b.m /\ r.w = u /\ r.events = {}
        <5>1. r = [m |-> b.m, events |-> {}, w |-> u]
          BY <1>1, <1>4, <2>4, <3>6, Zenon
        <5> HIDE DEF u, v, r, b, two, k, f
        <5> QED BY <5>1
      <4>2. /\ b.w \in Seq(Quiet) /\ two \in Seq(Quiet) /\ f \in DiskType /\ b.m \in MemType
            /\ Sync(b.m, f) /\ SameDir(e.m, b.m) /\ b.m.imap = e.m.imap
            /\ DirMade(h, f, e.ret, b.ret, q)
            /\ \A t \in Stages(h, b.w) \cup Stages(k, two) : Fewer(h, t)
        BY <2>2, <3>2, <3>6, DirAdded
      <4> HIDE DEF two, b, h
      <4>3. e.w \in Seq(Writes) /\ b.w \in Seq(Writes) /\ two \in Seq(Writes)
        BY <2>2, <4>2, SeqWrites
      <4>4. /\ v \in Seq(Writes) /\ WrittenAll(c, v) = k
            /\ Stages(c, v) \subseteq Stages(c, e.w) \cup Stages(h, b.w)
        <5>1. v \in Seq(Writes)
          BY <4>3
        <5> QED BY <4>3, <5>1, WriteConcat DEF h
      <4> HIDE DEF v
      <4>5. /\ u \in Seq(Writes) /\ WrittenAll(c, u) = WrittenAll(WrittenAll(c, v), two)
            /\ Stages(c, u) \subseteq Stages(c, v) \cup Stages(WrittenAll(c, v), two)
        <5>1. u \in Seq(Writes)
          BY <4>3, <4>4
        <5> QED BY <4>3, <4>4, <5>1, WriteConcat
      <4>6. /\ WrittenAll(c, u) = f
            /\ Stages(c, u) \subseteq Stages(c, e.w) \cup (Stages(h, b.w) \cup Stages(k, two))
        BY <4>4, <4>5
      <4> HIDE DEF u, k, r
      <4>7. EntryStages(c, h, Stages(c, r.w))
        BY <3>3, <3>4, <4>1, <4>2, <4>6 DEF EntryStages
      <4>8. Fewer(h, f)
        <5>1. f \in Stages(k, two)
          BY <4>2 DEF WrittenAll, Stages
        <5> QED BY <4>2, <5>1
      <4>9. Makes(m, c, r, f, s, h, i, e.ret)
        BY <2>2, <2>4, <3>1, <4>1, <4>2, <4>7, <4>8 DEF Makes, Entered, SameDir
      <4>10. r.m.current_dir_pointer = q
        BY <2>2, <4>1, <4>2 DEF SameDir
      <4>11. b.ret \in Blocks
        BY <4>2 DEF DirMade
      <4> QED BY <4>1, <4>2, <4>5, <4>6, <4>9, <4>10, <4>11 DEF r, q
    <3> QED BY <3>5, <3>6
  <2> QED BY <2>3, <2>4
<1> QED BY <1>3, <1>4

LEMMA TouchDone ==
  ASSUME NEW m \in MemType, NEW c \in DiskType, Sync(m, c), NEW s \in Names
  PROVE  LET r == touch(m, c, s)  f == WrittenAll(c, r.w)
         IN  /\ r.m \in MemType /\ r.w \in Seq(Writes) /\ f \in DiskType /\ Sync(r.m, f)
             /\ r.m.current_dir_pointer = m.current_dir_pointer
             /\ \/ r.events = {} /\ r.m = m /\ r.w = <<>> /\ f = c
                \/ r.events = {"no_inode"} /\ r.w = <<>> /\ f = c
                \/ \E h, i, ino :
                     Makes(m, c, r, f, s, h, i, ino) /\ r.events = {} /\ FileMade(h, f, ino)
<1> DEFINE e == MakeEntry(m, s)
           q == m.current_dir_pointer
           inode == FileInode(Inode(c, e.ret))
           w == WriteInode(c, e.ret, inode)
           u == Append(e.w, w)
           r == touch(m, c, s)
           h == WrittenAll(c, e.w)
<1>1. r = IF Refuses(m, s) THEN [m |-> m, w |-> <<>>, events |-> {}]
          ELSE IF e.ret = -1 THEN [m |-> e.m, w |-> <<>>, events |-> {"no_inode"}]
          ELSE [m |-> e.m, w |-> u, events |-> {}]
  BY Zenon DEF touch, Refused, FileInode
<1>2. <<>> \in Seq(Writes) /\ WrittenAll(c, <<>>) = c
  BY WriteNone
<1> HIDE DEF u
<1>3. CASE Refuses(m, s)
  <2>1. r.m = m /\ r.w = <<>> /\ r.events = {}
    BY <1>1, <1>3
  <2> QED BY <1>2, <2>1
<1>4. CASE ~ Refuses(m, s)
  <2>1. FreeItems(m) # {}
    BY <1>4 DEF Refuses
  <2>2. /\ e.m \in MemType /\ e.w \in Seq(Writes) /\ Sync(e.m, h)
        /\ e.m.current_dir_pointer = q
        /\ \/ e.ret = -1 /\ e.w = <<>>
           \/ /\ \E i \in Items : Entered(m, c, e.m, h, s, e.ret, i)
              /\ e.m.imap = m.imap \cup {e.ret}
              /\ \A t \in Stages(c, e.w) :
                   \/ t = h
                   \/ t.darray = c.darray /\ t.imap[0] \in {c.imap[0], h.imap[0]}
    BY <2>1, EntryMade
  <2> HIDE DEF e
  <2>3. CASE e.ret = -1
    <3>0. ~ \E i \in Items : Entered(m, c, e.m, h, s, e.ret, i)
      BY <2>3, Consts DEF Entered
    <3>1. r.m = e.m /\ r.w = <<>> /\ r.events = {"no_inode"} /\ e.w = <<>>
      BY <1>1, <1>4, <2>2, <2>3, <3>0
    <3> QED BY <1>2, <2>2, <3>1
  <2>4. CASE e.ret # -1
    <3>1. PICK i \in Items : Entered(m, c, e.m, h, s, e.ret, i)
      BY <2>2, <2>4
    <3>2. h \in DiskType /\ h.iarray = c.iarray /\ e.ret \in Inos
      BY <3>1 DEF Entered
    <3>3. \A t \in Stages(c, e.w) :
            t = h \/ (t.darray = c.darray /\ t.imap[0] \in {c.imap[0], h.imap[0]})
      BY <2>2, <2>4
    <3> DEFINE f == Written(h, w)
    <3>4. r.m = e.m /\ r.w = u /\ r.events = {}
      BY <1>1, <1>4, <2>4
    <3>5. /\ inode \in InodeType /\ inode.type = "normal" /\ inode.size = 0
          /\ inode.size_allocated = 0
      BY <3>2, InodeIn, NewInodes
    <3> HIDE DEF inode
    <3>6. /\ w \in Writes /\ f \in DiskType
          /\ f.super = h.super /\ f.imap = h.imap /\ f.smap = h.smap /\ f.darray = h.darray
          /\ Inode(f, e.ret) = inode /\ \A j \in Inos : j # e.ret => Inode(f, j) = Inode(h, j)
      BY <3>2, <3>5, OnInode
    <3> HIDE DEF w
    <3>7. /\ u \in Seq(Writes) /\ WrittenAll(c, u) = f
          /\ Stages(c, u) \subseteq Stages(c, e.w) \cup {f}
      <4>1. OneMore(u, e.w, w)
        BY DEF u, OneMore
      <4> QED BY <2>2, <3>6, <4>1, WriteMore DEF f, h
    <3> HIDE DEF f, h, r
    <3>8. Fewer(h, f) /\ Fewer(h, h)
      BY <3>6 DEF Fewer
    <3>9. EntryStages(c, h, Stages(c, r.w))
      BY <3>3, <3>4, <3>7, <3>8 DEF EntryStages
    <3>10. Makes(m, c, r, f, s, h, i, e.ret)
      BY <2>2, <2>4, <3>1, <3>4, <3>8, <3>9 DEF Makes
    <3>11. FileMade(h, f, e.ret)
      BY <3>5, <3>6 DEF FileMade, OtherInodes
    <3>12. Sync(r.m, f)
      BY <2>2, <3>4, <3>6, SyncOf
    <3> QED BY <2>2, <3>4, <3>6, <3>7, <3>10, <3>11, <3>12 DEF r, q
  <2> QED BY <2>3, <2>4
<1> QED BY <1>3, <1>4

\* The disk f is c without the empty directory of inode ino, which was in the
\* block p and item i of the current directory.
DirGone(m, c, r, f, s, i, ino, p) ==
  /\ i \in Items /\ m.current_dir.map[i].valid = 1 /\ m.current_dir.map[i].name = s
  /\ ino = m.current_dir.map[i].ino /\ Inode(c, ino).type = "dir" /\ p = Inode(c, ino).pointers[0]
  /\ IsDir(c, p) /\ ~ NotEmpty(ReadDir(c, p))
  /\ r.m.current_dir = WithItem(m.current_dir, i,
                         [valid |-> 0, name |-> m.current_dir.map[i].name, ino |-> ino])
  /\ f.imap[0] = c.imap[0] \ {ino} /\ Marked(f) = Marked(c) \ {p} /\ f.iarray = c.iarray
  /\ f.super[0] = Counts(c.super[0].inode_used - 1, c.super[0].data_used - 1)
  /\ IsDir(f, m.current_dir_pointer) /\ ReadDir(f, m.current_dir_pointer) = r.m.current_dir
  /\ \A q \in Blocks : q # m.current_dir_pointer => f.darray[q] = c.darray[q]

LEMMA MatchingIn ==
  ASSUME NEW dir, NEW s, Matching(dir, s) # {}
  PROVE  LET i == Min(Matching(dir, s))
         IN  i \in Items /\ dir.map[i].valid = 1 /\ dir.map[i].name = s
<1>1. Matching(dir, s) \subseteq Items /\ Items \subseteq Nat
  BY Consts DEF Matching
<1>2. Min(Matching(dir, s)) \in Matching(dir, s)
  BY <1>1, MinFacts
<1> QED BY <1>2 DEF Matching

LEMMA RefusedLost ==
  ASSUME NEW m
  PROVE  /\ Refused(m).m = m /\ Refused(m).w = <<>> /\ Refused(m).events = {}
         /\ [Refused(m) EXCEPT !.events = {"lost"}].m = m
         /\ [Refused(m) EXCEPT !.events = {"lost"}].w = <<>>
         /\ [Refused(m) EXCEPT !.events = {"lost"}].events = {"lost"}
BY DEF Refused

LEMMA RmdirDone ==
  ASSUME NEW m \in MemType, NEW c \in DiskType, Sync(m, c), NEW s \in Names
  PROVE  LET r == rmdir(m, c, s)  f == WrittenAll(c, r.w)
         IN  /\ r.m \in MemType /\ r.w \in Seq(Writes) /\ f \in DiskType /\ Sync(r.m, f)
             /\ r.m.current_dir_pointer = m.current_dir_pointer
             /\ \/ r.events \in {{}, {"lost"}} /\ r.m = m /\ r.w = <<>> /\ f = c
                \/ r.events = {} /\ \E i, ino, p : DirGone(m, c, r, f, s, i, ino, p)
<1> DEFINE i == Min(Matching(m.current_dir, s))
           ino == m.current_dir.map[i].ino
           p == Inode(c, ino).pointers[0]
           a == iarray_free(m, ino)
           b == darray_free(a.m, c, p)
           new == SetValid(b.m, i, 0)
           w == WriteCurrentDir(new)
           v == a.w \o b.w
           u == v \o <<w>>
           r == rmdir(m, c, s)
           q == m.current_dir_pointer
           none == Matching(m.current_dir, s) = {} \/ Inode(c, ino).type # "dir"
<1>1. r = IF none THEN Refused(m)
          ELSE IF ~ IsDir(c, p) THEN [Refused(m) EXCEPT !.events = {"lost"}]
          ELSE IF NotEmpty(ReadDir(c, p)) THEN Refused(m)
          ELSE [m |-> new, w |-> u, events |-> {}]
  BY Zenon DEF rmdir, SetValid
<1>2. <<>> \in Seq(Writes) /\ WrittenAll(c, <<>>) = c
  BY WriteNone
<1>3. CASE none \/ ~ IsDir(c, p) \/ NotEmpty(ReadDir(c, p))
  <2> HIDE DEF none, u, new, p, r
  <2>0. r = Refused(m) \/ r = [Refused(m) EXCEPT !.events = {"lost"}]
    BY <1>1, <1>3, Zenon
  <2>1. r.events \in {{}, {"lost"}} /\ r.m = m /\ r.w = <<>>
    BY <2>0, RefusedLost
  <2> HIDE DEF r
  <2> QED BY <1>2, <2>1 DEF r
<1>4. CASE ~ (none \/ ~ IsDir(c, p) \/ NotEmpty(ReadDir(c, p)))
  <2>1. r.events = {} /\ r.m = new /\ r.w = u
    <3>1. r = [m |-> new, w |-> u, events |-> {}]
      BY <1>1, <1>4, Zenon
    <3> HIDE DEF r, u, new
    <3> QED BY <3>1
  <2>2. i \in Items /\ m.current_dir.map[i].valid = 1 /\ m.current_dir.map[i].name = s
    BY <1>4, MatchingIn
  <2> HIDE DEF i
  <2>3. m.current_dir \in DirType /\ q \in Blocks
    BY DEF MemType
  <2>4. ino \in Inos /\ m.current_dir.map[i] \in ItemType
    BY <2>2, <2>3, ItemIn
  <2>5. Inode(c, ino).type = "dir" /\ IsDir(c, p) /\ ~ NotEmpty(ReadDir(c, p)) /\ p \in Blocks
    BY <1>4 DEF IsDir
  <2> HIDE DEF p, ino
  <2> DEFINE g == WrittenAll(c, a.w)
             k == WrittenAll(g, b.w)
             f == Written(k, w)
  <2>6. /\ a.m \in MemType /\ g \in DiskType /\ a.w \in Seq(Writes)
        /\ Sync(a.m, g) /\ SameDir(m, a.m)
        /\ g.imap[0] = c.imap[0] \ {ino}
        /\ g.super[0] = Counts(c.super[0].inode_used - 1, c.super[0].data_used)
        /\ g.smap = c.smap /\ g.iarray = c.iarray /\ g.darray = c.darray
    BY <2>4, FreeInode
  <2> HIDE DEF g, a
  <2>7. /\ b.m \in MemType /\ k \in DiskType /\ b.w \in Seq(Writes)
        /\ Sync(b.m, k) /\ SameDir(a.m, b.m)
        /\ k.imap = g.imap /\ k.iarray = g.iarray /\ k.darray = g.darray
        /\ Marked(k) = Marked(g) \ {p}
        /\ k.super[0] = Counts(g.super[0].inode_used, g.super[0].data_used - 1)
    BY <2>5, <2>6, FreeBlock
  <2> HIDE DEF k, b
  <2> DEFINE x == [valid |-> 0, name |-> m.current_dir.map[i].name, ino |-> ino]
  <2>8. b.m.current_dir = m.current_dir /\ b.m.current_dir_pointer = q
    BY <2>6, <2>7 DEF SameDir
  <2>9. x \in ItemType
    BY <2>4 DEF ItemType
  <2>10. new = WithDir(b.m, WithItem(m.current_dir, i, x))
    <3>1. 0 \in 0 .. 1
      OBVIOUS
    <3>2. \A y \in 0 .. 1 : SetValid(b.m, i, y)
          = WithDir(b.m, WithItem(b.m.current_dir, i,
              [valid |-> y, name |-> b.m.current_dir.map[i].name, ino |-> b.m.current_dir.map[i].ino]))
      BY <2>2, <2>7, MemItem
    <3>3. new = WithDir(b.m, WithItem(b.m.current_dir, i,
              [valid |-> 0, name |-> b.m.current_dir.map[i].name, ino |-> b.m.current_dir.map[i].ino]))
      BY <3>1, <3>2, Zenon
    <3> QED BY <2>8, <3>3 DEF ino
  <2> HIDE DEF x, new
  <2>11. WithItem(m.current_dir, i, x) \in DirType
    BY <2>2, <2>3, <2>9, ItemIn
  <2>12. /\ new \in MemType /\ new.current_dir = WithItem(m.current_dir, i, x)
         /\ new.current_dir_pointer = q
         /\ new.super_block = b.m.super_block /\ new.imap = b.m.imap
         /\ new.smap = b.m.smap /\ new.smap_index = b.m.smap_index
    BY <2>7, <2>8, <2>10, <2>11, WithDirFacts
  <2>13. /\ w \in Writes /\ f \in DiskType
         /\ f.super = k.super /\ f.imap = k.imap /\ f.smap = k.smap /\ f.iarray = k.iarray
         /\ IsDir(f, q) /\ ReadDir(f, q) = new.current_dir
         /\ \A y \in Blocks : y # q => f.darray[y] = k.darray[y]
    <3>1. new \in MemType /\ k \in DiskType /\ q = new.current_dir_pointer
      BY <2>7, <2>12
    <3> HIDE DEF q
    <3> QED BY <3>1, OnCurrentDir
  <2> HIDE DEF w, f
  <2>14. v \in Seq(Writes) /\ WrittenAll(c, v) = k
    <3>1. a.w \in Seq(Writes) /\ b.w \in Seq(Writes)
      BY <2>6, <2>7
    <3>2. v \in Seq(Writes)
      BY <3>1
    <3>3. WrittenAll(c, v) = WrittenAll(WrittenAll(c, a.w), b.w)
      BY <3>1, WriteConcat
    <3> QED BY <3>2, <3>3 DEF g, k
  <2>15. u \in Seq(Writes) /\ WrittenAll(c, u) = f
    <3>1. OneMore(u, v, w)
      BY DEF OneMore
    <3> HIDE DEF u, v
    <3> QED BY <2>13, <2>14, <3>1, WriteMore DEF f
  <2> HIDE DEF u, v, r
  <2>16. Sync(new, f)
    BY <2>7, <2>12, <2>13, SyncOf
  <2>17. Marked(f) = Marked(c) \ {p}
    <3>1. Marked(f) = Marked(k) /\ Marked(g) = Marked(c)
      BY <2>6, <2>13 DEF Marked
    <3> QED BY <2>7, <3>1
  <2>18. f.super[0] = Counts(c.super[0].inode_used - 1, c.super[0].data_used - 1)
    BY <2>6, <2>7, <2>13 DEF Counts
  <2>19. f.imap[0] = c.imap[0] \ {ino} /\ f.iarray = c.iarray
    BY <2>6, <2>7, <2>13
  <2>20. \A y \in Blocks : y # q => f.darray[y] = c.darray[y]
    BY <2>6, <2>7, <2>13
  <2>21. DirGone(m, c, r, f, s, i, ino, p)
    BY <2>1, <2>2, <2>5, <2>12, <2>13, <2>17, <2>18, <2>19, <2>20 DEF DirGone, ino, p, x
  <2> QED BY <2>1, <2>12, <2>13, <2>15, <2>16, <2>21 DEF r, q
<1> QED BY <1>3, <1>4

\* The calls cd change nothing but the current directory, which becomes one on
\* the disk.
LEMMA EnterDone ==
  ASSUME NEW m \in MemType, NEW c \in DiskType, NEW p
  PROVE  LET r == Enter(m, c, p)
         IN  /\ r.m \in MemType /\ r.w = <<>> /\ \A x : Sync(m, x) => Sync(r.m, x)
             /\ \/ r.events = {"lost"} /\ r.m = m
                \/ /\ r.events = {} /\ IsDir(c, p) /\ r.m.current_dir = ReadDir(c, p)
                   /\ r.m.current_dir_pointer = p
<1> DEFINE r == Enter(m, c, p)
           a == [m EXCEPT !.current_dir = ReadDir(c, p)]
           n == [a EXCEPT !.current_dir_pointer = p]
<1>1. r = IF ~ IsDir(c, p) THEN [Refused(m) EXCEPT !.events = {"lost"}] ELSE Refused(n)
  BY DEF Enter
<1>2. CASE ~ IsDir(c, p)
  <2>1. r.m = m /\ r.w = <<>> /\ r.events = {"lost"}
    BY <1>1, <1>2, RefusedLost
  <2> QED BY <2>1
<1>3. CASE IsDir(c, p)
  <2>1. r.m = n /\ r.w = <<>> /\ r.events = {}
    BY <1>1, <1>3, RefusedLost
  <2>2. p \in Blocks /\ ReadDir(c, p) \in DirType
    BY <1>3, DirIn
  <2>3. a = MemOf(m.super_block, m.imap, m.smap, m.smap_index, ReadDir(c, p), m.current_dir_pointer)
    BY DEF MemType, MemOf
  <2> HIDE DEF a
  <2>4. n = MemOf(m.super_block, m.imap, m.smap, m.smap_index, ReadDir(c, p), p)
    BY <2>3 DEF MemOf
  <2> HIDE DEF n
  <2>5. n \in MemType
    BY <2>2, <2>4 DEF MemOf, MemType
  <2>6. n.current_dir = ReadDir(c, p) /\ n.current_dir_pointer = p /\ \A x : Sync(m, x) => Sync(n, x)
    BY <2>4 DEF MemOf, Sync
  <2> QED BY <1>3, <2>1, <2>5, <2>6
<1> QED BY <1>2, <1>3

\* What cd or cd_father does; p is the block it enters.
Goes(m, c, r, p) ==
  /\ r.m \in MemType /\ r.w = <<>> /\ \A x : Sync(m, x) => Sync(r.m, x)
  /\ \/ r.events \in {{}, {"lost"}} /\ r.m = m
     \/ /\ r.events = {} /\ IsDir(c, p) /\ r.m.current_dir = ReadDir(c, p)
        /\ r.m.current_dir_pointer = p

LEMMA CdDone ==
  ASSUME NEW m \in MemType, NEW c \in DiskType, NEW ino
  PROVE  LET r == cd(m, c, ino)
         IN  \/ Goes(m, c, r, Root) /\ r.m = m
             \/ /\ ino # Astray /\ ino # -1 /\ Inode(c, ino).type = "dir"
                /\ Goes(m, c, r, Inode(c, ino).pointers[0])
<1> DEFINE r == cd(m, c, ino)
           p == Inode(c, ino).pointers[0]
           stay == ino = -1 \/ Inode(c, ino).type # "dir"
<1>1. r = IF ino = Astray THEN [Refused(m) EXCEPT !.events = {"lost"}]
          ELSE IF stay THEN Refused(m) ELSE Enter(m, c, p)
  BY DEF cd
<1>2. CASE ino = Astray \/ stay
  <2>1. r = Refused(m) \/ r = [Refused(m) EXCEPT !.events = {"lost"}]
    BY <1>1, <1>2, Zenon
  <2>2. r.events \in {{}, {"lost"}} /\ r.m = m /\ r.w = <<>>
    BY <2>1, RefusedLost
  <2> QED BY <2>2 DEF Goes
<1>3. CASE ~ (ino = Astray \/ stay)
  <2>1. r = Enter(m, c, p)
    BY <1>1, <1>3
  <2>2. ino # Astray /\ ino # -1 /\ Inode(c, ino).type = "dir"
    BY <1>3
  <2> HIDE DEF p
  <2>3. Goes(m, c, Enter(m, c, p), p)
    BY EnterDone DEF Goes
  <2> QED BY <2>1, <2>2, <2>3 DEF p
<1> QED BY <1>2, <1>3

LEMMA FatherDone ==
  ASSUME NEW m \in MemType, NEW c \in DiskType
  PROVE  LET r == cd_father(m, c)
         IN  \/ Goes(m, c, r, Root) /\ r.m = m
             \/ m.current_dir_pointer # Root /\ Goes(m, c, r, m.current_dir.fpointer)
<1> DEFINE r == cd_father(m, c)
           p == m.current_dir.fpointer
<1>1. CASE m.current_dir_pointer = Root
  <2>1. r = Refused(m)
    BY <1>1 DEF cd_father
  <2>2. r.events \in {{}, {"lost"}} /\ r.m = m /\ r.w = <<>>
    BY <2>1, RefusedLost
  <2> QED BY <2>2 DEF Goes
<1>2. CASE m.current_dir_pointer # Root
  <2>1. r = Enter(m, c, p)
    BY <1>2 DEF cd_father
  <2> HIDE DEF p
  <2>2. Goes(m, c, Enter(m, c, p), p)
    BY EnterDone DEF Goes
  <2> QED BY <1>2, <2>1, <2>2 DEF p
<1> QED BY <1>1, <1>2

-----------------------------------------------------------------------------
\* Data blocks.  im is imap, nd the inodes, mk the blocks marked in smap and sb
\* the super block.

Units(x) == x.size_allocated \div SECTOR_SIZE
Positions == 0 .. NPOINTERS - 1
Nodes(d) == [i \in Inos |-> Inode(d, i)]
HeldBy(im, nd) == {b \in Inos \X Positions : b[1] \in im /\ b[2] < Units(nd[b[1]])}
Holds(im, nd, i, k) == i \in im /\ k \in Positions /\ k < Units(nd[i])

Space(im, nd, mk, sb) ==
  /\ \A i \in im : nd[i].size_allocated = Units(nd[i]) * SECTOR_SIZE /\ Units(nd[i]) <= NPOINTERS
  /\ \A i \in Inos, k \in Positions : Holds(im, nd, i, k) => nd[i].pointers[k] \in mk
  /\ \A p \in mk : \E i \in Inos, k \in Positions : Holds(im, nd, i, k) /\ p = nd[i].pointers[k]
  /\ \A i, j \in Inos, k, l \in Positions :
       Holds(im, nd, i, k) /\ Holds(im, nd, j, l) /\ nd[i].pointers[k] = nd[j].pointers[l]
         => i = j /\ k = l
  /\ sb = Counts(Cardinality(im), Cardinality(HeldBy(im, nd)))

LEMMA HeldFinite ==
  ASSUME NEW im \in SUBSET Inos, NEW nd
  PROVE  /\ IsFiniteSet(im) /\ Cardinality(im) \in Nat
         /\ IsFiniteSet(HeldBy(im, nd)) /\ Cardinality(HeldBy(im, nd)) \in Nat
<1>1. IsFiniteSet(Inos) /\ IsFiniteSet(Positions)
  BY Consts, FS_Interval DEF Inos, Positions
<1>2. IsFiniteSet(Inos \X Positions)
  BY <1>1, FS_Product
<1> DEFINE H == HeldBy(im, nd)
<1>3. H \in SUBSET (Inos \X Positions)
  BY DEF HeldBy
<1> HIDE DEF H
<1>4. IsFiniteSet(H) /\ IsFiniteSet(im)
  BY <1>1, <1>2, <1>3, FS_Subset
<1> QED BY <1>4, FS_CardinalityType DEF H

LEMMA UnitsOf ==
  ASSUME NEW x, NEW n \in Nat, x.size_allocated = n * SECTOR_SIZE
  PROVE  Units(x) = n
<1>1. SECTOR_SIZE \in Nat \ {0} /\ 0 \in 0 .. SECTOR_SIZE - 1 /\ n * SECTOR_SIZE + 0 = n * SECTOR_SIZE
  BY Consts
<1>2. (n * SECTOR_SIZE + 0) \div SECTOR_SIZE = n
  BY <1>1, DivUnique
<1> QED BY <1>1, <1>2 DEF Units

LEMMA UnitsNat ==
  ASSUME NEW x \in InodeType
  PROVE  Units(x) \in Nat /\ x.size_allocated \in Nat
BY Consts, DivMod DEF Units, InodeType

\* The inode ino gets one more block.
LEMMA SpaceMore ==
  ASSUME NEW im \in SUBSET Inos, NEW nd \in [Inos -> InodeType], NEW mk, NEW sb,
         Space(im, nd, mk, sb), NEW ino \in im, NEW p \in Blocks, p \notin mk,
         Units(nd[ino]) < NPOINTERS, NEW x \in InodeType,
         x.size_allocated = nd[ino].size_allocated + SECTOR_SIZE,
         x.pointers[Units(nd[ino])] = p,
         \A l \in Positions : l # Units(nd[ino]) => x.pointers[l] = nd[ino].pointers[l]
  PROVE  /\ Space(im, [nd EXCEPT ![ino] = x], mk \cup {p}, Counts(sb.inode_used, sb.data_used + 1))
         /\ Units(x) = Units(nd[ino]) + 1
<1> DEFINE e == [nd EXCEPT ![ino] = x]
           k == Units(nd[ino])
           H == HeldBy(im, nd)
<1>1. /\ ino \in Inos /\ e[ino] = x /\ \A i \in Inos : i # ino => e[i] = nd[i]
  OBVIOUS
<1>2. k \in Nat /\ k \in Positions /\ nd[ino] \in InodeType /\ NPOINTERS \in Nat /\ SECTOR_SIZE \in Nat
  <2>1. nd[ino] \in InodeType
    OBVIOUS
  <2> QED BY <2>1, UnitsNat, Consts DEF Positions
<1>3. Units(x) = k + 1 /\ x.size_allocated = (k + 1) * SECTOR_SIZE
  <2>1. nd[ino].size_allocated = k * SECTOR_SIZE
    BY DEF Space
  <2>2. x.size_allocated = (k + 1) * SECTOR_SIZE
    BY <1>2, <2>1
  <2> QED BY <1>2, <2>2, UnitsOf
<1> HIDE DEF e, k
<1>4. ASSUME NEW i \in Inos, NEW l \in Positions
      PROVE  /\ Holds(im, e, i, l) <=> Holds(im, nd, i, l) \/ (i = ino /\ l = k)
             /\ Holds(im, nd, i, l) => e[i].pointers[l] = nd[i].pointers[l] /\ ~ (i = ino /\ l = k)
  <2>0. l \in Nat
    BY Consts DEF Positions
  <2>1. CASE i = ino
    BY <1>1, <1>2, <1>3, <2>0, <2>1 DEF Holds, k
  <2>2. CASE i # ino
    BY <1>1, <2>2 DEF Holds
  <2> QED BY <2>1, <2>2
<1>5. e[ino].pointers[k] = p
  BY <1>1 DEF k
<1>6. \A i \in im : e[i].size_allocated = Units(e[i]) * SECTOR_SIZE /\ Units(e[i]) <= NPOINTERS
  <2> TAKE i \in im
  <2>1. CASE i = ino
    BY <1>1, <1>2, <1>3, <2>1 DEF k
  <2>2. CASE i # ino
    BY <1>1, <2>2 DEF Space
  <2> QED BY <2>1, <2>2
<1>7. \A i \in Inos, l \in Positions : Holds(im, e, i, l) => e[i].pointers[l] \in mk \cup {p}
  BY <1>4, <1>5 DEF Space
<1>8. \A q \in mk \cup {p} :
        \E i \in Inos, l \in Positions : Holds(im, e, i, l) /\ q = e[i].pointers[l]
  BY <1>1, <1>2, <1>4, <1>5 DEF Space
<1>9. \A i, j \in Inos, l, n \in Positions :
        Holds(im, e, i, l) /\ Holds(im, e, j, n) /\ e[i].pointers[l] = e[j].pointers[n]
          => i = j /\ l = n
  BY <1>4, <1>5 DEF Space
<1>10. HeldBy(im, e) = H \cup {<<ino, k>>} /\ <<ino, k>> \notin H
  <2>1. \A i, l : <<i, l>> \in H <=> i \in Inos /\ l \in Positions /\ Holds(im, nd, i, l)
    BY DEF HeldBy, Holds
  <2>2. \A i, l : <<i, l>> \in HeldBy(im, e) <=> i \in Inos /\ l \in Positions /\ Holds(im, e, i, l)
    BY DEF HeldBy, Holds
  <2>3. H \subseteq Inos \X Positions /\ HeldBy(im, e) \subseteq Inos \X Positions
    BY DEF HeldBy
  <2> HIDE DEF H
  <2>4. \A i \in Inos, l \in Positions :
          <<i, l>> \in HeldBy(im, e) <=> <<i, l>> \in H \cup {<<ino, k>>}
    BY <1>4, <2>1, <2>2
  <2>5. <<ino, k>> \in Inos \X Positions
    BY <1>1, <1>2
  <2>6. HeldBy(im, e) = H \cup {<<ino, k>>}
    BY <2>3, <2>4, <2>5
  <2> QED BY <1>1, <1>2, <1>4, <2>1, <2>6
<1>11. Counts(sb.inode_used, sb.data_used + 1) = Counts(Cardinality(im), Cardinality(HeldBy(im, e)))
  <2>1. IsFiniteSet(H) /\ sb = Counts(Cardinality(im), Cardinality(H))
    BY HeldFinite DEF Space
  <2> HIDE DEF H
  <2>2. Cardinality(H \cup {<<ino, k>>}) = Cardinality(H) + 1
    BY <1>10, <2>1, FS_AddElement
  <2> QED BY <1>10, <2>1, <2>2 DEF Counts
<1>12. Space(im, e, mk \cup {p}, Counts(sb.inode_used, sb.data_used + 1))
  BY <1>6, <1>7, <1>8, <1>9, <1>11 DEF Space
<1> QED BY <1>3, <1>12 DEF e, k

\* An inode without blocks is added.
LEMMA SpaceNew ==
  ASSUME NEW im \in SUBSET Inos, NEW nd \in [Inos -> InodeType], NEW mk, NEW sb,
         Space(im, nd, mk, sb), NEW ino \in Inos, ino \notin im, NEW x \in InodeType,
         x.size_allocated = 0
  PROVE  Space(im \cup {ino}, [nd EXCEPT ![ino] = x], mk, Counts(sb.inode_used + 1, sb.data_used))
<1> DEFINE e == [nd EXCEPT ![ino] = x]
           J == im \cup {ino}
<1>1. e[ino] = x /\ \A i \in Inos : i # ino => e[i] = nd[i]
  OBVIOUS
<1>2. Units(x) = 0 /\ SECTOR_SIZE \in Nat /\ NPOINTERS \in Nat /\ \A l \in Positions : l >= 0
  <2>1. 0 = 0 * SECTOR_SIZE /\ 0 \in Nat
    BY Consts
  <2> QED BY <2>1, UnitsOf, Consts DEF Positions
<1> HIDE DEF e
<1>3. ASSUME NEW i \in Inos, NEW l \in Positions
      PROVE  /\ Holds(J, e, i, l) <=> Holds(im, nd, i, l)
             /\ Holds(im, nd, i, l) => e[i] = nd[i]
  <2>1. CASE i = ino
    BY <1>1, <1>2, <2>1 DEF Holds, Positions
  <2>2. CASE i # ino
    BY <1>1, <2>2 DEF Holds
  <2> QED BY <2>1, <2>2
<1>4. \A i \in J : e[i].size_allocated = Units(e[i]) * SECTOR_SIZE /\ Units(e[i]) <= NPOINTERS
  <2> TAKE i \in J
  <2>1. CASE i = ino
    BY <1>1, <1>2, <2>1
  <2>2. CASE i # ino
    BY <1>1, <2>2 DEF Space
  <2> QED BY <2>1, <2>2
<1>5. HeldBy(J, e) = HeldBy(im, nd)
  <2>1. \A b \in Inos \X Positions : b \in HeldBy(J, e) <=> Holds(J, e, b[1], b[2])
    BY DEF HeldBy, Holds
  <2>2. \A b \in Inos \X Positions : b \in HeldBy(im, nd) <=> Holds(im, nd, b[1], b[2])
    BY DEF HeldBy, Holds
  <2>3. HeldBy(J, e) \subseteq Inos \X Positions /\ HeldBy(im, nd) \subseteq Inos \X Positions
    BY DEF HeldBy
  <2> QED BY <1>3, <2>1, <2>2, <2>3
<1>6. Counts(sb.inode_used + 1, sb.data_used) = Counts(Cardinality(J), Cardinality(HeldBy(J, e)))
  <2>1. IsFiniteSet(im) /\ sb = Counts(Cardinality(im), Cardinality(HeldBy(im, nd)))
    BY HeldFinite DEF Space
  <2>2. Cardinality(J) = Cardinality(im) + 1
    BY <2>1, FS_AddElement
  <2> QED BY <1>5, <2>1, <2>2 DEF Counts
<1> HIDE DEF J
<1>7. Space(J, e, mk, Counts(sb.inode_used + 1, sb.data_used))
  BY <1>3, <1>4, <1>6 DEF Space
<1> QED BY <1>7 DEF e, J

\* An inode with one block is removed, with its block.
LEMMA SpaceLess ==
  ASSUME NEW im \in SUBSET Inos, NEW nd \in [Inos -> InodeType], NEW mk, NEW sb,
         Space(im, nd, mk, sb), NEW ino \in im, Units(nd[ino]) = 1
  PROVE  Space(im \ {ino}, nd, mk \ {nd[ino].pointers[0]},
               Counts(sb.inode_used - 1, sb.data_used - 1))
<1> DEFINE J == im \ {ino}
           p == nd[ino].pointers[0]
           H == HeldBy(im, nd)
<1>1. ino \in Inos /\ 0 \in Positions /\ \A l \in Positions : l < 1 <=> l = 0
  BY Consts DEF Positions
<1>2. ASSUME NEW i \in Inos, NEW l \in Positions
      PROVE  Holds(J, nd, i, l) <=> Holds(im, nd, i, l) /\ i # ino
  BY DEF Holds
<1>3. \A l \in Positions : Holds(im, nd, ino, l) <=> l = 0
  BY <1>1 DEF Holds
<1>4. \A i \in J : nd[i].size_allocated = Units(nd[i]) * SECTOR_SIZE /\ Units(nd[i]) <= NPOINTERS
  BY DEF Space
<1> HIDE DEF J
<1>5. \A i \in Inos, l \in Positions : Holds(J, nd, i, l) => nd[i].pointers[l] \in mk \ {p}
  BY <1>1, <1>2, <1>3 DEF Space
<1>6. \A q \in mk \ {p} :
        \E i \in Inos, l \in Positions : Holds(J, nd, i, l) /\ q = nd[i].pointers[l]
  <2> TAKE q \in mk \ {p}
  <2>1. PICK i \in Inos, l \in Positions : Holds(im, nd, i, l) /\ q = nd[i].pointers[l]
    BY DEF Space
  <2>2. i # ino
    BY <1>3, <2>1
  <2> QED BY <1>2, <2>1, <2>2
<1>7. \A i, j \in Inos, l, n \in Positions :
        Holds(J, nd, i, l) /\ Holds(J, nd, j, n) /\ nd[i].pointers[l] = nd[j].pointers[n]
          => i = j /\ l = n
  BY <1>2 DEF Space
<1>8. HeldBy(J, nd) = H \ {<<ino, 0>>} /\ <<ino, 0>> \in H
  <2>1. \A i, l : <<i, l>> \in H <=> i \in Inos /\ l \in Positions /\ Holds(im, nd, i, l)
    BY DEF HeldBy, Holds
  <2>2. \A i, l : <<i, l>> \in HeldBy(J, nd) <=> i \in Inos /\ l \in Positions /\ Holds(J, nd, i, l)
    BY DEF HeldBy, Holds
  <2>3. H \subseteq Inos \X Positions /\ HeldBy(J, nd) \subseteq Inos \X Positions
    BY DEF HeldBy
  <2> HIDE DEF H
  <2>4. \A i \in Inos, l \in Positions :
          <<i, l>> \in HeldBy(J, nd) <=> <<i, l>> \in H /\ <<i, l>> # <<ino, 0>>
    BY <1>2, <1>3, <2>1, <2>2
  <2>6. HeldBy(J, nd) = H \ {<<ino, 0>>}
    BY <2>3, <2>4
  <2> QED BY <1>1, <1>3, <2>1, <2>6
<1>9. Counts(sb.inode_used - 1, sb.data_used - 1) = Counts(Cardinality(J), Cardinality(HeldBy(J, nd)))
  <2>1. IsFiniteSet(H) /\ IsFiniteSet(im) /\ sb = Counts(Cardinality(im), Cardinality(H))
    BY HeldFinite DEF Space
  <2>2. Cardinality(J) = Cardinality(im) - 1
    BY <2>1, FS_RemoveElement DEF J
  <2> HIDE DEF H
  <2>3. Cardinality(H \ {<<ino, 0>>}) = Cardinality(H) - 1
    BY <1>8, <2>1, FS_RemoveElement
  <2> QED BY <1>8, <2>1, <2>2, <2>3 DEF Counts
<1> HIDE DEF p
<1>10. Space(J, nd, mk \ {p}, Counts(sb.inode_used - 1, sb.data_used - 1))
  BY <1>4, <1>5, <1>6, <1>7, <1>9 DEF Space
<1> QED BY <1>10 DEF J, p

\* Only the pointers and the allocated size of the inodes in use matter.
LEMMA SpaceSame ==
  ASSUME NEW im \in SUBSET Inos, NEW nd, NEW mk, NEW sb, Space(im, nd, mk, sb), NEW e,
         \A i \in im : e[i].size_allocated = nd[i].size_allocated /\ e[i].pointers = nd[i].pointers
  PROVE  Space(im, e, mk, sb)
<1>1. \A i \in im : Units(e[i]) = Units(nd[i])
  BY DEF Units
<1>2. ASSUME NEW i, NEW l
      PROVE  /\ Holds(im, e, i, l) <=> Holds(im, nd, i, l)
             /\ Holds(im, nd, i, l) => e[i].pointers = nd[i].pointers
  BY <1>1 DEF Holds
<1>3. HeldBy(im, e) = HeldBy(im, nd)
  BY <1>1 DEF HeldBy
<1>4. \A i \in im : e[i].size_allocated = Units(e[i]) * SECTOR_SIZE /\ Units(e[i]) <= NPOINTERS
  BY <1>1 DEF Space
<1> QED BY <1>2, <1>3, <1>4 DEF Space

\* Space as it is on the disk.
SpaceOn(d) == Space(Imap(d), Nodes(d), Marked(d), d.super[0])

LEMMA NodesType ==
  ASSUME NEW d \in DiskType
  PROVE  /\ Nodes(d) \in [Inos -> InodeType] /\ \A i \in Inos : Nodes(d)[i] = Inode(d, i)
         /\ Imap(d) \in SUBSET Inos
BY InodeIn DEF Nodes, Imap, DiskType

LEMMA SpaceBlocks ==
  ASSUME NEW d \in DiskType, SpaceOn(d)
  PROVE  /\ {BlockAt(d, b) : b \in Held(d)} = Marked(d)
         /\ \A b, c \in Held(d) : b # c => BlockAt(d, b) # BlockAt(d, c)
         /\ d.super[0] = [inode_used |-> Cardinality(Imap(d)), data_used |-> Cardinality(Held(d))]
<1> DEFINE im == Imap(d)
           nd == Nodes(d)
<1>1. im \in SUBSET Inos /\ nd \in [Inos -> InodeType] /\ \A i \in Inos : nd[i] = Inode(d, i)
  BY NodesType
<1> HIDE DEF im, nd
<1>2. \A i \in im : Units(nd[i]) \in Nat /\ Units(nd[i]) <= NPOINTERS
  BY <1>1, UnitsNat DEF SpaceOn, Space, im, nd
<1>3. ASSUME NEW b
      PROVE  b \in Held(d) <=> \E i \in Inos, k \in Positions : b = <<i, k>> /\ Holds(im, nd, i, k)
  <2> DEFINE S(i) == {<<i, k>> : k \in 0 .. (Inode(d, i).size_allocated \div SECTOR_SIZE) - 1}
  <2>1. b \in Held(d) <=> \E i \in im : b \in S(i)
    BY DEF Held, im
  <2>2. ASSUME NEW i \in im
        PROVE  b \in S(i) <=> \E k \in Positions : b = <<i, k>> /\ Holds(im, nd, i, k)
    <3>1. Units(nd[i]) = Inode(d, i).size_allocated \div SECTOR_SIZE
      BY <1>1 DEF Units
    <3>2. Units(nd[i]) \in Nat /\ Units(nd[i]) <= NPOINTERS /\ NPOINTERS \in Nat
      BY <1>2, Consts
    <3>3. \A k : k \in 0 .. Units(nd[i]) - 1 <=> k \in Positions /\ Holds(im, nd, i, k)
      BY <3>2 DEF Positions, Holds
    <3>4. b \in S(i) <=> \E k \in 0 .. Units(nd[i]) - 1 : b = <<i, k>>
      BY <3>1
    <3> QED BY <3>3, <3>4
  <2> HIDE DEF S
  <2> QED BY <1>1, <2>1, <2>2 DEF Holds
<1>4. \A i \in Inos, k \in Positions : BlockAt(d, <<i, k>>) = nd[i].pointers[k]
  BY <1>1 DEF BlockAt
<1>5. Held(d) = HeldBy(im, nd)
  <2>1. \A b : b \in HeldBy(im, nd) <=>
                 \E i \in Inos, k \in Positions : b = <<i, k>> /\ Holds(im, nd, i, k)
    BY DEF HeldBy, Holds
  <2> QED BY <1>3, <2>1
<1>6. Space(im, nd, Marked(d), d.super[0])
  BY DEF SpaceOn, im, nd
<1>7. {BlockAt(d, b) : b \in Held(d)} = Marked(d)
  <2>1. ASSUME NEW b \in Held(d) PROVE BlockAt(d, b) \in Marked(d)
    BY <1>3, <1>4, <1>6 DEF Space
  <2>2. ASSUME NEW p \in Marked(d) PROVE \E b \in Held(d) : p = BlockAt(d, b)
    <3>1. PICK i \in Inos, k \in Positions : Holds(im, nd, i, k) /\ p = nd[i].pointers[k]
      BY <1>6 DEF Space
    <3>2. <<i, k>> \in Held(d)
      BY <1>3, <3>1
    <3> QED BY <1>4, <3>1, <3>2
  <2> QED BY <2>1, <2>2
<1>8. \A b, c \in Held(d) : b # c => BlockAt(d, b) # BlockAt(d, c)
  BY <1>3, <1>4, <1>6 DEF Space
<1> QED BY <1>5, <1>6, <1>7, <1>8 DEF Space, Counts, im

-----------------------------------------------------------------------------
\* fwrite.

GrowType ==
  [m : MemType, w : Seq(Quiet), inode : InodeType, status : {"ok", "full", "lost"}]
GrowOf(m, w, x, s) == [m |-> m, w |-> w, inode |-> x, status |-> s]

\* The inode y is x with the block p as its k-th.
WithBlock(x, k, p) ==
  InodeOf(x.type, x.size, x.size_allocated + SECTOR_SIZE, [x.pointers EXCEPT ![k] = p])

LEMMA WithBlockFacts ==
  ASSUME NEW x \in InodeType, NEW k \in Positions, NEW p \in Blocks
  PROVE  LET y == WithBlock(x, k, p)
         IN  /\ y \in InodeType /\ y.type = x.type /\ y.size = x.size
             /\ y.size_allocated = x.size_allocated + SECTOR_SIZE /\ y.pointers[k] = p
             /\ \A l \in Positions : l # k => y.pointers[l] = x.pointers[l]
             /\ Units(y) = Units(x) + 1
<1> DEFINE ps == [x.pointers EXCEPT ![k] = p]
           y == WithBlock(x, k, p)
<1>1. x.pointers \in [Positions -> Blocks \cup {Wild}] /\ x.size_allocated \in Nat /\ SECTOR_SIZE \in Nat \ {0}
  BY Consts DEF InodeType, Positions
<1>2. ps \in [Positions -> Blocks \cup {Wild}] /\ ps[k] = p /\ \A l \in Positions : l # k => ps[l] = x.pointers[l]
  BY <1>1
<1>3. y = InodeOf(x.type, x.size, x.size_allocated + SECTOR_SIZE, ps)
  BY DEF WithBlock
<1> HIDE DEF ps, y
<1>4. y \in InodeType
  BY <1>1, <1>2, <1>3 DEF InodeOf, InodeType, Positions
<1>5. y.type = x.type /\ y.size = x.size /\ y.pointers = ps
      /\ y.size_allocated = x.size_allocated + SECTOR_SIZE
  BY <1>3 DEF InodeOf
<1>6. Units(y) = Units(x) + 1
  <2> DEFINE a == x.size_allocated
             n == SECTOR_SIZE
  <2>1. a \div n \in Nat /\ a % n \in 0 .. n - 1 /\ a = (a \div n) * n + (a % n)
    BY <1>1, DivMod
  <2>2. a + n = ((a \div n) + 1) * n + (a % n)
    BY <1>1, <2>1
  <2>3. (((a \div n) + 1) * n + (a % n)) \div n = (a \div n) + 1
    <3> DEFINE q == (a \div n) + 1
               j == a % n
    <3>1. q \in Nat /\ j \in 0 .. n - 1 /\ n \in Nat \ {0}
      BY <1>1, <2>1
    <3> HIDE DEF q, j
    <3>2. (q * n + j) \div n = q
      BY <3>1, DivUnique
    <3> QED BY <3>2 DEF q, j
  <2> QED BY <1>5, <2>2, <2>3 DEF Units
<1> QED BY <1>2, <1>4, <1>5, <1>6 DEF y

\* fwrite's loop has allocated blocks for the inode ino, starting from the disk d
\* and the memory m; f is what it has.
Grown(d, m, ino, f) ==
  LET c == WrittenAll(d, f.w)
      x == Inode(d, ino)
  IN  /\ f \in GrowType /\ c \in DiskType /\ Sync(f.m, c) /\ SameDir(m, f.m)
      /\ c.imap = d.imap /\ c.iarray = d.iarray /\ c.darray = d.darray
      /\ \A k \in 0 .. SMAP_SECTORS - 1 : k > f.m.smap_index => d.smap[k] = c.smap[k]
      /\ f.inode.type = x.type /\ f.inode.size = x.size
      /\ f.inode.size_allocated >= x.size_allocated /\ Units(f.inode) >= Units(x)
      /\ \A l \in Positions : l < Units(x) => f.inode.pointers[l] = x.pointers[l]
      /\ SpaceOn(d) /\ ino \in Imap(d) =>
           Space(Imap(d), [Nodes(d) EXCEPT ![ino] = f.inode], Marked(c), c.super[0])

LEMMA OneMoreIs ==
  ASSUME NEW d, NEW f \in GrowType
  PROVE  LET b == darray_alloc(f.m, d)  k == NextPointer(f.inode)
         IN  OneMoreBlock(d, f)
               = IF f.status # "ok" THEN f
                 ELSE IF b.ret = -1 THEN GrowOf(b.m, f.w, f.inode, "full")
                 ELSE IF k >= NPOINTERS THEN GrowOf(f.m, f.w, f.inode, "lost")
                 ELSE GrowOf(b.m, f.w \o b.w, WithBlock(f.inode, k, b.ret), f.status)
<1> DEFINE b == darray_alloc(f.m, d)
           k == NextPointer(f.inode)
           ws == f.w \o b.w
           q == b.ret
           full == [f EXCEPT !.m = b.m, !.status = "full"]
           lost == [f EXCEPT !.status = "lost"]
           more == [f EXCEPT !.m = b.m, !.w = f.w \o b.w, !.inode.pointers[k] = b.ret,
                             !.inode.size_allocated = @ + SECTOR_SIZE]
<1>1. OneMoreBlock(d, f) = IF f.status # "ok" THEN f
                           ELSE IF b.ret = -1 THEN full
                           ELSE IF k >= NPOINTERS THEN lost ELSE more
  BY Zenon DEF OneMoreBlock
<1>2. full = GrowOf(b.m, f.w, f.inode, "full")
  <2> DEFINE n == b.m
             a == [f EXCEPT !.m = n]
  <2>1. full = [a EXCEPT !.status = "full"]
    OBVIOUS
  <2> HIDE DEF b, n
  <2>2. a = GrowOf(n, f.w, f.inode, f.status)
    BY DEF GrowType, GrowOf
  <2> HIDE DEF a
  <2> QED BY <2>1, <2>2 DEF GrowOf, n
<1>3. lost = GrowOf(f.m, f.w, f.inode, "lost")
  BY DEF GrowType, GrowOf
<1>4. more = GrowOf(b.m, f.w \o b.w, WithBlock(f.inode, k, b.ret), f.status)
  <2> DEFINE n == b.m
             a == [f EXCEPT !.m = n]
             z == [a EXCEPT !.w = ws]
             x == [z.inode EXCEPT !.pointers[k] = q]
             u == [z EXCEPT !.inode = x]
             y == [u.inode EXCEPT !.size_allocated = @ + SECTOR_SIZE]
  <2>1. more = [u EXCEPT !.inode = y]
    OBVIOUS
  <2> HIDE DEF b, n, ws, k, q
  <2>2. a = GrowOf(n, f.w, f.inode, f.status)
    BY DEF GrowType, GrowOf
  <2> HIDE DEF a
  <2>3. z = GrowOf(n, ws, f.inode, f.status)
    BY <2>2 DEF GrowOf
  <2> HIDE DEF z
  <2>4. z.inode = f.inode /\ f.inode \in InodeType
    BY <2>3 DEF GrowOf, GrowType
  <2> DEFINE ps == [z.inode.pointers EXCEPT ![k] = q]
  <2>5. x = [z.inode EXCEPT !.pointers = ps]
    OBVIOUS
  <2> HIDE DEF x, ps
  <2>6. x = InodeOf(f.inode.type, f.inode.size, f.inode.size_allocated, ps)
    BY <2>4, <2>5 DEF InodeType, InodeOf
  <2>7. u = GrowOf(n, ws, x, f.status)
    BY <2>3 DEF GrowOf
  <2> HIDE DEF u
  <2>8. u.inode = x
    BY <2>7 DEF GrowOf
  <2>9. y = InodeOf(f.inode.type, f.inode.size, f.inode.size_allocated + SECTOR_SIZE, ps)
    BY <2>6, <2>8 DEF InodeOf
  <2> HIDE DEF y
  <2>10. y = WithBlock(f.inode, k, q)
    BY <2>4, <2>9 DEF WithBlock, ps
  <2>11. [u EXCEPT !.inode = y] = GrowOf(n, ws, y, f.status)
    BY <2>7 DEF GrowOf
  <2> QED BY <2>1, <2>10, <2>11 DEF n, ws, q
<1> HIDE DEF full, lost, more, b, k
<1> QED BY <1>1, <1>2, <1>3, <1>4 DEF b, k

LEMMA MoreGrown ==
  ASSUME NEW d \in DiskType, NEW m \in MemType, NEW ino \in Inos, NEW f, Grown(d, m, ino, f)
  PROVE  LET g == OneMoreBlock(d, f)
         IN  /\ Grown(d, m, ino, g)
             /\ g.status = "ok" =>
                  f.status = "ok" /\ g.inode.size_allocated = f.inode.size_allocated + SECTOR_SIZE
<1> DEFINE c == WrittenAll(d, f.w)
           x == Inode(d, ino)
           b == darray_alloc(f.m, d)
           k == NextPointer(f.inode)
           g == OneMoreBlock(d, f)
           y == WithBlock(f.inode, k, b.ret)
           ws == f.w \o b.w
           e == WrittenAll(c, b.w)
<1>1. /\ f \in GrowType /\ c \in DiskType /\ Sync(f.m, c) /\ SameDir(m, f.m)
      /\ c.imap = d.imap /\ c.iarray = d.iarray /\ c.darray = d.darray
      /\ \A j \in 0 .. SMAP_SECTORS - 1 : j > f.m.smap_index => d.smap[j] = c.smap[j]
      /\ f.inode.type = x.type /\ f.inode.size = x.size
      /\ f.inode.size_allocated >= x.size_allocated /\ Units(f.inode) >= Units(x)
      /\ \A l \in Positions : l < Units(x) => f.inode.pointers[l] = x.pointers[l]
      /\ SpaceOn(d) /\ ino \in Imap(d) =>
           Space(Imap(d), [Nodes(d) EXCEPT ![ino] = f.inode], Marked(c), c.super[0])
  BY DEF Grown
<1>2. f.m \in MemType /\ f.w \in Seq(Quiet) /\ f.inode \in InodeType
  BY <1>1 DEF GrowType
<1>3. g = IF f.status # "ok" THEN f
          ELSE IF b.ret = -1 THEN GrowOf(b.m, f.w, f.inode, "full")
          ELSE IF k >= NPOINTERS THEN GrowOf(f.m, f.w, f.inode, "lost")
          ELSE GrowOf(b.m, ws, y, f.status)
  BY <1>1, OneMoreIs
<1> HIDE DEF g, ws, y, x
<1>4. /\ b.m \in MemType /\ e \in DiskType /\ b.w \in Seq(Quiet)
      /\ Sync(b.m, e) /\ SameDir(f.m, b.m)
      /\ e.imap = c.imap /\ e.iarray = c.iarray /\ e.darray = c.darray
      /\ \A j \in 0 .. SMAP_SECTORS - 1 : j > b.m.smap_index => d.smap[j] = e.smap[j]
      /\ \/ b.ret = -1 /\ b.w = <<>>
         \/ /\ b.ret \in Blocks \ Marked(c) /\ Marked(e) = Marked(c) \cup {b.ret}
            /\ e.super[0] = Counts(c.super[0].inode_used, c.super[0].data_used + 1)
  <2> HIDE DEF c
  <2> QED BY <1>1, <1>2, AllocBlock
<1> HIDE DEF b
<1>5. CASE f.status # "ok"
  <2>1. g = f
    BY <1>3, <1>5
  <2> QED BY <1>5, <2>1 DEF g
<1>6. CASE f.status = "ok" /\ b.ret = -1
  <2>1. g = GrowOf(b.m, f.w, f.inode, "full")
    BY <1>3, <1>6
  <2>2. g.m = b.m /\ g.w = f.w /\ g.inode = f.inode /\ g.status = "full" /\ g \in GrowType
    BY <1>2, <1>4, <2>1 DEF GrowOf, GrowType
  <2>3. b.w = <<>> /\ e = c
    <3>1. b.w = <<>>
      BY <1>4, <1>6, Consts
    <3> QED BY <3>1, WriteNone
  <2>4. Sync(g.m, c) /\ SameDir(m, g.m)
    BY <1>1, <1>4, <2>2, <2>3 DEF SameDir
  <2>5. Grown(d, m, ino, g)
    BY <1>1, <1>4, <2>2, <2>3, <2>4 DEF Grown, x
  <2> QED BY <2>2, <2>5 DEF g
<1>7. CASE f.status = "ok" /\ b.ret # -1 /\ k >= NPOINTERS
  <2>1. g = GrowOf(f.m, f.w, f.inode, "lost")
    BY <1>3, <1>7
  <2>2. g.m = f.m /\ g.w = f.w /\ g.inode = f.inode /\ g.status = "lost" /\ g \in GrowType
    BY <1>2, <2>1 DEF GrowOf, GrowType
  <2>3. Grown(d, m, ino, g)
    BY <1>1, <2>2 DEF Grown, x
  <2> QED BY <2>2, <2>3 DEF g
<1>8. CASE f.status = "ok" /\ b.ret # -1 /\ ~ k >= NPOINTERS
  <2>1. g = GrowOf(b.m, ws, y, f.status)
    BY <1>3, <1>8
  <2>2. ws \in Seq(Quiet) /\ WrittenAll(d, ws) = e
    <3>1. f.w \in Seq(Quiet) /\ b.w \in Seq(Quiet)
      BY <1>2, <1>4
    <3>2. f.w \o b.w \in Seq(Quiet)
      BY <3>1
    <3>3. WrittenAll(d, f.w \o b.w) = WrittenAll(WrittenAll(d, f.w), b.w)
      BY <3>1, WriteConcat
    <3> QED BY <3>2, <3>3 DEF ws
  <2> HIDE DEF c, e
  <2>3. k = Units(f.inode) /\ k \in Nat /\ k \in Positions /\ k < NPOINTERS
    <3>1. k = Units(f.inode)
      BY DEF NextPointer, Units
    <3>2. k \in Nat
      BY <1>2, <3>1, UnitsNat
    <3> QED BY <1>8, <3>1, <3>2, Consts DEF Positions
  <2> HIDE DEF k
  <2> DEFINE p == b.ret
  <2>4. p \in Blocks /\ p \notin Marked(c) /\ Marked(e) = Marked(c) \cup {p}
        /\ e.super[0] = Counts(c.super[0].inode_used, c.super[0].data_used + 1)
    BY <1>4, <1>8
  <2>5. /\ y \in InodeType /\ y.type = f.inode.type /\ y.size = f.inode.size
        /\ y.size_allocated = f.inode.size_allocated + SECTOR_SIZE /\ y.pointers[k] = p
        /\ \A l \in Positions : l # k => y.pointers[l] = f.inode.pointers[l]
        /\ Units(y) = Units(f.inode) + 1
    <3> HIDE DEF p
    <3>1. y = WithBlock(f.inode, k, p)
      BY DEF y, p
    <3> QED BY <1>2, <2>3, <2>4, <3>1, WithBlockFacts
  <2> HIDE DEF p
  <2>6. g.m = b.m /\ g.w = ws /\ g.inode = y /\ g.status = "ok" /\ g \in GrowType
    BY <1>4, <1>8, <2>1, <2>2, <2>5 DEF GrowOf, GrowType
  <2>7. /\ y.type = x.type /\ y.size = x.size
        /\ y.size_allocated >= x.size_allocated /\ Units(y) >= Units(x)
        /\ \A l \in Positions : l < Units(x) => y.pointers[l] = x.pointers[l]
    <3>1. /\ x \in InodeType /\ Units(x) \in Nat /\ x.size_allocated \in Nat /\ SECTOR_SIZE \in Nat
          /\ f.inode.size_allocated \in Nat
      BY <1>2, InodeIn, UnitsNat, Consts DEF x
    <3>2. \A l \in Positions : l \in Nat
      BY Consts DEF Positions
    <3>3. y.size_allocated >= x.size_allocated
      BY <1>1, <2>5, <3>1
    <3>4. k >= Units(x) /\ Units(y) = k + 1
      BY <1>1, <2>3, <2>5
    <3>5. Units(y) >= Units(x) /\ \A l \in Positions : l < Units(x) => l # k
      BY <2>3, <3>1, <3>2, <3>4
    <3>6. \A l \in Positions : l < Units(x) => y.pointers[l] = x.pointers[l]
      BY <1>1, <2>5, <3>5
    <3> QED BY <1>1, <2>5, <3>3, <3>5, <3>6
  <2>8. ASSUME SpaceOn(d), ino \in Imap(d)
        PROVE  Space(Imap(d), [Nodes(d) EXCEPT ![ino] = y], Marked(e), e.super[0])
    <3> DEFINE im == Imap(d)
               nd == [Nodes(d) EXCEPT ![ino] = f.inode]
               mk == Marked(c)
               sb == c.super[0]
    <3>1. /\ im \in SUBSET Inos /\ nd \in [Inos -> InodeType] /\ nd[ino] = f.inode
          /\ [nd EXCEPT ![ino] = y] = [Nodes(d) EXCEPT ![ino] = y]
      BY <1>2, NodesType
    <3>2. Space(im, nd, mk, sb)
      BY <1>1, <2>8
    <3> HIDE DEF nd, mk, sb, im
    <3>3. /\ ino \in im /\ p \in Blocks /\ p \notin mk /\ Units(nd[ino]) < NPOINTERS
          /\ y.size_allocated = nd[ino].size_allocated + SECTOR_SIZE
          /\ y.pointers[Units(nd[ino])] = p
          /\ \A l \in Positions : l # Units(nd[ino]) => y.pointers[l] = nd[ino].pointers[l]
      BY <2>3, <2>4, <2>5, <2>8, <3>1 DEF im, mk
    <3>4. Space(im, [nd EXCEPT ![ino] = y], mk \cup {p}, Counts(sb.inode_used, sb.data_used + 1))
      BY <2>5, <3>1, <3>2, <3>3, SpaceMore
    <3> QED BY <2>4, <3>1, <3>4 DEF im, mk, sb
  <2>9. SameDir(m, g.m)
    BY <1>1, <1>4, <2>6 DEF SameDir
  <2>10. Grown(d, m, ino, g)
    BY <1>1, <1>4, <2>2, <2>6, <2>7, <2>8, <2>9 DEF Grown, x
  <2> QED BY <1>8, <2>5, <2>6, <2>10 DEF g
<1> QED BY <1>5, <1>6, <1>7, <1>8

\* The loop of fwrite.
LEMMA GrowDone ==
  ASSUME NEW d \in DiskType, NEW m \in MemType, Sync(m, d), NEW ino \in Inos, NEW n \in Nat
  PROVE  LET f == FileGrows(d, m, Inode(d, ino), n)[n]
         IN  /\ Grown(d, m, ino, f)
             /\ f.status = "ok" =>
                  f.inode.size_allocated = Inode(d, ino).size_allocated + n * SECTOR_SIZE
<1> DEFINE x == Inode(d, ino)
           F == FileGrows(d, m, x, n)
           T == {i \in 0 .. n :
                   /\ Grown(d, m, ino, F[i])
                   /\ F[i].status = "ok" =>
                        F[i].inode.size_allocated = x.size_allocated + i * SECTOR_SIZE}
<1>1. F[0] = NotGrown(m, x) /\ \A i \in 1 .. n : F[i] = OneMoreBlock(d, F[i - 1])
  BY GrowTurns
<1>2. x \in InodeType /\ x.size_allocated \in Nat /\ SECTOR_SIZE \in Nat /\ Units(x) \in Nat
  BY InodeIn, UnitsNat, Consts
<1> HIDE DEF F
<1>3. 0 \in T
  <2>1. F[0] = GrowOf(m, <<>>, x, "ok")
    BY <1>1 DEF NotGrown, GrowOf
  <2>2. /\ F[0].m = m /\ F[0].w = <<>> /\ F[0].inode = x /\ F[0].status = "ok"
        /\ F[0] \in GrowType
    BY <1>2, <2>1 DEF GrowOf, GrowType
  <2>3. WrittenAll(d, <<>>) = d
    BY WriteNone
  <2>4. [Nodes(d) EXCEPT ![ino] = x] = Nodes(d)
    BY NodesType
  <2>5. SameDir(m, m)
    BY DEF SameDir
  <2>6. Grown(d, m, ino, F[0])
    BY <1>2, <2>2, <2>3, <2>4, <2>5 DEF Grown, SpaceOn
  <2>7. x.size_allocated = x.size_allocated + 0 * SECTOR_SIZE
    BY <1>2
  <2> HIDE DEF x
  <2> QED BY <2>2, <2>6, <2>7
<1>4. ASSUME NEW i \in 1 .. n, i - 1 \in T PROVE i \in T
  <2> DEFINE f == F[i - 1]
             g == F[i]
  <2>1. g = OneMoreBlock(d, f) /\ Grown(d, m, ino, f)
    BY <1>1, <1>4
  <2>2. f.status = "ok" => f.inode.size_allocated = x.size_allocated + (i - 1) * SECTOR_SIZE
    BY <1>4
  <2> HIDE DEF f, g, x
  <2>3. /\ Grown(d, m, ino, g)
        /\ g.status = "ok" =>
             f.status = "ok" /\ g.inode.size_allocated = f.inode.size_allocated + SECTOR_SIZE
    BY <2>1, MoreGrown
  <2>4. (x.size_allocated + (i - 1) * SECTOR_SIZE) + SECTOR_SIZE = x.size_allocated + i * SECTOR_SIZE
    BY <1>2
  <2>5. g.status = "ok" => g.inode.size_allocated = x.size_allocated + i * SECTOR_SIZE
    BY <2>2, <2>3, <2>4
  <2>6. i \in 0 .. n
    OBVIOUS
  <2> QED BY <2>3, <2>5, <2>6 DEF g, x
<1> HIDE DEF T
<1>5. n \in T
  <2>1. \A i \in 0 .. n : i \in T
    BY <1>3, <1>4, Turns
  <2> QED BY <2>1
<1> QED BY <1>5 DEF T, F

\* A write of a data block, and a sequence of them.
LEMMA OnData ==
  ASSUME NEW c \in DiskType, NEW w \in Writes, w.area = "darray"
  PROVE  LET e == Written(c, w)
         IN  /\ e \in DiskType /\ w.at \in Blocks
             /\ e.super = c.super /\ e.imap = c.imap /\ e.smap = c.smap /\ e.iarray = c.iarray
             /\ e.darray[w.at] = w.data /\ \A q \in Blocks : q # w.at => e.darray[q] = c.darray[q]
<1>1. PICK p \in Blocks, x \in SectorType : w = Sdwrite("darray", p, x)
  BY WriteCases DEF Sdwrite
<1>2. w.at = p /\ w.data = x
  BY <1>1 DEF Sdwrite
<1> DEFINE e == Written(c, w)
<1>3. /\ e \in DiskType
      /\ e.super = c.super /\ e.imap = c.imap /\ e.smap = c.smap /\ e.iarray = c.iarray
      /\ e.darray = [c.darray EXCEPT ![p] = x]
  BY <1>1, OnDarray
<1> HIDE DEF e
<1>4. c.darray \in [Blocks -> SectorType]
  BY DEF DiskType
<1>5. e.darray[p] = x /\ \A q \in Blocks : q # p => e.darray[q] = c.darray[q]
  BY <1>3, <1>4
<1> QED BY <1>2, <1>3, <1>5 DEF e

Distinct(ws, n) == \A i, j \in 1 .. n : ws[i].at = ws[j].at => i = j

LEMMA DataWrites ==
  ASSUME NEW c \in DiskType, NEW ws \in Seq(Writes), \A i \in 1 .. Len(ws) : ws[i].area = "darray"
  PROVE  LET e == WrittenAll(c, ws)
         IN  /\ e \in DiskType
             /\ e.super = c.super /\ e.imap = c.imap /\ e.smap = c.smap /\ e.iarray = c.iarray
             /\ \A q \in Blocks :
                  (\A i \in 1 .. Len(ws) : ws[i].at # q) => e.darray[q] = c.darray[q]
             /\ Distinct(ws, Len(ws)) =>
                  \A i \in 1 .. Len(ws) : e.darray[ws[i].at] = ws[i].data
<1> DEFINE a == WrittenUpTo(c, ws)
           P(n) ==
             /\ a[n] \in DiskType
             /\ a[n].super = c.super /\ a[n].imap = c.imap /\ a[n].smap = c.smap
             /\ a[n].iarray = c.iarray
             /\ \A q \in Blocks : (\A i \in 1 .. n : ws[i].at # q) => a[n].darray[q] = c.darray[q]
             /\ Distinct(ws, Len(ws)) => \A i \in 1 .. n : a[n].darray[ws[i].at] = ws[i].data
           T == {n \in 0 .. Len(ws) : P(n)}
<1>0. Len(ws) \in Nat /\ Len(ws) \in 0 .. Len(ws)
  <2>1. Len(ws) \in Nat
    OBVIOUS
  <2> QED BY <2>1
<1>1. a[0] = c /\ \A n \in 1 .. Len(ws) : a[n] = Written(a[n - 1], ws[n])
  BY WriteTurns
<1> HIDE DEF a
<1>2. 0 \in T
  BY <1>0, <1>1
<1>3. ASSUME NEW n \in 1 .. Len(ws), n - 1 \in T PROVE n \in T
  <2> DEFINE b == a[n - 1]
             e == a[n]
             w == ws[n]
  <2>1. P(n - 1) /\ w \in Writes /\ w.area = "darray" /\ e = Written(b, w) /\ n \in 0 .. Len(ws)
    BY <1>0, <1>1, <1>3
  <2>2. b \in DiskType
    BY <2>1
  <2> HIDE DEF e, w, b
  <2>3. /\ e \in DiskType /\ w.at \in Blocks
        /\ e.super = b.super /\ e.imap = b.imap /\ e.smap = b.smap /\ e.iarray = b.iarray
        /\ e.darray[w.at] = w.data /\ \A q \in Blocks : q # w.at => e.darray[q] = b.darray[q]
    BY <2>1, <2>2, OnData
  <2>4. ASSUME NEW q \in Blocks, \A i \in 1 .. n : ws[i].at # q PROVE e.darray[q] = c.darray[q]
    <3>1. w.at # q /\ \A i \in 1 .. n - 1 : ws[i].at # q
      BY <2>4 DEF w
    <3> QED BY <2>1, <2>3, <3>1 DEF b
  <2>5. ASSUME Distinct(ws, Len(ws)), NEW i \in 1 .. n PROVE e.darray[ws[i].at] = ws[i].data
    <3>1. CASE i = n
      BY <2>3, <3>1 DEF w
    <3>2. CASE i # n
      <4>1. i \in 1 .. n - 1 /\ i \in 1 .. Len(ws)
        BY <1>0, <3>2
      <4>2. ws[i].at # w.at
        BY <2>5, <3>2, <4>1 DEF Distinct, w
      <4>3. ws[i].at \in Blocks
        <5>1. ws[i] \in Writes /\ ws[i].area = "darray"
          BY <4>1
        <5> QED BY <5>1, <2>2, OnData
      <4> QED BY <2>1, <2>3, <2>5, <4>1, <4>2, <4>3 DEF b
    <3> QED BY <3>1, <3>2
  <2>6. P(n)
    BY <2>1, <2>3, <2>4, <2>5 DEF b, e
  <2> QED BY <2>1, <2>6
<1> HIDE DEF T
<1>4. \A n \in 0 .. Len(ws) : n \in T
  BY <1>0, <1>2, <1>3, Turns
<1>5. P(Len(ws))
  BY <1>0, <1>4 DEF T
<1> QED BY <1>5 DEF WrittenAll, a

LEMMA DivMono ==
  ASSUME NEW a \in Nat, NEW b \in Nat, a <= b, NEW n \in Nat \ {0}
  PROVE  a \div n <= b \div n
<1> DEFINE q == a \div n
           r == b \div n
<1>1. q \in Nat /\ a % n \in 0 .. n - 1 /\ a = q * n + (a % n)
  BY DivMod
<1>2. r \in Nat /\ b % n \in 0 .. n - 1 /\ b = r * n + (b % n)
  BY DivMod
<1> HIDE DEF q, r
<1>3. ASSUME q > r PROVE FALSE
  <2>1. q * n >= (r + 1) * n
    BY <1>1, <1>2, <1>3
  <2>2. (r + 1) * n = r * n + n
    BY <1>2
  <2> QED BY <1>1, <1>2, <2>1, <2>2
<1> QED BY <1>1, <1>2, <1>3 DEF q, r

LEMMA StoredType ==
  ASSUME NEW c \in SectorType, NEW k, NEW o, NEW n, NEW x \in Values
  PROVE  /\ Stored(c, k, o, n, x) \in SectorType /\ Stored(c, k, o, n, x).dir = <<>>
         /\ Stored(c, k, o, n, x).bytes # <<>>
         /\ \A i \in 1 .. SECTOR_SIZE : Stored(c, k, o, n, x).bytes[i]
              = IF k * SECTOR_SIZE + i - 1 \in o .. o + n - 1 THEN x
                ELSE IF c.bytes = <<>> THEN Junk ELSE c.bytes[i]
<1> DEFINE f == [i \in 1 .. SECTOR_SIZE |->
                   IF k * SECTOR_SIZE + i - 1 \in o .. o + n - 1 THEN x
                   ELSE IF c.bytes = <<>> THEN Junk ELSE c.bytes[i]]
<1>1. c.bytes = <<>> \/ c.bytes \in [1 .. SECTOR_SIZE -> Values \cup {Junk}]
  BY DEF SectorType
<1>2. f \in [1 .. SECTOR_SIZE -> Values \cup {Junk}]
  BY <1>1
<1>3. f # <<>>
  <2>1. 1 \in DOMAIN f /\ DOMAIN <<>> = {}
    BY Consts
  <2> QED BY <2>1
<1>4. \A i \in 1 .. SECTOR_SIZE : f[i] = IF k * SECTOR_SIZE + i - 1 \in o .. o + n - 1 THEN x
                                         ELSE IF c.bytes = <<>> THEN Junk ELSE c.bytes[i]
  OBVIOUS
<1>5. Stored(c, k, o, n, x) = [dir |-> <<>>, bytes |-> f]
  BY DEF Stored
<1> HIDE DEF f
<1>6. [dir |-> <<>>, bytes |-> f] \in SectorType
  BY <1>2 DEF SectorType
<1> QED BY <1>3, <1>4, <1>5, <1>6

\* The disk f is d after fwrite to the inode ino: g is what the loop has left, y
\* the inode.
Wrote(d, f, ino, g, y) ==
  /\ f \in DiskType /\ f.super = WrittenAll(d, g.w).super /\ f.smap = WrittenAll(d, g.w).smap
  /\ f.imap = d.imap /\ Inode(f, ino) = y /\ OtherInodes(d, f, ino)
  /\ y.type = g.inode.type /\ y.size_allocated = g.inode.size_allocated
  /\ y.pointers = g.inode.pointers

\* n bytes x are in the blocks ps of the file, which are all different; nothing
\* else is written.
FirstSector(o) == o \div SECTOR_SIZE
LastSector(o, n) == (o + n - 1) \div SECTOR_SIZE
Filled(d, f, ps, o, n, x) ==
  /\ \A k \in FirstSector(o) .. LastSector(o, n) : k < NDIRECT /\ ps[k] \in Blocks
  /\ \A q \in Blocks : (\A k \in FirstSector(o) .. LastSector(o, n) : ps[k] # q) => f.darray[q] = d.darray[q]
  /\ (\A k, l \in FirstSector(o) .. LastSector(o, n) : ps[k] = ps[l] => k = l) =>
       \A k \in FirstSector(o) .. LastSector(o, n) : f.darray[ps[k]] = Stored(d.darray[ps[k]], k, o, n, x)

PointerAt(y, k) == IF k < NDIRECT THEN y.pointers[k] ELSE Wild

LEMMA PointerIs ==
  ASSUME NEW y
  PROVE  /\ \A k \in Nat : offset_to_pointer(y, k * SECTOR_SIZE) = PointerAt(y, k)
         /\ \A o : offset_to_pointer(y, o) = PointerAt(y, o \div SECTOR_SIZE)
<1>1. ASSUME NEW k \in Nat PROVE (k * SECTOR_SIZE) \div SECTOR_SIZE = k
  <2>1. SECTOR_SIZE \in Nat \ {0} /\ 0 \in 0 .. SECTOR_SIZE - 1 /\ k * SECTOR_SIZE + 0 = k * SECTOR_SIZE
    BY Consts
  <2>2. (k * SECTOR_SIZE + 0) \div SECTOR_SIZE = k
    BY <2>1, DivUnique
  <2> QED BY <2>1, <2>2
<1>2. \A o : offset_to_pointer(y, o) = PointerAt(y, o \div SECTOR_SIZE)
  BY DEF offset_to_pointer, PointerAt
<1> QED BY <1>1, <1>2

\* The writes of the data.
DataOf(d, y, o, n, x) ==
  [i \in 1 .. LastSector(o, n) - FirstSector(o) + 1 |->
     Sdwrite("darray", PointerAt(y, FirstSector(o) + i - 1),
             Stored(d.darray[PointerAt(y, FirstSector(o) + i - 1)], FirstSector(o) + i - 1, o, n, x))]

LEMMA DataDone ==
  ASSUME NEW d \in DiskType, NEW c \in DiskType, c.darray = d.darray,
         NEW y \in InodeType, NEW o \in Nat, NEW n \in Nat \ {0}, NEW x \in Values,
         \A k \in FirstSector(o) .. LastSector(o, n) : PointerAt(y, k) # Wild
  PROVE  LET ws == DataOf(d, y, o, n, x)  e == WrittenAll(c, ws)
         IN  /\ ws \in Seq(Quiet) /\ e \in DiskType
             /\ e.super = c.super /\ e.imap = c.imap /\ e.smap = c.smap /\ e.iarray = c.iarray
             /\ Filled(d, e, y.pointers, o, n, x)
<1> DEFINE a == FirstSector(o)
           b == LastSector(o, n)
           ps == y.pointers
           ws == DataOf(d, y, o, n, x)
           e == WrittenAll(c, ws)
           N == b - a + 1
<1>1. a \in Nat /\ b \in Nat /\ a <= b /\ N \in Nat
  <2>1. o + n - 1 \in Nat /\ o <= o + n - 1 /\ SECTOR_SIZE \in Nat \ {0}
    BY Consts
  <2>2. a \in Nat /\ b \in Nat
    BY <2>1, DivMod DEF FirstSector, LastSector
  <2>3. a <= b
    <3> DEFINE z == o + n - 1
    <3>1. z \in Nat /\ o <= z
      BY <2>1
    <3> HIDE DEF z
    <3>2. o \div SECTOR_SIZE <= z \div SECTOR_SIZE
      BY <2>1, <3>1, DivMono
    <3> QED BY <3>2 DEF z, FirstSector, LastSector
  <2> QED BY <2>2, <2>3
<1>2. ASSUME NEW k \in a .. b
      PROVE  /\ k < NDIRECT /\ PointerAt(y, k) = ps[k] /\ ps[k] \in Blocks
             /\ d.darray[ps[k]] \in SectorType
  <2>1. k < NDIRECT /\ PointerAt(y, k) = ps[k] /\ ps[k] # Wild
    BY DEF PointerAt
  <2>2. k \in Positions
    BY <1>1, <2>1, Consts DEF Positions
  <2>3. ps[k] \in Blocks
    BY <2>1, <2>2 DEF InodeType, Positions
  <2> QED BY <2>1, <2>3 DEF DiskType
<1> DEFINE s(k) == Stored(d.darray[ps[k]], k, o, n, x)
<1>3. ASSUME NEW i \in 1 .. N
      PROVE  a + i - 1 \in a .. b /\ ws[i] = Sdwrite("darray", ps[a + i - 1], s(a + i - 1))
  <2>1. a + i - 1 \in a .. b
    BY <1>1
  <2>2. ws[i] = Sdwrite("darray", PointerAt(y, a + i - 1),
                        Stored(d.darray[PointerAt(y, a + i - 1)], a + i - 1, o, n, x))
    BY DEF DataOf
  <2>3. PointerAt(y, a + i - 1) = ps[a + i - 1]
    BY <1>2, <2>1
  <2> QED BY <2>1, <2>2, <2>3
<1>4. \A k \in a .. b : s(k) \in SectorType /\ s(k).dir = <<>>
  BY <1>2, StoredType
<1> HIDE DEF s
<1>5. ASSUME NEW i \in 1 .. N
      PROVE  /\ ws[i].area = "darray" /\ ws[i].at = ps[a + i - 1] /\ ws[i].data = s(a + i - 1)
             /\ ws[i] \in Quiet
  <2> DEFINE k == a + i - 1
  <2>1. k \in a .. b /\ ws[i] = Sdwrite("darray", ps[k], s(k))
    BY <1>3
  <2> HIDE DEF k
  <2>2. ps[k] \in Blocks /\ s(k) \in SectorType /\ s(k).dir = <<>>
    BY <1>2, <1>4, <2>1
  <2> HIDE DEF ws, ps
  <2>3. ws[i].area = "darray" /\ ws[i].at = ps[k] /\ ws[i].data = s(k)
    BY <2>1 DEF Sdwrite
  <2>4. ws[i] \in Writes
    <3>1. Sdwrite("darray", ps[k], s(k)) \in Writes
      BY <2>2 DEF Sdwrite, Writes
    <3> QED BY <2>1, <3>1
  <2>5. ws[i] \in Quiet
    BY <2>2, <2>3, <2>4 DEF Quiet, NoItems
  <2> QED BY <2>3, <2>5 DEF k
<1>6. DOMAIN ws = 1 .. N
  BY DEF DataOf
<1>7. ws \in Seq(Quiet) /\ Len(ws) = N
  <2>1. ws = [i \in 1 .. N |-> ws[i]]
    BY DEF DataOf
  <2> HIDE DEF ws, N
  <2> QED BY <1>1, <1>5, <2>1, SMTT(30)
<1> HIDE DEF ws
<1>8. ws \in Seq(Writes)
  BY <1>7, SeqWrites
<1>9. /\ e \in DiskType
      /\ e.super = c.super /\ e.imap = c.imap /\ e.smap = c.smap /\ e.iarray = c.iarray
      /\ \A q \in Blocks : (\A i \in 1 .. N : ws[i].at # q) => e.darray[q] = c.darray[q]
      /\ Distinct(ws, N) => \A i \in 1 .. N : e.darray[ws[i].at] = ws[i].data
  <2>1. \A i \in 1 .. Len(ws) : ws[i].area = "darray"
    BY <1>5, <1>7
  <2>2. /\ e \in DiskType
        /\ e.super = c.super /\ e.imap = c.imap /\ e.smap = c.smap /\ e.iarray = c.iarray
        /\ \A q \in Blocks : (\A i \in 1 .. Len(ws) : ws[i].at # q) => e.darray[q] = c.darray[q]
        /\ Distinct(ws, Len(ws)) => \A i \in 1 .. Len(ws) : e.darray[ws[i].at] = ws[i].data
    BY <1>8, <2>1, DataWrites
  <2> QED BY <1>7, <2>2
<1> HIDE DEF e
<1>10. ASSUME NEW k \in a .. b
       PROVE  \E i \in 1 .. N : k = a + i - 1
  <2>1. k - a + 1 \in 1 .. N /\ k = a + (k - a + 1) - 1
    BY <1>1
  <2> QED BY <2>1
<1>11. ASSUME NEW q \in Blocks, \A k \in a .. b : ps[k] # q PROVE e.darray[q] = d.darray[q]
  BY <1>3, <1>5, <1>9, <1>11
<1>12. ASSUME \A k, l \in a .. b : ps[k] = ps[l] => k = l, NEW k \in a .. b
       PROVE  e.darray[ps[k]] = s(k)
  <2>1. Distinct(ws, N)
    <3> SUFFICES ASSUME NEW i \in 1 .. N, NEW j \in 1 .. N, ws[i].at = ws[j].at
                 PROVE  i = j
      BY DEF Distinct
    <3>1. a + i - 1 = a + j - 1
      BY <1>3, <1>5, <1>12
    <3> QED BY <1>1, <3>1
  <2>2. PICK i \in 1 .. N : k = a + i - 1
    BY <1>10
  <2> QED BY <1>5, <1>9, <2>1, <2>2
<1>13. Filled(d, e, ps, o, n, x)
  BY <1>2, <1>11, <1>12 DEF Filled, s
<1> QED BY <1>7, <1>9, <1>13 DEF ws, e

\* What fwrite returns.
FwriteEvents(d, ino, o) ==
  (IF o > Inode(d, ino).size_allocated THEN {"beyond"} ELSE {})
  \cup (IF o # Inode(d, ino).size THEN {"seek"} ELSE {})

WithSize(x, n) == [x EXCEPT !.size = @ + n]

FwriteIs(d, ino, g, o, n, x) ==
  LET data == DataOf(d, g.inode, o, n, x)
      lost == g.status = "lost" \/ \E k \in FirstSector(o) .. LastSector(o, n) : PointerAt(g.inode, k) = Wild
  IN  IF g.status = "full"
      THEN [m |-> g.m, w |-> Append(g.w, WriteInode(d, ino, g.inode)), events |-> {}, n |-> 0]
      ELSE IF lost THEN [m |-> g.m, w |-> <<>>, events |-> {"lost"}, n |-> 0]
      ELSE [m |-> g.m, n |-> n,
            w |-> (g.w \o data) \o <<WriteInode(d, ino, WithSize(g.inode, n))>>,
            events |-> FwriteEvents(d, ino, o)]

LEMMA FirstLast ==
  ASSUME NEW o \in Nat, NEW n \in Nat \ {0}
  PROVE  FirstSector(o) \in Nat /\ LastSector(o, n) \in Nat
<1>1. o + n - 1 \in Nat /\ SECTOR_SIZE \in Nat \ {0}
  BY Consts
<1> QED BY <1>1, DivMod DEF FirstSector, LastSector

LEMMA FwriteForm ==
  ASSUME NEW m, NEW d, NEW fd, NEW n \in Nat \ {0}, NEW x, fd.offset \in Nat
  PROVE  LET ino == fd.ino
             needed == BlocksNeeded(Inode(d, ino), fd.offset, n)
             g == FileGrows(d, m, Inode(d, ino), needed)[needed]
         IN  fwrite(m, d, fd, n, x) = FwriteIs(d, ino, g, fd.offset, n, x)
<1> DEFINE ino == fd.ino
           o == fd.offset
           needed == BlocksNeeded(Inode(d, ino), o, n)
           g == FileGrows(d, m, Inode(d, ino), needed)[needed]
           a == FirstSector(o)
           b == LastSector(o, n)
           block(k) == offset_to_pointer(g.inode, k * SECTOR_SIZE)
           data == [i \in 1 .. b - a + 1 |->
                      Sdwrite("darray", block(a + i - 1),
                              Stored(d.darray[block(a + i - 1)], a + i - 1, o, n, x))]
           lost == g.status = "lost" \/ \E k \in a .. b : block(k) = Wild
           ws == g.w \o data \o <<WriteInode(d, ino, [g.inode EXCEPT !.size = @ + n])>>
<1>1. fwrite(m, d, fd, n, x)
        = IF g.status = "full"
          THEN [m |-> g.m, w |-> Append(g.w, WriteInode(d, ino, g.inode)), events |-> {}, n |-> 0]
          ELSE IF lost THEN [m |-> g.m, w |-> <<>>, events |-> {"lost"}, n |-> 0]
          ELSE [m |-> g.m, n |-> n, w |-> ws, events |-> FwriteEvents(d, ino, o)]
  BY Zenon DEF fwrite, FwriteEvents, FirstSector, LastSector
<1> HIDE DEF g
<1>2. a \in Nat /\ b \in Nat
  BY FirstLast
<1> HIDE DEF a, b
<1>3. \A k \in Nat : block(k) = PointerAt(g.inode, k)
  BY PointerIs
<1> HIDE DEF block
<1>4. data = DataOf(d, g.inode, o, n, x)
  <2>1. \A i \in 1 .. b - a + 1 : block(a + i - 1) = PointerAt(g.inode, a + i - 1)
    BY <1>2, <1>3
  <2> QED BY <2>1 DEF DataOf, a, b
<1>5. lost <=> g.status = "lost" \/ \E k \in a .. b : PointerAt(g.inode, k) = Wild
  BY <1>2, <1>3
<1> HIDE DEF data, lost
<1>6. fwrite(m, d, fd, n, x) = FwriteIs(d, ino, g, o, n, x)
  BY <1>1, <1>4, <1>5, Zenon DEF FwriteIs, WithSize, a, b
<1> QED BY <1>6 DEF g

LEMMA NeededNat ==
  ASSUME NEW x \in InodeType, NEW o \in Nat, NEW n \in Nat \ {0}
  PROVE  /\ BlocksNeeded(x, o, n) \in Nat
         /\ o <= x.size_allocated =>
              o + n <= x.size_allocated + BlocksNeeded(x, o, n) * SECTOR_SIZE
<1> DEFINE rest == x.size_allocated - o
           z == n - rest + SECTOR_SIZE - 1
           q == z \div SECTOR_SIZE
<1>0. x.size_allocated \in Nat /\ SECTOR_SIZE \in Nat \ {0} /\ rest \in Int
  BY Consts DEF InodeType
<1>1. BlocksNeeded(x, o, n) = IF rest < 0 \/ rest >= n THEN 0 ELSE q
  BY DEF BlocksNeeded
<1>2. CASE rest < 0 \/ rest >= n
  <2>1. BlocksNeeded(x, o, n) = 0
    BY <1>1, <1>2
  <2>2. 0 * SECTOR_SIZE = 0
    BY <1>0
  <2> QED BY <1>0, <1>2, <2>1, <2>2
<1>3. CASE ~ (rest < 0 \/ rest >= n)
  <2>1. z \in Nat
    BY <1>0, <1>3
  <2>2. q \in Nat /\ z % SECTOR_SIZE \in 0 .. SECTOR_SIZE - 1 /\ z = q * SECTOR_SIZE + (z % SECTOR_SIZE)
    <3> HIDE DEF z
    <3> QED BY <1>0, <2>1, DivMod
  <2> HIDE DEF q
  <2>3. q * SECTOR_SIZE \in Nat
    BY <1>0, <2>2
  <2> DEFINE u == q * SECTOR_SIZE
             t == z % SECTOR_SIZE
  <2>4. z = u + t /\ t <= SECTOR_SIZE - 1 /\ t \in Nat
    BY <1>0, <2>2
  <2> HIDE DEF u, t
  <2>5. u \in Nat
    BY <2>3 DEF u
  <2>6. n - rest <= u
    BY <1>0, <2>4, <2>5
  <2>7. o + n <= x.size_allocated + u
    BY <1>0, <2>5, <2>6
  <2> QED BY <1>1, <1>3, <2>2, <2>7 DEF u
<1> QED BY <1>2, <1>3

LEMMA WithSizeFacts ==
  ASSUME NEW x \in InodeType, NEW n \in Nat
  PROVE  LET y == WithSize(x, n)
         IN  /\ y \in InodeType /\ y.type = x.type /\ y.size = x.size + n
             /\ y.size_allocated = x.size_allocated /\ y.pointers = x.pointers
<1>1. x.size \in Nat
  BY DEF InodeType
<1>2. WithSize(x, n) = InodeOf(x.type, x.size + n, x.size_allocated, x.pointers)
  BY DEF WithSize, InodeOf, InodeType
<1>3. WithSize(x, n) \in InodeType
  BY <1>1, <1>2 DEF InodeOf, InodeType
<1> QED BY <1>2, <1>3 DEF InodeOf

LEMMA WritesInode ==
  ASSUME NEW d \in DiskType, NEW ino \in Inos, NEW x \in InodeType
  PROVE  WriteInode(d, ino, x) \in Quiet
<1>1. WriteInode(d, ino, x) \in Writes
  BY OnInode
<1> QED BY <1>1 DEF Quiet, WriteInode, Sdwrite

\* What fwrite leaves: all of it, none for want of a block, or it is lost.
FwriteEnds(m, d, r, f, g, ino, o, n, x) ==
  /\ r.m = g.m /\ Grown(d, m, ino, g)
  /\ \/ r.events = {"lost"} /\ r.n = 0
     \/ /\ r.events = {} /\ r.n = 0 /\ f.darray = d.darray
        /\ Sync(r.m, f) /\ Wrote(d, f, ino, g, g.inode)
     \/ /\ r.events = FwriteEvents(d, ino, o) /\ r.n = n
        /\ g.inode.size_allocated
             = Inode(d, ino).size_allocated + BlocksNeeded(Inode(d, ino), o, n) * SECTOR_SIZE
        /\ Sync(r.m, f) /\ Wrote(d, f, ino, g, WithSize(g.inode, n))
        /\ Filled(d, f, g.inode.pointers, o, n, x)

LEMMA FwriteDone ==
  ASSUME NEW m \in MemType, NEW d \in DiskType, Sync(m, d), NEW fd, fd.ino \in Inos,
         fd.offset \in Nat, NEW n \in Nat \ {0}, NEW x \in Values
  PROVE  LET r == fwrite(m, d, fd, n, x)  f == WrittenAll(d, r.w)
         IN  /\ r.m \in MemType /\ r.w \in Seq(Quiet) /\ f \in DiskType
             /\ \E g : FwriteEnds(m, d, r, f, g, fd.ino, fd.offset, n, x)
<1> DEFINE ino == fd.ino
           o == fd.offset
           needed == BlocksNeeded(Inode(d, ino), o, n)
           g == FileGrows(d, m, Inode(d, ino), needed)[needed]
           r == fwrite(m, d, fd, n, x)
           c == WrittenAll(d, g.w)
<1>1. r = FwriteIs(d, ino, g, o, n, x)
  BY FwriteForm
<1>2. needed \in Nat
  BY InodeIn, NeededNat
<1> HIDE DEF needed
<1>3. /\ Grown(d, m, ino, g)
      /\ g.status = "ok" =>
           g.inode.size_allocated = Inode(d, ino).size_allocated + needed * SECTOR_SIZE
  BY <1>2, GrowDone
<1> HIDE DEF g, r
<1>4. /\ g \in GrowType /\ c \in DiskType /\ Sync(g.m, c)
      /\ c.imap = d.imap /\ c.iarray = d.iarray /\ c.darray = d.darray
  BY <1>3 DEF Grown
<1>5. /\ g.m \in MemType /\ g.w \in Seq(Quiet) /\ g.inode \in InodeType
      /\ g.status \in {"ok", "full", "lost"}
  BY <1>4 DEF GrowType
<1> DEFINE lost == g.status = "lost" \/ \E k \in FirstSector(o) .. LastSector(o, n) : PointerAt(g.inode, k) = Wild
<1>6. CASE g.status = "full"
  <2> DEFINE w == WriteInode(d, ino, g.inode)
             ws == Append(g.w, w)
             f == Written(c, w)
  <2>1. r = [m |-> g.m, w |-> ws, events |-> {}, n |-> 0]
    BY <1>1, <1>6, Zenon DEF FwriteIs
  <2> HIDE DEF ws
  <2>2. r.m = g.m /\ r.w = ws /\ r.events = {} /\ r.n = 0
    BY <2>1
  <2>3. /\ w \in Writes /\ f \in DiskType
        /\ f.super = c.super /\ f.imap = c.imap /\ f.smap = c.smap /\ f.darray = c.darray
        /\ Inode(f, ino) = g.inode /\ \A j \in Inos : j # ino => Inode(f, j) = Inode(c, j)
    BY <1>4, <1>5, OnInode
  <2>4. w \in Quiet
    BY <1>5, WritesInode
  <2> HIDE DEF w
  <2>5. ws \in Seq(Quiet) /\ WrittenAll(d, ws) = f
    <3>1. OneMore(ws, g.w, w)
      BY DEF ws, OneMore
    <3> QED BY <1>5, <2>4, <3>1, WriteMore
  <2> HIDE DEF f
  <2>6. Sync(r.m, f)
    BY <1>4, <2>2, <2>3, SyncOf
  <2>7. OtherInodes(d, f, ino)
    BY <1>4, <2>3 DEF OtherInodes, Inode
  <2>8. Wrote(d, f, ino, g, g.inode)
    BY <1>4, <2>3, <2>7 DEF Wrote
  <2>9. FwriteEnds(m, d, r, f, g, ino, o, n, x)
    BY <1>3, <1>4, <2>2, <2>3, <2>6, <2>8 DEF FwriteEnds
  <2> QED BY <1>5, <2>2, <2>3, <2>5, <2>9 DEF r
<1>7. CASE g.status # "full" /\ lost
  <2>1. r = [m |-> g.m, w |-> <<>>, events |-> {"lost"}, n |-> 0]
    BY <1>1, <1>7, Zenon DEF FwriteIs
  <2>2. r.m = g.m /\ r.w = <<>> /\ r.events = {"lost"} /\ r.n = 0
    BY <2>1
  <2>3. <<>> \in Seq(Quiet) /\ WrittenAll(d, <<>>) = d
    BY WriteNone
  <2>4. FwriteEnds(m, d, r, d, g, ino, o, n, x)
    BY <1>3, <2>2 DEF FwriteEnds
  <2> QED BY <1>5, <2>2, <2>3, <2>4 DEF r
<1>8. CASE g.status # "full" /\ ~ lost
  <2> DEFINE y == WithSize(g.inode, n)
             w == WriteInode(d, ino, y)
             data == DataOf(d, g.inode, o, n, x)
             vs == g.w \o data
             ws == vs \o <<w>>
             e == WrittenAll(c, data)
             f == Written(e, w)
  <2>1. r = [m |-> g.m, n |-> n, w |-> ws, events |-> FwriteEvents(d, ino, o)]
    BY <1>1, <1>8, Zenon DEF FwriteIs
  <2>2. g.status = "ok"
    BY <1>5, <1>8
  <2>3. \A k \in FirstSector(o) .. LastSector(o, n) : PointerAt(g.inode, k) # Wild
    BY <1>8
  <2>4. /\ data \in Seq(Quiet) /\ e \in DiskType
        /\ e.super = c.super /\ e.imap = c.imap /\ e.smap = c.smap /\ e.iarray = c.iarray
        /\ Filled(d, e, g.inode.pointers, o, n, x)
    <3> HIDE DEF c
    <3>1. g.inode \in InodeType /\ o \in Nat
      BY <1>5
    <3>2. ASSUME NEW z \in InodeType, \A k \in FirstSector(o) .. LastSector(o, n) : PointerAt(z, k) # Wild
          PROVE  LET us == DataOf(d, z, o, n, x)  b == WrittenAll(c, us)
                 IN  /\ us \in Seq(Quiet) /\ b \in DiskType
                     /\ b.super = c.super /\ b.imap = c.imap /\ b.smap = c.smap /\ b.iarray = c.iarray
                     /\ Filled(d, b, z.pointers, o, n, x)
      <4> DEFINE t == o
      <4>1. t \in Nat /\ \A k \in FirstSector(t) .. LastSector(t, n) : PointerAt(z, k) # Wild
        BY <3>2
      <4> HIDE DEF t
      <4>2. LET us == DataOf(d, z, t, n, x)  b == WrittenAll(c, us)
            IN  /\ us \in Seq(Quiet) /\ b \in DiskType
                /\ b.super = c.super /\ b.imap = c.imap /\ b.smap = c.smap /\ b.iarray = c.iarray
                /\ Filled(d, b, z.pointers, t, n, x)
        BY <1>4, <4>1, DataDone
      <4> QED BY <4>2 DEF t
    <3> QED BY <2>3, <3>1, <3>2
  <2> HIDE DEF lost, data
  <2>5. /\ y \in InodeType /\ y.type = g.inode.type /\ y.size_allocated = g.inode.size_allocated
        /\ y.pointers = g.inode.pointers
    BY <1>5, WithSizeFacts
  <2> HIDE DEF y
  <2>6. /\ w \in Writes /\ f \in DiskType
        /\ f.super = e.super /\ f.imap = e.imap /\ f.smap = e.smap /\ f.darray = e.darray
        /\ Inode(f, ino) = y /\ \A j \in Inos : j # ino => Inode(f, j) = Inode(e, j)
    <3>1. e \in DiskType /\ e.iarray = d.iarray
      BY <1>4, <2>4
    <3> HIDE DEF e
    <3> QED BY <2>5, <3>1, OnInode
  <2>7. w \in Quiet
    BY <2>5, WritesInode
  <2> HIDE DEF w
  <2>8. r.m = g.m /\ r.w = ws /\ r.events = FwriteEvents(d, ino, o) /\ r.n = n
    <3> HIDE DEF ws
    <3> QED BY <2>1
  <2>9. vs \in Seq(Quiet) /\ WrittenAll(d, vs) = e
    <3>1. g.w \in Seq(Quiet) /\ data \in Seq(Quiet)
      BY <1>5, <2>4
    <3>2. vs \in Seq(Quiet)
      BY <3>1
    <3> QED BY <3>1, <3>2, WriteConcat
  <2>10. ws \in Seq(Quiet) /\ WrittenAll(d, ws) = f
    <3>1. OneMore(ws, vs, w)
      BY DEF OneMore
    <3> HIDE DEF ws, vs, e
    <3> QED BY <2>7, <2>9, <3>1, WriteMore
  <2> HIDE DEF f, e, ws, vs
  <2>11. Sync(r.m, f)
    BY <1>4, <2>4, <2>6, <2>8, SyncOf
  <2>12. OtherInodes(d, f, ino)
    BY <1>4, <2>4, <2>6 DEF OtherInodes, Inode
  <2>13. Wrote(d, f, ino, g, y)
    BY <1>4, <2>4, <2>5, <2>6, <2>12 DEF Wrote
  <2>14. Filled(d, f, g.inode.pointers, o, n, x)
    BY <2>4, <2>6 DEF Filled
  <2>15. g.inode.size_allocated = Inode(d, ino).size_allocated + needed * SECTOR_SIZE
    BY <1>3, <2>2
  <2>16. FwriteEnds(m, d, r, f, g, ino, o, n, x)
    BY <1>3, <2>8, <2>11, <2>13, <2>14, <2>15 DEF FwriteEnds, y, needed
  <2> QED BY <1>5, <2>6, <2>8, <2>10, <2>16 DEF r
<1> QED BY <1>6, <1>7, <1>8

-----------------------------------------------------------------------------
\* mkfs and mount.

LEMMA Blank ==
  /\ BlankInode \in InodeType /\ BlankDisk \in DiskType
<1>1. BlankInode \in InodeType
  BY Consts DEF BlankInode, InodeType
<1>2. BlankSector \in SectorType /\ Counts(0, 0) \in CountsType
  BY DEF BlankSector, SectorType, Counts, CountsType
<1> DEFINE a == [k \in {0} |-> [inode_used |-> 0, data_used |-> 0]]
           b == [k \in {0} |-> {}]
           c == [k \in 0 .. SMAP_SECTORS - 1 |-> {}]
           e == [g \in Groups |-> [i \in InGroup |-> BlankInode]]
           f == [p \in Blocks |-> BlankSector]
<1>3. a \in [{0} -> CountsType] /\ b \in [{0} -> SUBSET Inos] /\ c \in [0 .. SMAP_SECTORS - 1 -> SUBSET Bits]
      /\ e \in [Groups -> [InGroup -> InodeType]] /\ f \in [Blocks -> SectorType]
  BY <1>1, <1>2 DEF Counts
<1>4. BlankDisk = [super |-> a, imap |-> b, smap |-> c, iarray |-> e, darray |-> f]
  BY DEF BlankDisk
<1> HIDE DEF a, b, c, e, f
<1>5. BlankDisk \in DiskType
  BY <1>3, <1>4 DEF DiskType
<1> QED BY <1>1, <1>5

\* The sectors of smap but the first are cleared.
Clears == [k \in 1 .. SMAP_SECTORS - 1 |-> Sdwrite("smap", k, {})]

LEMMA Cleared ==
  ASSUME NEW c \in DiskType
  PROVE  LET e == WrittenAll(c, Clears)
         IN  /\ Clears \in Seq(Writes) /\ e \in DiskType
             /\ e.super = c.super /\ e.imap = c.imap /\ e.iarray = c.iarray /\ e.darray = c.darray
             /\ e.smap[0] = c.smap[0] /\ \A k \in 1 .. SMAP_SECTORS - 1 : e.smap[k] = {}
<1> DEFINE N == SMAP_SECTORS - 1
           a == WrittenUpTo(c, Clears)
           P(n) ==
             /\ a[n] \in DiskType
             /\ a[n].super = c.super /\ a[n].imap = c.imap /\ a[n].iarray = c.iarray
             /\ a[n].darray = c.darray /\ a[n].smap[0] = c.smap[0]
             /\ \A k \in 1 .. n : a[n].smap[k] = {}
           T == {n \in 0 .. N : P(n)}
<1>0. N \in Nat /\ N \in 0 .. N
  BY Consts
<1>1. \A k \in 1 .. N : Clears[k] = Sdwrite("smap", k, {}) /\ Clears[k] \in Writes
  <2> TAKE k \in 1 .. N
  <2>1. Clears[k] = Sdwrite("smap", k, {})
    BY DEF Clears
  <2>2. k \in 0 .. SMAP_SECTORS - 1 /\ {} \in SUBSET Bits
    BY <1>0
  <2> QED BY <2>1, <2>2 DEF Sdwrite, Writes
<1>2. Clears \in Seq(Writes) /\ Len(Clears) = N
  <2>1. Clears = [k \in 1 .. N |-> Clears[k]]
    BY DEF Clears
  <2> HIDE DEF N
  <2> QED BY <1>0, <1>1, <2>1
<1>3. a[0] = c /\ \A n \in 1 .. N : a[n] = Written(a[n - 1], Clears[n])
  BY <1>2, WriteTurns
<1> HIDE DEF a
<1>4. 0 \in T
  BY <1>0, <1>3
<1>5. ASSUME NEW n \in 1 .. N, n - 1 \in T PROVE n \in T
  <2> DEFINE b == a[n - 1]
             e == a[n]
             z == {}
  <2>1. P(n - 1) /\ e = Written(b, Sdwrite("smap", n, z)) /\ n \in 0 .. N
    BY <1>0, <1>1, <1>3, <1>5
  <2>2. b \in DiskType /\ n \in 0 .. SMAP_SECTORS - 1 /\ z \in SUBSET Bits
    BY <1>0, <2>1
  <2> HIDE DEF b, e, z
  <2>3. /\ e \in DiskType /\ e.super = b.super /\ e.imap = b.imap
        /\ e.smap = [b.smap EXCEPT ![n] = z] /\ e.iarray = b.iarray /\ e.darray = b.darray
    BY <2>1, <2>2, OnSmap
  <2>4. b.smap \in [0 .. SMAP_SECTORS - 1 -> SUBSET Bits]
    BY <2>2 DEF DiskType
  <2>5. e.smap[n] = {} /\ \A k \in 0 .. SMAP_SECTORS - 1 : k # n => e.smap[k] = b.smap[k]
    BY <2>2, <2>3, <2>4 DEF z
  <2>6. 0 \in 0 .. SMAP_SECTORS - 1 /\ 0 # n
    BY <1>0
  <2>7. e.smap[0] = c.smap[0]
    BY <2>1, <2>5, <2>6 DEF b
  <2>8. ASSUME NEW k \in 1 .. n PROVE e.smap[k] = {}
    <3>1. CASE k = n
      BY <2>5, <3>1
    <3>2. CASE k # n
      <4>1. k \in 1 .. n - 1 /\ k \in 0 .. SMAP_SECTORS - 1
        BY <1>0, <3>2
      <4> QED BY <2>1, <2>5, <3>2, <4>1 DEF b
    <3> QED BY <3>1, <3>2
  <2>9. P(n)
    BY <2>1, <2>3, <2>7, <2>8 DEF b, e
  <2> QED BY <2>1, <2>9
<1> HIDE DEF T
<1>6. \A n \in 0 .. N : n \in T
  BY <1>0, <1>4, <1>5, Turns
<1>7. P(N)
  BY <1>0, <1>6 DEF T
<1> QED BY <1>2, <1>7 DEF WrittenAll, a

\* A new file system: the root, which is empty.
Fresh(f) ==
  /\ f.super[0] = Counts(1, 1) /\ f.imap[0] = {Root} /\ Marked(f) = {Root}
  /\ Inode(f, Root).type = "dir" /\ Inode(f, Root).size_allocated = SECTOR_SIZE
  /\ Inode(f, Root).pointers[0] = Root
  /\ IsDir(f, Root) /\ ReadDir(f, Root) = EmptyDir(Root)

LEMMA MkfsDone ==
  ASSUME NEW d \in DiskType
  PROVE  LET f == WrittenAll(d, mkfs)
         IN  /\ f \in DiskType /\ Fresh(f)
             /\ \A q \in Blocks : q # Root => f.darray[q] = d.darray[q]
<1> DEFINE root == DirInode(BlankInode, Root)
           group == [i \in InGroup |-> IF i = Root THEN root ELSE BlankInode]
           wa == Sdwrite("super", 0, Counts(1, 1))
           wb == Sdwrite("imap", 0, {Root})
           wc == Sdwrite("smap", 0, {Root})
           we == Sdwrite("iarray", 0, group)
           wf == Sdwrite("darray", Root, DirSector(EmptyDir(Root)))
           three == <<wa, wb, wc>>
           two == <<we, wf>>
           d1 == Written(d, wa)
           d2 == Written(d1, wb)
           d3 == Written(d2, wc)
           d4 == WrittenAll(d3, Clears)
           d5 == Written(d4, we)
           f == Written(d5, wf)
<1>1. mkfs = three \o Clears \o two
  BY Zenon DEF mkfs, Clears, DirInode, Counts
<1>2. root \in InodeType /\ root.type = "dir" /\ root.size_allocated = SECTOR_SIZE
      /\ root.pointers[0] = Root
  BY Blank, NewInodes, Consts
<1>3. group \in [InGroup -> InodeType] /\ group[Root] = root
  <2> HIDE DEF root
  <2> QED BY <1>2, Blank, Consts
<1> HIDE DEF group
<1>4. /\ Counts(1, 1) \in CountsType /\ {Root} \in SUBSET Inos /\ {Root} \in SUBSET Bits
      /\ 0 \in 0 .. SMAP_SECTORS - 1 /\ EmptyDir(Root) \in DirType
  <2>1. Counts(1, 1) \in CountsType
    BY DEF Counts, CountsType
  <2>2. EmptyDir(Root) \in DirType
    BY EmptyDirType, Consts
  <2> QED BY <2>1, <2>2, Consts DEF Bits
<1>5. /\ wa \in Writes /\ d1 \in DiskType /\ d1.super[0] = Counts(1, 1) /\ d1.darray = d.darray
  BY <1>4, OnSuper
<1>6. /\ wb \in Writes /\ d2 \in DiskType /\ d2.super = d1.super /\ d2.imap[0] = {Root}
      /\ d2.darray = d1.darray
  <2> HIDE DEF d1
  <2> QED BY <1>4, <1>5, OnImap
<1>7. /\ wc \in Writes /\ d3 \in DiskType /\ d3.super = d2.super /\ d3.imap = d2.imap
      /\ d3.smap[0] = {Root} /\ d3.darray = d2.darray
  <2> HIDE DEF d2
  <2>1. /\ wc \in Writes /\ d3 \in DiskType /\ d3.super = d2.super /\ d3.imap = d2.imap
        /\ d3.smap = [d2.smap EXCEPT ![0] = {Root}] /\ d3.darray = d2.darray
    BY <1>4, <1>6, OnSmap, SMTT(30)
  <2>2. d2.smap \in [0 .. SMAP_SECTORS - 1 -> SUBSET Bits]
    BY <1>6 DEF DiskType
  <2> QED BY <1>4, <2>1, <2>2
<1>8. /\ Clears \in Seq(Writes) /\ d4 \in DiskType /\ d4.super = d3.super /\ d4.imap = d3.imap
      /\ d4.smap[0] = {Root} /\ \A k \in 1 .. SMAP_SECTORS - 1 : d4.smap[k] = {}
      /\ d4.darray = d3.darray
  <2> HIDE DEF d3
  <2> QED BY <1>7, Cleared
<1>9. /\ we \in Writes /\ d5 \in DiskType /\ d5.super = d4.super /\ d5.imap = d4.imap
      /\ d5.smap = d4.smap /\ d5.iarray[0] = group /\ d5.darray = d4.darray
  <2> HIDE DEF d4
  <2>1. /\ we \in Writes /\ d5 \in DiskType /\ d5.super = d4.super /\ d5.imap = d4.imap
        /\ d5.smap = d4.smap /\ d5.iarray = [d4.iarray EXCEPT ![0] = group] /\ d5.darray = d4.darray
    BY <1>3, <1>8, OnIarray, Consts
  <2>2. d4.iarray \in [Groups -> [InGroup -> InodeType]]
    BY <1>8 DEF DiskType
  <2> QED BY <2>1, <2>2, Consts
<1>10. /\ wf \in Writes /\ f \in DiskType /\ f.super = d5.super /\ f.imap = d5.imap
       /\ f.smap = d5.smap /\ f.iarray = d5.iarray
       /\ IsDir(f, Root) /\ ReadDir(f, Root) = EmptyDir(Root)
       /\ \A q \in Blocks : q # Root => f.darray[q] = d5.darray[q]
  <2> HIDE DEF d5
  <2> QED BY <1>4, <1>9, OnDir, Consts
<1>11. WrittenAll(d, mkfs) = f
  <2> HIDE DEF wa, wb, wc, we, wf, Clears
  <2>1. three \in Seq(Writes) /\ two \in Seq(Writes)
    BY <1>5, <1>6, <1>7, <1>9, <1>10
  <2>2. WrittenAll(d, three) = d3
    <3> DEFINE ab == <<wa, wb>>
    <3>1. ab \in Seq(Writes) /\ three = Append(ab, wc)
      BY <1>5, <1>6
    <3>2. WrittenAll(d, ab) = d2
      BY WriteTwo
    <3>3. OneMore(three, ab, wc)
      BY <3>1, Zenon DEF OneMore
    <3> HIDE DEF ab, three
    <3>4. WrittenAll(d, three) = Written(WrittenAll(d, ab), wc)
      BY <1>7, <3>1, <3>3, WriteMore
    <3> QED BY <3>2, <3>4
  <2> HIDE DEF three, two, d3
  <2>3. three \o Clears \in Seq(Writes)
    BY <1>8, <2>1, ConcatProperties
  <2>4. WrittenAll(d, three \o Clears) = d4
    BY <1>8, <2>1, <2>2, WriteConcat
  <2>5. WrittenAll(d, (three \o Clears) \o two) = WrittenAll(d4, two)
    <3> DEFINE tc == three \o Clears
    <3>1. tc \in Seq(Writes) /\ WrittenAll(d, tc) = d4
      BY <2>3, <2>4
    <3> HIDE DEF tc
    <3>2. WrittenAll(d, tc \o two) = WrittenAll(WrittenAll(d, tc), two)
      BY <2>1, <3>1, WriteConcat
    <3> QED BY <3>1, <3>2 DEF tc
  <2> HIDE DEF d4
  <2>6. WrittenAll(d4, two) = f
    BY WriteTwo DEF two
  <2> QED BY <1>1, <2>5, <2>6
<1>12. Inode(f, Root) = root
  <2>1. Root \div INODES_PER_SECTOR = 0 /\ Root % INODES_PER_SECTOR = Root
    <3>1. INODES_PER_SECTOR \in Nat \ {0} /\ Root = 0
      BY Consts
    <3> QED BY <3>1
  <2> HIDE DEF root, d5, f
  <2> QED BY <1>3, <1>9, <1>10, <2>1 DEF Inode
<1>13. Marked(f) = {Root}
  <2> HIDE DEF f, d5, d4
  <2>1. f.smap[0] = {Root} /\ \A k \in 1 .. SMAP_SECTORS - 1 : f.smap[k] = {}
    BY <1>8, <1>9, <1>10
  <2>2. ASSUME NEW p \in Blocks
        PROVE  p % SMAP_BITS \in f.smap[p \div SMAP_BITS] <=> p = Root
    <3>1. /\ p \div SMAP_BITS \in 0 .. SMAP_SECTORS - 1 /\ p % SMAP_BITS \in Bits
          /\ p = (p \div SMAP_BITS) * SMAP_BITS + (p % SMAP_BITS)
      BY BlockPlace
    <3>2. SMAP_BITS \in Nat \ {0} /\ Root = 0 /\ SMAP_SECTORS \in Nat
      BY Consts
    <3>3. CASE p \div SMAP_BITS = 0
      <4>1. p = p % SMAP_BITS
        BY <3>1, <3>2, <3>3 DEF Bits
      <4> QED BY <2>1, <3>3, <4>1
    <3>4. CASE p \div SMAP_BITS # 0
      <4>1. p \div SMAP_BITS \in 1 .. SMAP_SECTORS - 1
        BY <3>1, <3>2, <3>4
      <4>2. p # 0
        BY <3>2, <3>4
      <4> QED BY <2>1, <3>2, <4>1, <4>2
    <3> QED BY <3>3, <3>4
  <2> QED BY <2>2, Consts DEF Marked
<1> HIDE DEF root, d1, d2, d3, d4, d5, f
<1>14. f.super[0] = Counts(1, 1) /\ f.imap[0] = {Root}
  BY <1>5, <1>6, <1>7, <1>8, <1>9, <1>10
<1>15. Fresh(f)
  BY <1>2, <1>10, <1>12, <1>13, <1>14 DEF Fresh
<1>16. \A q \in Blocks : q # Root => f.darray[q] = d.darray[q]
  BY <1>5, <1>6, <1>7, <1>8, <1>9, <1>10
<1> QED BY <1>10, <1>11, <1>15, <1>16

LEMMA MountDone ==
  ASSUME NEW d \in DiskType, IsDir(d, Root)
  PROVE  LET m == mount(d)
         IN  /\ m \in MemType /\ Sync(m, d) /\ m.current_dir = ReadDir(d, Root)
             /\ m.current_dir_pointer = Root
<1>1. /\ d.super[0] \in CountsType /\ d.imap[0] \in SUBSET Inos /\ d.smap[0] \in SUBSET Bits
      /\ 0 \in 0 .. SMAP_SECTORS
  BY Consts DEF DiskType
<1>2. ReadDir(d, Root) \in DirType /\ Root \in Blocks
  BY DirIn
<1>3. mount(d) = MemOf(d.super[0], d.imap[0], d.smap[0], 0, ReadDir(d, Root), Root)
  BY Zenon DEF mount, MemOf
<1>4. \A x : MemOf(d.super[0], d.imap[0], d.smap[0], 0, x, Root).current_dir = x
  BY DEF MemOf
<1> QED BY <1>1, <1>2, <1>3, <1>4 DEF MemOf, MemType, Sync

-----------------------------------------------------------------------------
\* What holds whatever has gone wrong before.

FdType == [ino : InGroup, access : {"O_RDWR", "O_RD"}, size : Nat, offset : Nat]
FileType == [Offsets -> Values \cup {Junk}]
Events ==
  {"no_inode", "no_block", "alias", "beyond", "seek", "torn", "torn_rmdir", "remade", "lost"}

\* The types, and the shape of the free list of descriptors.
Typed ==
  /\ disk \in DiskType /\ mem \in MemType /\ mounted \in BOOLEAN
  /\ fd_array_slist \in SlistType(FD_ARRAY_SIZE + 1)
  /\ SlistShape(fd_array_slist, FD_ARRAY_SIZE + 1)
  /\ fd_array \in [Fds -> FdType]
  /\ expected \in [Inos -> FileType] /\ events \in SUBSET Events

\* Memory follows the disk.
Synced == Running /\ mounted => Sync(mem, disk)

\* The disk d when the current directory has been written to it; the next call
\* that makes an entry writes it.
WithCurrent(d, m) == Written(d, WriteCurrentDir(m))

\* Unless something other than a power failure went wrong, no two entries share
\* an inode, on the disk or when the current directory is written.
Unshared ==
  events \subseteq {"seek", "torn"} =>
    NoSharing(disk) /\ (mounted => NoSharing(WithCurrent(disk, mem)))

Base == Typed /\ Synced /\ Unshared

\* The entries of e are entries of d.
Within(e, d) ==
  \A p \in Blocks, k \in Items :
    ValidAt(e, p, k) => ValidAt(d, p, k) /\ TargetAt(e, p, k) = TargetAt(d, p, k)

LEMMA WithinShared ==
  ASSUME NEW d, NEW e, Within(e, d), d.imap[0] \subseteq e.imap[0], NoSharing(d)
  PROVE  NoSharing(e)
BY DEF NoSharing, Within

LEMMA FewerWithin ==
  ASSUME NEW d, NEW e, Fewer(d, e)
  PROVE  Within(e, d) /\ d.imap[0] \subseteq e.imap[0]
<1>1. ASSUME NEW p \in Blocks, NEW k \in Items, ValidAt(e, p, k)
      PROVE  ValidAt(d, p, k) /\ TargetAt(e, p, k) = TargetAt(d, p, k)
  <2>1. ~ NoItems(e.darray[p])
    BY <1>1 DEF ValidAt, IsDir, ReadDir, NoItems
  <2>2. e.darray[p].dir = d.darray[p].dir
    BY <2>1 DEF Fewer
  <2> QED BY <1>1, <2>2 DEF ValidAt, TargetAt, IsDir, ReadDir
<1> QED BY <1>1 DEF Within, Fewer

\* Blocks with the same content have the same entries.
LEMMA SameEntries ==
  ASSUME NEW d, NEW e, NEW p, e.darray[p] = d.darray[p]
  PROVE  /\ ReadDir(e, p) = ReadDir(d, p)
         /\ IsDir(e, p) <=> IsDir(d, p)
         /\ \A k : ValidAt(e, p, k) <=> ValidAt(d, p, k)
         /\ \A k : TargetAt(e, p, k) = TargetAt(d, p, k)
BY DEF ValidAt, TargetAt, IsDir, ReadDir

\* The entries when the current directory is written.
LEMMA CurrentEntries ==
  ASSUME NEW c \in DiskType, NEW m \in MemType
  PROVE  LET e == WithCurrent(c, m)  p == m.current_dir_pointer
         IN  /\ p \in Blocks /\ e.imap = c.imap
             /\ \A k \in Items : /\ ValidAt(e, p, k) <=> m.current_dir.map[k].valid = 1
                                 /\ TargetAt(e, p, k) = m.current_dir.map[k].ino
             /\ \A q \in Blocks, k \in Items : q # p =>
                  /\ ValidAt(e, q, k) <=> ValidAt(c, q, k)
                  /\ TargetAt(e, q, k) = TargetAt(c, q, k)
<1> DEFINE e == WithCurrent(c, m)
           p == m.current_dir_pointer
<1>1. /\ p \in Blocks /\ e.imap = c.imap /\ IsDir(e, p) /\ ReadDir(e, p) = m.current_dir
      /\ \A q \in Blocks : q # p => e.darray[q] = c.darray[q]
  BY OnCurrentDir DEF WithCurrent
<1> HIDE DEF e
<1>2. \A k \in Items : /\ ValidAt(e, p, k) <=> m.current_dir.map[k].valid = 1
                       /\ TargetAt(e, p, k) = m.current_dir.map[k].ino
  BY <1>1 DEF ValidAt, TargetAt
<1>3. \A q \in Blocks, k \in Items : q # p =>
        (ValidAt(e, q, k) <=> ValidAt(c, q, k)) /\ TargetAt(e, q, k) = TargetAt(c, q, k)
  BY <1>1, SameEntries
<1> QED BY <1>1, <1>2, <1>3 DEF e

\* They are those of the disk, if the current directory is one that is on it.
LEMMA CurrentRead ==
  ASSUME NEW c \in DiskType, NEW m \in MemType, IsDir(c, m.current_dir_pointer),
         m.current_dir = ReadDir(c, m.current_dir_pointer), NoSharing(c)
  PROVE  NoSharing(WithCurrent(c, m))
<1> DEFINE e == WithCurrent(c, m)
           p == m.current_dir_pointer
<1>1. /\ p \in Blocks /\ e.imap = c.imap
      /\ \A k \in Items : /\ ValidAt(e, p, k) <=> m.current_dir.map[k].valid = 1
                          /\ TargetAt(e, p, k) = m.current_dir.map[k].ino
      /\ \A q \in Blocks, k \in Items : q # p =>
           (ValidAt(e, q, k) <=> ValidAt(c, q, k)) /\ TargetAt(e, q, k) = TargetAt(c, q, k)
  BY CurrentEntries
<1>2. \A k \in Items : /\ ValidAt(c, p, k) <=> m.current_dir.map[k].valid = 1
                       /\ TargetAt(c, p, k) = m.current_dir.map[k].ino
  BY DEF ValidAt, TargetAt
<1> HIDE DEF e
<1>3. Within(e, c)
  BY <1>1, <1>2 DEF Within
<1>4. NoSharing(e)
  BY <1>1, <1>3, WithinShared
<1> QED BY <1>4 DEF e


\* An entry is made: nothing is shared after any of the writes.
LEMMA MakesUnshared ==
  ASSUME NEW m \in MemType, NEW c \in DiskType, NEW r, r.m \in MemType, NEW f \in DiskType,
         NEW s \in Names, NEW h, NEW i, NEW ino, Makes(m, c, r, f, s, h, i, ino),
         r.m.current_dir_pointer = m.current_dir_pointer,
         NoSharing(c), NoSharing(WithCurrent(c, m))
  PROVE  /\ NoSharing(f) /\ NoSharing(WithCurrent(f, r.m))
         /\ \A t \in Stages(c, r.w) : NoSharing(t)
<1> DEFINE P == m.current_dir_pointer
           e == WithCurrent(c, m)
           cur == r.m.current_dir
<1>1. /\ ino \in Inos \ c.imap[0] /\ i \in Items /\ m.current_dir.map[i].valid = 0
      /\ cur = WithItem(m.current_dir, i, NewItem(s, ino))
      /\ h \in DiskType /\ h.imap[0] = c.imap[0] \cup {ino}
      /\ IsDir(h, P) /\ ReadDir(h, P) = cur
      /\ \A q \in Blocks : q # P => h.darray[q] = c.darray[q]
  BY DEF Makes, Entered
<1>2. /\ P \in Blocks /\ e.imap = c.imap
      /\ \A k \in Items : /\ ValidAt(e, P, k) <=> m.current_dir.map[k].valid = 1
                          /\ TargetAt(e, P, k) = m.current_dir.map[k].ino
      /\ \A q \in Blocks, k \in Items : q # P =>
           (ValidAt(e, q, k) <=> ValidAt(c, q, k)) /\ TargetAt(e, q, k) = TargetAt(c, q, k)
  BY CurrentEntries
<1> HIDE DEF e
<1>3. /\ cur.map[i].valid = 1 /\ cur.map[i].ino = ino
      /\ \A k \in Items : k # i => cur.map[k] = m.current_dir.map[k]
  <2>1. m.current_dir \in DirType
    BY DEF MemType
  <2>2. NewItem(s, ino) \in ItemType
    BY <1>1 DEF NewItem, ItemType
  <2>3. NewItem(s, ino).valid = 1 /\ NewItem(s, ino).ino = ino
    BY DEF NewItem
  <2> HIDE DEF cur
  <2> QED BY <1>1, <2>1, <2>2, <2>3, ItemIn, SMTT(30)
<1> HIDE DEF cur, P
<1>4. \A k \in Items : /\ ValidAt(h, P, k) <=> cur.map[k].valid = 1
                       /\ TargetAt(h, P, k) = cur.map[k].ino
  BY <1>1 DEF ValidAt, TargetAt
<1>5. \A q \in Blocks, k \in Items : q # P =>
        (ValidAt(h, q, k) <=> ValidAt(c, q, k)) /\ TargetAt(h, q, k) = TargetAt(c, q, k)
  BY <1>1, SameEntries
<1>6. ValidAt(h, P, i) /\ TargetAt(h, P, i) = ino
  BY <1>1, <1>3, <1>4
<1>7. ASSUME NEW q \in Blocks, NEW k \in Items, ~ (q = P /\ k = i), ValidAt(h, q, k)
      PROVE  ValidAt(e, q, k) /\ TargetAt(e, q, k) = TargetAt(h, q, k)
  BY <1>2, <1>3, <1>4, <1>5, <1>7
<1>8. ASSUME NEW q \in Blocks, NEW k \in Items, ~ (q = P /\ k = i), ValidAt(h, q, k)
      PROVE  TargetAt(h, q, k) \in c.imap[0]
  <2>1. TargetAt(e, q, k) \in e.imap[0]
    <3>1. ValidAt(e, q, k)
      BY <1>7, <1>8
    <3> QED BY <3>1 DEF NoSharing, e
  <2> QED BY <1>2, <1>7, <1>8, <2>1
<1>9. NoSharing(h)
  <2>1. ASSUME NEW q \in Blocks, NEW k \in Items, ValidAt(h, q, k)
        PROVE  TargetAt(h, q, k) \in h.imap[0]
    <3>1. CASE q = P /\ k = i
      BY <1>1, <1>6, <3>1
    <3>2. CASE ~ (q = P /\ k = i)
      BY <1>1, <1>8, <2>1, <3>2
    <3> QED BY <3>1, <3>2
  <2>2. ASSUME NEW p \in Blocks, NEW q \in Blocks, NEW k \in Items, NEW l \in Items,
               ValidAt(h, p, k), ValidAt(h, q, l), TargetAt(h, p, k) = TargetAt(h, q, l)
        PROVE  p = q /\ k = l
    <3>1. CASE p = P /\ k = i
      <4>1. q = P /\ l = i
        BY <1>1, <1>6, <1>8, <2>2, <3>1
      <4> QED BY <3>1, <4>1
    <3>2. CASE q = P /\ l = i
      <4>1. p = P /\ k = i
        BY <1>1, <1>6, <1>8, <2>2, <3>2
      <4> QED BY <3>2, <4>1
    <3>3. CASE ~ (p = P /\ k = i) /\ ~ (q = P /\ l = i)
      <4>1. ValidAt(e, p, k) /\ ValidAt(e, q, l) /\ TargetAt(e, p, k) = TargetAt(e, q, l)
        BY <1>7, <2>2, <3>3
      <4> QED BY <4>1 DEF NoSharing, e
    <3> QED BY <3>1, <3>2, <3>3
  <2> QED BY <2>1, <2>2 DEF NoSharing
<1>10. Fewer(h, f) /\ EntryStages(c, h, Stages(c, r.w))
  BY DEF Makes
<1>11. NoSharing(f)
  BY <1>9, <1>10, FewerShared
<1>12. NoSharing(WithCurrent(f, r.m))
  <2> DEFINE g == WithCurrent(f, r.m)
  <2>1. /\ g.imap = f.imap
        /\ \A k \in Items : /\ ValidAt(g, P, k) <=> cur.map[k].valid = 1
                            /\ TargetAt(g, P, k) = cur.map[k].ino
        /\ \A q \in Blocks, k \in Items : q # P =>
             (ValidAt(g, q, k) <=> ValidAt(f, q, k)) /\ TargetAt(g, q, k) = TargetAt(f, q, k)
    BY CurrentEntries DEF P, cur
  <2> HIDE DEF g
  <2>2. Within(f, h) /\ h.imap[0] \subseteq f.imap[0]
    BY <1>10, FewerWithin
  <2>3. Within(g, h)
    BY <1>4, <2>1, <2>2 DEF Within
  <2>4. NoSharing(g)
    BY <1>9, <2>1, <2>2, <2>3, WithinShared
  <2> QED BY <2>4 DEF g
<1>13. ASSUME NEW t \in Stages(c, r.w) PROVE NoSharing(t)
  <2>1. CASE Fewer(h, t)
    BY <1>9, <2>1, FewerShared
  <2>2. CASE t.darray = c.darray /\ t.imap[0] \in {c.imap[0], h.imap[0]}
    <3>1. Within(t, c)
      BY <2>2, SameEntries DEF Within
    <3>2. c.imap[0] \subseteq t.imap[0]
      BY <1>1, <2>2
    <3> QED BY <3>1, <3>2, WithinShared
  <2> QED BY <1>10, <2>1, <2>2 DEF EntryStages
<1> QED BY <1>11, <1>12, <1>13

\* A directory is removed.
LEMMA GoneUnshared ==
  ASSUME NEW m \in MemType, NEW c \in DiskType, NEW r, r.m \in MemType, NEW f \in DiskType,
         NEW s \in Names, NEW i, NEW ino, NEW p, DirGone(m, c, r, f, s, i, ino, p),
         r.m.current_dir_pointer = m.current_dir_pointer, NoSharing(WithCurrent(c, m))
  PROVE  NoSharing(f) /\ NoSharing(WithCurrent(f, r.m))
<1> DEFINE P == m.current_dir_pointer
           e == WithCurrent(c, m)
           cur == r.m.current_dir
           item == [valid |-> 0, name |-> m.current_dir.map[i].name, ino |-> ino]
<1>1. /\ i \in Items /\ m.current_dir.map[i].valid = 1 /\ ino = m.current_dir.map[i].ino
      /\ cur = WithItem(m.current_dir, i, item)
      /\ f.imap[0] = c.imap[0] \ {ino}
      /\ IsDir(f, P) /\ ReadDir(f, P) = cur
      /\ \A q \in Blocks : q # P => f.darray[q] = c.darray[q]
  BY DEF DirGone
<1>2. /\ P \in Blocks /\ e.imap = c.imap
      /\ \A k \in Items : /\ ValidAt(e, P, k) <=> m.current_dir.map[k].valid = 1
                          /\ TargetAt(e, P, k) = m.current_dir.map[k].ino
      /\ \A q \in Blocks, k \in Items : q # P =>
           (ValidAt(e, q, k) <=> ValidAt(c, q, k)) /\ TargetAt(e, q, k) = TargetAt(c, q, k)
  BY CurrentEntries
<1>3. NoSharing(e)
  OBVIOUS
<1> HIDE DEF e
<1>4. /\ cur.map[i].valid = 0
      /\ \A k \in Items : k # i => cur.map[k] = m.current_dir.map[k]
  <2>1. m.current_dir \in DirType
    BY DEF MemType
  <2>2. item.valid = 0 /\ item \in ItemType
    <3>1. m.current_dir.map[i] \in ItemType
      BY <1>1, <2>1, ItemIn
    <3> QED BY <1>1, <3>1 DEF ItemType
  <2> DEFINE dir == m.current_dir
             new == WithItem(dir, i, item)
  <2> HIDE DEF cur, item
  <2>3. new.map[i] = item /\ \A k \in Items : k # i => new.map[k] = dir.map[k]
    <3>1. dir \in DirType /\ i \in Items
      BY <1>1, <2>1
    <3> HIDE DEF dir
    <3> QED BY <2>2, <3>1, ItemIn
  <2>4. cur = new
    BY <1>1
  <2> HIDE DEF new
  <2> QED BY <2>2, <2>3, <2>4
<1> HIDE DEF cur, P, item
<1>5. \A k \in Items : /\ ValidAt(f, P, k) <=> cur.map[k].valid = 1
                       /\ TargetAt(f, P, k) = cur.map[k].ino
  BY <1>1 DEF ValidAt, TargetAt
<1>6. \A q \in Blocks, k \in Items : q # P =>
        (ValidAt(f, q, k) <=> ValidAt(c, q, k)) /\ TargetAt(f, q, k) = TargetAt(c, q, k)
  BY <1>1, SameEntries
<1>7. ASSUME NEW q \in Blocks, NEW k \in Items, ValidAt(f, q, k)
      PROVE  /\ ValidAt(e, q, k) /\ TargetAt(e, q, k) = TargetAt(f, q, k) /\ ~ (q = P /\ k = i)
  BY <1>2, <1>4, <1>5, <1>6, <1>7
<1>8. ValidAt(e, P, i) /\ TargetAt(e, P, i) = ino
  BY <1>1, <1>2
<1>9. NoSharing(f)
  <2>1. ASSUME NEW q \in Blocks, NEW k \in Items, ValidAt(f, q, k)
        PROVE  TargetAt(f, q, k) \in f.imap[0]
    <3>1. ValidAt(e, q, k) /\ TargetAt(e, q, k) = TargetAt(f, q, k) /\ ~ (q = P /\ k = i)
      BY <1>7, <2>1
    <3>2. TargetAt(e, q, k) # ino
      BY <1>1, <1>2, <1>3, <1>8, <3>1 DEF NoSharing
    <3>3. TargetAt(e, q, k) \in e.imap[0]
      BY <1>3, <3>1 DEF NoSharing
    <3> QED BY <1>1, <1>2, <3>1, <3>2, <3>3
  <2>2. ASSUME NEW a \in Blocks, NEW b \in Blocks, NEW k \in Items, NEW l \in Items,
               ValidAt(f, a, k), ValidAt(f, b, l), TargetAt(f, a, k) = TargetAt(f, b, l)
        PROVE  a = b /\ k = l
    <3>1. ValidAt(e, a, k) /\ ValidAt(e, b, l) /\ TargetAt(e, a, k) = TargetAt(e, b, l)
      BY <1>7, <2>2
    <3> QED BY <1>3, <3>1 DEF NoSharing
  <2> QED BY <2>1, <2>2 DEF NoSharing
<1>10. NoSharing(WithCurrent(f, r.m))
  BY <1>1, <1>9, CurrentRead DEF P, cur
<1> QED BY <1>9, <1>10


\* What a call leaves: the types, memory as the disk is, and nothing shared.
Orderly(m, c, r) ==
  LET f == WrittenAll(c, r.w)
  IN  /\ r.m \in MemType /\ r.w \in Seq(Writes) /\ f \in DiskType
      /\ "lost" \notin r.events => Sync(r.m, f)
      /\ r.events \in SUBSET Events
      /\ NoSharing(c) /\ NoSharing(WithCurrent(c, m)) /\ r.events \subseteq {"seek", "torn"} =>
           NoSharing(f) /\ NoSharing(WithCurrent(f, r.m))

\* No write of it shares anything.
NeverShares(m, c, r) ==
  NoSharing(c) /\ NoSharing(WithCurrent(c, m)) => \A t \in Stages(c, r.w) : NoSharing(t)

LEMMA MkdirOrderly ==
  ASSUME NEW m \in MemType, NEW c \in DiskType, Sync(m, c), NEW s \in Names
  PROVE  Orderly(m, c, mkdir(m, c, s)) /\ NeverShares(m, c, mkdir(m, c, s))
<1> DEFINE r == mkdir(m, c, s)
           f == WrittenAll(c, r.w)
           q == m.current_dir_pointer
<1>1. /\ r.m \in MemType /\ r.w \in Seq(Writes) /\ f \in DiskType /\ Sync(r.m, f)
      /\ r.m.current_dir_pointer = q
      /\ \/ r.events = {} /\ r.m = m /\ r.w = <<>> /\ f = c
         \/ r.events = {"no_inode"} /\ r.w = <<>> /\ f = c
         \/ \E h, i, ino :
              /\ Makes(m, c, r, f, s, h, i, ino)
              /\ \/ r.events = {"no_block"}
                 \/ r.events = {} /\ \E p \in Blocks : DirMade(h, f, ino, p, q)
  BY MkdirDone
<1> HIDE DEF r, f
<1>2. r.events \in SUBSET Events
  BY <1>1 DEF Events
<1>3. CASE r.events = {} /\ r.m = m /\ r.w = <<>> /\ f = c
  <2>1. Stages(c, r.w) = {c}
    BY <1>3, WriteNone
  <2> QED BY <1>1, <1>2, <1>3, <2>1 DEF Orderly, NeverShares, r, f
<1>4. CASE r.events = {"no_inode"} /\ r.w = <<>> /\ f = c
  <2>1. Stages(c, r.w) = {c}
    BY <1>4, WriteNone
  <2> QED BY <1>1, <1>2, <1>4, <2>1 DEF Orderly, NeverShares, r, f
<1>5. CASE \E h, i, ino : Makes(m, c, r, f, s, h, i, ino)
  <2>1. PICK h, i, ino : Makes(m, c, r, f, s, h, i, ino)
    BY <1>5
  <2>2. NoSharing(c) /\ NoSharing(WithCurrent(c, m)) =>
          /\ NoSharing(f) /\ NoSharing(WithCurrent(f, r.m))
          /\ \A t \in Stages(c, r.w) : NoSharing(t)
    BY <1>1, <2>1, MakesUnshared
  <2> QED BY <1>1, <1>2, <2>2 DEF Orderly, NeverShares, r, f
<1> QED BY <1>1, <1>3, <1>4, <1>5, Zenon

LEMMA TouchOrderly ==
  ASSUME NEW m \in MemType, NEW c \in DiskType, Sync(m, c), NEW s \in Names
  PROVE  Orderly(m, c, touch(m, c, s)) /\ NeverShares(m, c, touch(m, c, s))
<1> DEFINE r == touch(m, c, s)
           f == WrittenAll(c, r.w)
<1>1. /\ r.m \in MemType /\ r.w \in Seq(Writes) /\ f \in DiskType /\ Sync(r.m, f)
      /\ r.m.current_dir_pointer = m.current_dir_pointer
      /\ \/ r.events = {} /\ r.m = m /\ r.w = <<>> /\ f = c
         \/ r.events = {"no_inode"} /\ r.w = <<>> /\ f = c
         \/ \E h, i, ino :
              Makes(m, c, r, f, s, h, i, ino) /\ r.events = {} /\ FileMade(h, f, ino)
  BY TouchDone
<1> HIDE DEF r, f
<1>2. r.events \in SUBSET Events
  BY <1>1 DEF Events
<1>3. CASE r.events = {} /\ r.m = m /\ r.w = <<>> /\ f = c
  <2>1. Stages(c, r.w) = {c}
    BY <1>3, WriteNone
  <2> QED BY <1>1, <1>2, <1>3, <2>1 DEF Orderly, NeverShares, r, f
<1>4. CASE r.events = {"no_inode"} /\ r.w = <<>> /\ f = c
  <2>1. Stages(c, r.w) = {c}
    BY <1>4, WriteNone
  <2> QED BY <1>1, <1>2, <1>4, <2>1 DEF Orderly, NeverShares, r, f
<1>5. CASE \E h, i, ino : Makes(m, c, r, f, s, h, i, ino)
  <2>1. PICK h, i, ino : Makes(m, c, r, f, s, h, i, ino)
    BY <1>5
  <2>2. NoSharing(c) /\ NoSharing(WithCurrent(c, m)) =>
          /\ NoSharing(f) /\ NoSharing(WithCurrent(f, r.m))
          /\ \A t \in Stages(c, r.w) : NoSharing(t)
    BY <1>1, <2>1, MakesUnshared
  <2> QED BY <1>1, <1>2, <2>2 DEF Orderly, NeverShares, r, f
<1> QED BY <1>1, <1>3, <1>4, <1>5, Zenon

LEMMA RmdirOrderly ==
  ASSUME NEW m \in MemType, NEW c \in DiskType, Sync(m, c), NEW s \in Names
  PROVE  Orderly(m, c, rmdir(m, c, s))
<1> DEFINE r == rmdir(m, c, s)
           f == WrittenAll(c, r.w)
<1>1. /\ r.m \in MemType /\ r.w \in Seq(Writes) /\ f \in DiskType /\ Sync(r.m, f)
      /\ r.m.current_dir_pointer = m.current_dir_pointer
      /\ \/ r.events \in {{}, {"lost"}} /\ r.m = m /\ r.w = <<>> /\ f = c
         \/ r.events = {} /\ \E i, ino, p : DirGone(m, c, r, f, s, i, ino, p)
  BY RmdirDone
<1> HIDE DEF r, f
<1>2. r.events \in SUBSET Events
  BY <1>1 DEF Events
<1>3. CASE r.m = m /\ f = c
  BY <1>1, <1>2, <1>3 DEF Orderly, r, f
<1>4. CASE \E i, ino, p : DirGone(m, c, r, f, s, i, ino, p)
  <2>1. PICK i, ino, p : DirGone(m, c, r, f, s, i, ino, p)
    BY <1>4
  <2>2. NoSharing(WithCurrent(c, m)) => NoSharing(f) /\ NoSharing(WithCurrent(f, r.m))
    BY <1>1, <2>1, GoneUnshared
  <2> QED BY <1>1, <1>2, <2>2 DEF Orderly, r, f
<1> QED BY <1>1, <1>3, <1>4

\* The calls cd.
LEMMA GoesOrderly ==
  ASSUME NEW m \in MemType, NEW c \in DiskType, Sync(m, c), NEW r, NEW p, Goes(m, c, r, p)
  PROVE  Orderly(m, c, r)
<1>1. /\ r.m \in MemType /\ r.w = <<>> /\ Sync(r.m, c)
      /\ \/ r.events \in {{}, {"lost"}} /\ r.m = m
         \/ /\ r.events = {} /\ IsDir(c, p) /\ r.m.current_dir = ReadDir(c, p)
            /\ r.m.current_dir_pointer = p
  BY DEF Goes
<1>2. r.w \in Seq(Writes) /\ WrittenAll(c, r.w) = c
  BY <1>1, WriteNone
<1>3. r.events \in SUBSET Events
  BY <1>1 DEF Events
<1>4. NoSharing(c) /\ NoSharing(WithCurrent(c, m)) => NoSharing(WithCurrent(c, r.m))
  <2>1. CASE r.m = m
    BY <2>1
  <2>2. CASE IsDir(c, p) /\ r.m.current_dir = ReadDir(c, p) /\ r.m.current_dir_pointer = p
    BY <1>1, <2>2, CurrentRead
  <2> QED BY <1>1, <2>1, <2>2
<1> QED BY <1>1, <1>2, <1>3, <1>4 DEF Orderly

LEMMA FwriteOrderly ==
  ASSUME NEW m \in MemType, NEW c \in DiskType, Sync(m, c), NEW fd \in FdType,
         NEW n \in Nat \ {0}, NEW x \in Values
  PROVE  LET r == fwrite(m, c, fd, n, x)
         IN  Orderly(m, c, r) /\ NeverShares(m, c, r) /\ r.n \in Nat
<1> DEFINE r == fwrite(m, c, fd, n, x)
           f == WrittenAll(c, r.w)
<1>1. fd.ino \in Inos /\ fd.offset \in Nat
  BY Consts DEF FdType, InGroup, Inos
<1>2. /\ r.m \in MemType /\ r.w \in Seq(Quiet) /\ f \in DiskType
      /\ \E g : FwriteEnds(m, c, r, f, g, fd.ino, fd.offset, n, x)
  BY <1>1, FwriteDone
<1> HIDE DEF r
<1>3. PICK g : FwriteEnds(m, c, r, f, g, fd.ino, fd.offset, n, x)
  BY <1>2
<1>4. r.w \in Seq(Writes) /\ f \in Stages(c, r.w) /\ \A t \in Stages(c, r.w) : Fewer(c, t)
  BY <1>2, QuietStages
<1> HIDE DEF f
<1>5. r.events \in SUBSET Events /\ r.n \in Nat
  BY <1>3 DEF FwriteEnds, FwriteEvents, Events
<1>6. "lost" \notin r.events => Sync(r.m, f)
  BY <1>3 DEF FwriteEnds
<1>7. SameDir(m, r.m)
  BY <1>3 DEF FwriteEnds, Grown
<1>8. ASSUME NoSharing(c), NoSharing(WithCurrent(c, m))
      PROVE  NoSharing(WithCurrent(f, r.m))
  <2> DEFINE d == WithCurrent(c, m)
             e == WithCurrent(f, r.m)
             P == m.current_dir_pointer
  <2>1. /\ d.imap = c.imap
        /\ \A k \in Items : /\ ValidAt(d, P, k) <=> m.current_dir.map[k].valid = 1
                            /\ TargetAt(d, P, k) = m.current_dir.map[k].ino
        /\ \A q \in Blocks, k \in Items : q # P =>
             (ValidAt(d, q, k) <=> ValidAt(c, q, k)) /\ TargetAt(d, q, k) = TargetAt(c, q, k)
    BY CurrentEntries
  <2>2. /\ e.imap = f.imap
        /\ \A k \in Items : /\ ValidAt(e, P, k) <=> m.current_dir.map[k].valid = 1
                            /\ TargetAt(e, P, k) = m.current_dir.map[k].ino
        /\ \A q \in Blocks, k \in Items : q # P =>
             (ValidAt(e, q, k) <=> ValidAt(f, q, k)) /\ TargetAt(e, q, k) = TargetAt(f, q, k)
    BY <1>2, <1>7, CurrentEntries DEF SameDir
  <2>3. Within(f, c) /\ c.imap[0] \subseteq f.imap[0]
    BY <1>4, FewerWithin
  <2>4. NoSharing(d)
    BY <1>8
  <2> HIDE DEF d, e, P
  <2>5. Within(e, d)
    BY <2>1, <2>2, <2>3 DEF Within
  <2>6. NoSharing(e)
    BY <2>1, <2>2, <2>3, <2>4, <2>5, WithinShared
  <2> QED BY <2>6 DEF e
<1>9. ASSUME NoSharing(c), NEW t \in Stages(c, r.w) PROVE NoSharing(t)
  BY <1>4, <1>9, FewerShared
<1> QED BY <1>2, <1>4, <1>5, <1>6, <1>8, <1>9 DEF Orderly, NeverShares, r, f


LEMMA CallReady ==
  ASSUME Base, events \subseteq Followed
  PROVE  /\ Running /\ (mounted => Sync(mem, disk))
         /\ disk \in DiskType /\ mem \in MemType
BY FileAssumption DEF Base, Typed, Synced, Running

\* A call that is orderly ends.
LEMMA DoneBase ==
  ASSUME Base, Running, mounted, NEW r, Orderly(mem, disk, r),
         disk' = WrittenAll(disk, r.w), mem' = r.m, events' = events \cup r.events,
         mounted' = mounted, fd_array_slist' = fd_array_slist,
         fd_array' \in [Fds -> FdType], expected' \in [Inos -> FileType]
  PROVE  Base'
<1>1. Typed'
  BY DEF Base, Typed, Orderly
<1>2. Synced'
  BY DEF Base, Synced, Orderly, Running
<1>3. Unshared'
  <2> SUFFICES ASSUME events' \subseteq {"seek", "torn"}
               PROVE  NoSharing(disk') /\ NoSharing(WithCurrent(disk', mem'))
    BY DEF Unshared, WithCurrent, WriteCurrentDir, Written, Sdwrite, DirSector
  <2>1. events \subseteq {"seek", "torn"}
    OBVIOUS
  <2>2. NoSharing(disk) /\ NoSharing(WithCurrent(disk, mem))
    BY <2>1 DEF Base, Unshared
  <2>3. r.events \subseteq {"seek", "torn"}
    OBVIOUS
  <2> QED BY <2>2, <2>3 DEF Orderly
<1> QED BY <1>1, <1>2, <1>3 DEF Base


\* The system boots again.
LEMMA CutBase ==
  ASSUME Base, NEW w, NEW event \in SUBSET Events, WrittenAll(disk, w) \in DiskType,
         CutShort(w, event),
         (events \cup event) \subseteq {"seek", "torn"} => NoSharing(WrittenAll(disk, w))
  PROVE  Base'
<1> DEFINE d == WrittenAll(disk, w)
<1>1. /\ disk' = d /\ mounted' = TRUE /\ expected' = expected
      /\ fd_array_slist' = slist_init(FD_ARRAY_SIZE + 1)
      /\ fd_array' = [fd \in Fds |-> BlankFd]
      /\ \/ IsDir(d, Root) /\ mem' = mount(d) /\ events' = events \cup event
         \/ mem' = mem /\ events' = events \cup {"lost"}
  BY DEF CutShort
<1> HIDE DEF d
<1>2. /\ slist_init(FD_ARRAY_SIZE + 1) \in SlistType(FD_ARRAY_SIZE + 1)
      /\ SlistShape(slist_init(FD_ARRAY_SIZE + 1), FD_ARRAY_SIZE + 1)
  BY Consts, InitShape
<1>3. BlankFd \in FdType
  BY Consts DEF BlankFd, FdType, Root
<1>4. CASE IsDir(d, Root) /\ mem' = mount(d) /\ events' = events \cup event
  <2>1. /\ mount(d) \in MemType /\ Sync(mount(d), d) /\ mount(d).current_dir = ReadDir(d, Root)
        /\ mount(d).current_dir_pointer = Root
    BY <1>4, MountDone DEF d
  <2>2. Typed'
    BY <1>1, <1>2, <1>3, <1>4, <2>1 DEF Base, Typed, d
  <2>3. Synced'
    BY <1>1, <1>4, <2>1 DEF Synced
  <2>4. Unshared'
    <3> SUFFICES ASSUME events' \subseteq {"seek", "torn"}
                 PROVE  NoSharing(disk') /\ NoSharing(WithCurrent(disk', mem'))
      BY DEF Unshared, WithCurrent, WriteCurrentDir, Written, Sdwrite, DirSector
    <3>1. NoSharing(d)
      BY <1>4 DEF d
    <3>2. NoSharing(WithCurrent(d, mount(d)))
      BY <1>4, <2>1, <3>1, CurrentRead DEF d
    <3> QED BY <1>1, <1>4, <3>1, <3>2
  <2> QED BY <2>2, <2>3, <2>4 DEF Base
<1>5. CASE mem' = mem /\ events' = events \cup {"lost"}
  <2>1. Typed'
    BY <1>1, <1>2, <1>3, <1>5 DEF Base, Typed, d, Events
  <2>2. "lost" \in events' /\ ~ events' \subseteq {"seek", "torn"}
    BY <1>5
  <2> QED BY <2>1, <2>2 DEF Base, Synced, Unshared, Running
<1> QED BY <1>1, <1>4, <1>5

LEMMA InitBase ==
  ASSUME Init
  PROVE  Base
<1>1. BlankDisk \in DiskType
  BY Blank
<1>2. /\ disk \in DiskType /\ Fresh(disk)
      /\ \A q \in Blocks : q # Root => disk.darray[q] = BlankDisk.darray[q]
  BY <1>1, MkfsDone DEF Init
<1>3. mem \in MemType /\ Sync(mem, disk) /\ mem.current_dir = ReadDir(disk, Root)
      /\ mem.current_dir_pointer = Root
  BY <1>2, MountDone DEF Init, Fresh
<1>4. Typed
  <2>1. /\ slist_init(FD_ARRAY_SIZE + 1) \in SlistType(FD_ARRAY_SIZE + 1)
        /\ SlistShape(slist_init(FD_ARRAY_SIZE + 1), FD_ARRAY_SIZE + 1)
    BY Consts, InitShape
  <2>2. BlankFd \in FdType
    BY Consts DEF BlankFd, FdType, Root
  <2>3. BlankFile \in FileType
    BY DEF BlankFile, FileType
  <2> QED BY <1>2, <1>3, <2>1, <2>2, <2>3 DEF Typed, Init
<1>5. NoSharing(disk)
  <2>1. ASSUME NEW p \in Blocks, NEW k \in Items PROVE ~ ValidAt(disk, p, k)
    <3>1. CASE p = Root
      <4>1. EmptyDir(Root).map[k].valid = 0
        BY EmptyDirType, Consts
      <4> QED BY <1>2, <3>1, <4>1 DEF ValidAt, Fresh
    <3>2. CASE p # Root
      <4>1. disk.darray[p] = BlankSector
        BY <1>2, <3>2 DEF BlankDisk
      <4> QED BY <4>1 DEF ValidAt, IsDir, BlankSector
    <3> QED BY <3>1, <3>2
  <2> QED BY <2>1 DEF NoSharing
<1>6. NoSharing(WithCurrent(disk, mem))
  BY <1>2, <1>3, <1>5, CurrentRead DEF Fresh
<1> QED BY <1>3, <1>4, <1>5, <1>6 DEF Base, Synced, Unshared

\* What fwrite leaves in fd_array and in the history.
LEMMA FwriteTypes ==
  ASSUME Typed, NEW fd \in Fds, NEW k \in Nat, NEW x \in Values
  PROVE  LET o == fd_array[fd].offset
         IN  /\ [fd_array EXCEPT ![fd].offset = @ + k, ![fd].size = @ + k] \in [Fds -> FdType]
             /\ [expected EXCEPT ![fd_array[fd].ino] =
                   [p \in Offsets |-> IF p \in o .. o + k - 1 THEN x ELSE @[p]]]
                \in [Inos -> FileType]
<1> DEFINE e == fd_array[fd]
           o == e.offset
           new == [ino |-> e.ino, access |-> e.access, size |-> e.size + k, offset |-> e.offset + k]
<1>1. e \in FdType /\ fd_array \in [Fds -> FdType] /\ expected \in [Inos -> FileType]
  BY DEF Typed
<1>2. new \in FdType
  BY <1>1 DEF FdType
<1>3. [fd_array EXCEPT ![fd].offset = @ + k, ![fd].size = @ + k] = [fd_array EXCEPT ![fd] = new]
  <2> DEFINE a == [fd_array EXCEPT ![fd].offset = @ + k]
             b == [a EXCEPT ![fd].size = @ + k]
             half == [e EXCEPT !.offset = e.offset + k]
  <2>1. half = [ino |-> e.ino, access |-> e.access, size |-> e.size, offset |-> e.offset + k]
    BY <1>1 DEF FdType
  <2>2. a = [fd_array EXCEPT ![fd] = half] /\ DOMAIN fd_array = Fds
    BY <1>1
  <2> HIDE DEF half, e
  <2>3. a[fd] = half /\ DOMAIN a = Fds /\ \A g \in Fds : g # fd => a[g] = fd_array[g]
    BY <1>1, <2>2
  <2> HIDE DEF a
  <2>4. b[fd] = [half EXCEPT !.size = half.size + k] /\ DOMAIN b = Fds
        /\ \A g \in Fds : g # fd => b[g] = a[g]
    BY <2>3
  <2>5. [half EXCEPT !.size = half.size + k] = new
    BY <2>1
  <2>6. b = [fd_array EXCEPT ![fd] = new]
    <3> DEFINE c == [fd_array EXCEPT ![fd] = new]
    <3>1. DOMAIN c = Fds /\ c[fd] = new /\ \A g \in Fds : g # fd => c[g] = fd_array[g]
      BY <1>1
    <3>2. b = [g \in Fds |-> b[g]] /\ c = [g \in Fds |-> c[g]]
      BY <2>4, <3>1
    <3> DEFINE full == [half EXCEPT !.size = half.size + k]
    <3>3. b[fd] = full /\ full = new
      BY <2>4, <2>5
    <3> HIDE DEF b, c, new, full
    <3>4. \A g \in Fds : b[g] = c[g]
      BY <2>3, <2>4, <3>1, <3>3
    <3>5. b = c
      BY <3>2, <3>4
    <3> QED BY <3>5 DEF c
  <2> QED BY <2>6 DEF a, b
<1>4. e.ino \in Inos
  BY <1>1, Consts DEF FdType, InGroup, Inos
<1>5. [p \in Offsets |-> IF p \in o .. o + k - 1 THEN x ELSE expected[e.ino][p]] \in FileType
  BY <1>1, <1>4 DEF FileType
<1> HIDE DEF new
<1> QED BY <1>1, <1>2, <1>3, <1>4, <1>5


LEMMA NextBase ==
  ASSUME Base, [Next]_vars
  PROVE  Base'
<1>0. /\ disk \in DiskType /\ mem \in MemType /\ fd_array \in [Fds -> FdType]
      /\ expected \in [Inos -> FileType]
  BY DEF Base, Typed
<1>1. ASSUME NEW name, Call(name)
      PROVE  Running /\ mounted /\ Sync(mem, disk)
  BY <1>1, CallReady DEF Call
<1>2. CASE UNCHANGED vars
  BY <1>2 DEF vars, fdVars, Base, Typed, Synced, Unshared, Running, WithCurrent, WriteCurrentDir,
              Sdwrite, DirSector
<1>3. ASSUME NEW r, Done(r), Running, mounted, Orderly(mem, disk, r), expected' \in [Inos -> FileType]
      PROVE  Base'
  <2>1. /\ disk' = WrittenAll(disk, r.w) /\ mem' = r.m /\ events' = events \cup r.events
        /\ mounted' = mounted /\ fd_array_slist' = fd_array_slist /\ fd_array' = fd_array
    BY <1>3 DEF Done, fdVars
  <2> QED BY <1>0, <1>3, <2>1, DoneBase
<1>4. CASE Mkdir
  <2>1. PICK s \in Names : Done(mkdir(mem, disk, s))
    BY <1>4 DEF Mkdir
  <2>2. Call("mkdir") /\ expected' = expected
    BY <1>4 DEF Mkdir
  <2>3. Orderly(mem, disk, mkdir(mem, disk, s))
    BY <1>0, <1>1, <2>2, MkdirOrderly
  <2> QED BY <1>0, <1>1, <1>3, <2>1, <2>2, <2>3
<1>5. CASE Rmdir
  <2>1. PICK s \in Names : Done(rmdir(mem, disk, s))
    BY <1>5 DEF Rmdir
  <2>2. Call("rmdir") /\ expected' = expected
    BY <1>5 DEF Rmdir
  <2>3. Orderly(mem, disk, rmdir(mem, disk, s))
    BY <1>0, <1>1, <2>2, RmdirOrderly
  <2> QED BY <1>0, <1>1, <1>3, <2>1, <2>2, <2>3
<1>6. CASE Touch
  <2>1. PICK s \in Names :
          LET r == touch(mem, disk, s)
          IN  /\ Done(r)
              /\ expected' = [i \in Inos |-> IF i \in r.m.imap \ mem.imap THEN BlankFile
                                             ELSE expected[i]]
    BY <1>6 DEF Touch
  <2>2. Call("touch")
    BY <1>6 DEF Touch
  <2>3. Orderly(mem, disk, touch(mem, disk, s))
    BY <1>0, <1>1, <2>2, TouchOrderly
  <2>4. BlankFile \in FileType
    BY DEF BlankFile, FileType
  <2>5. expected' \in [Inos -> FileType]
    BY <1>0, <2>1, <2>4
  <2> QED BY <1>1, <1>3, <2>1, <2>2, <2>3, <2>5
<1>7. ASSUME NEW ino, Done(cd(mem, disk, ino)), Call("cd"), expected' = expected
      PROVE  Base'
  <2>1. Orderly(mem, disk, cd(mem, disk, ino))
    BY <1>0, <1>1, <1>7, CdDone, GoesOrderly
  <2> QED BY <1>0, <1>1, <1>3, <1>7, <2>1
<1>8. CASE CdFather
  <2>1. Done(cd_father(mem, disk)) /\ Call("cd") /\ expected' = expected
    BY <1>8 DEF CdFather
  <2>2. Orderly(mem, disk, cd_father(mem, disk))
    BY <1>0, <1>1, <2>1, FatherDone, GoesOrderly
  <2> QED BY <1>0, <1>1, <1>3, <2>1, <2>2
<1>9. CASE CdName
  BY <1>7, <1>9 DEF CdName
<1>10. CASE CdPath
  BY <1>7, <1>10 DEF CdPath
<1>11. ASSUME disk' = disk, mem' = mem, mounted' = mounted, expected' = expected,
              fd_array_slist' \in SlistType(FD_ARRAY_SIZE + 1),
              SlistShape(fd_array_slist', FD_ARRAY_SIZE + 1), fd_array' \in [Fds -> FdType],
              events' = events \/ events' = events \cup {"alias"} \/ events' = events \cup {"lost"}
       PROVE  Base'
  <2>1. Typed'
    BY <1>11 DEF Base, Typed, Events
  <2>2. Synced'
    BY <1>11 DEF Base, Synced, Running
  <2>3. Unshared'
    BY <1>11 DEF Base, Unshared, WithCurrent, WriteCurrentDir, Sdwrite, DirSector
  <2> QED BY <2>1, <2>2, <2>3 DEF Base
<1>12. /\ fd_array_slist \in SlistType(FD_ARRAY_SIZE + 1)
       /\ SlistShape(fd_array_slist, FD_ARRAY_SIZE + 1) /\ FD_ARRAY_SIZE + 1 \in Nat \ {0}
  BY Consts DEF Base, Typed
<1>13. CASE Fopen
  <2>1. PICK s \in Names, access \in {"O_RDWR", "O_RD"} :
          LET ino == is_file_exist(mem, s)
              fd == slist_alloc_ret(fd_array_slist) - 1
          IN  /\ ino # 0 /\ Inode(disk, ino).type = "normal" /\ fd # -1
              /\ fd_array_slist' = slist_alloc(fd_array_slist)
              /\ fd_array' = [fd_array EXCEPT ![fd] =
                   [ino |-> ino % INODES_PER_SECTOR, access |-> access,
                    size |-> Inode(disk, ino).size, offset |-> 0]]
              /\ events' = events \cup (IF ino < INODES_PER_SECTOR THEN {} ELSE {"alias"})
    BY <1>13 DEF Fopen
  <2>2. disk' = disk /\ mem' = mem /\ mounted' = mounted /\ expected' = expected
    BY <1>13 DEF Fopen
  <2> DEFINE ino == is_file_exist(mem, s)
             new == [ino |-> ino % INODES_PER_SECTOR, access |-> access,
                     size |-> Inode(disk, ino).size, offset |-> 0]
  <2>3. ino \in Inos
    <3>1. Matching(mem.current_dir, s) # {}
      BY <2>1 DEF is_file_exist, Lookup
    <3>2. Min(Matching(mem.current_dir, s)) \in Items
      BY <3>1, MatchingIn
    <3>3. mem.current_dir \in DirType
      BY <1>0 DEF MemType
    <3>4. mem.current_dir.map[Min(Matching(mem.current_dir, s))].ino \in Inos
      BY <3>2, <3>3, ItemIn
    <3> QED BY <3>1, <3>4 DEF is_file_exist, Lookup
  <2>4. new \in FdType
    <3> HIDE DEF ino
    <3>1. Inode(disk, ino).size \in Nat /\ ino % INODES_PER_SECTOR \in InGroup
      BY <1>0, <2>3, InodeIn, InodePlace
    <3> QED BY <3>1 DEF FdType
  <2>5. /\ slist_alloc(fd_array_slist) \in SlistType(FD_ARRAY_SIZE + 1)
        /\ SlistShape(slist_alloc(fd_array_slist), FD_ARRAY_SIZE + 1)
    BY <1>12, AllocShape
  <2>6. fd_array' \in [Fds -> FdType]
    <3> HIDE DEF new
    <3> QED BY <1>0, <2>1, <2>4 DEF new
  <2>7. events' = events \/ events' = events \cup {"alias"}
    BY <2>1
  <2> HIDE DEF ino, new
  <2> QED BY <1>11, <2>1, <2>2, <2>5, <2>6, <2>7
<1>14. CASE Fclose
  <2>1. PICK fd \in Fds :
          fd_array_slist' = slist_free(fd_array_slist, fd + 1, FD_ARRAY_SIZE + 1)
    BY <1>14 DEF Fclose
  <2>2. /\ slist_free(fd_array_slist, fd + 1, FD_ARRAY_SIZE + 1) \in SlistType(FD_ARRAY_SIZE + 1)
        /\ SlistShape(slist_free(fd_array_slist, fd + 1, FD_ARRAY_SIZE + 1), FD_ARRAY_SIZE + 1)
    <3>1. fd + 1 \in Int
      BY Consts DEF Fds
    <3> QED BY <1>12, <3>1, FreeShape
  <2> QED BY <1>0, <1>11, <1>14, <2>1, <2>2 DEF Fclose
<1>15. ASSUME NEW fd \in Fds, NEW o \in Nat, fd_array' = [fd_array EXCEPT ![fd].offset = o]
       PROVE  fd_array' \in [Fds -> FdType]
  <2>1. fd_array[fd] \in FdType
    BY <1>0
  <2>2. [fd_array[fd] EXCEPT !.offset = o] \in FdType
    BY <2>1 DEF FdType
  <2> QED BY <1>0, <1>15, <2>2
<1>16. CASE Fseek
  <2>1. PICK fd \in Fds, o \in Offsets : fd_array' = [fd_array EXCEPT ![fd].offset = o]
    BY <1>16 DEF Fseek
  <2>2. o \in Nat
    BY Consts DEF Offsets
  <2>3. fd_array' \in [Fds -> FdType]
    BY <1>15, <2>1, <2>2
  <2> QED BY <1>11, <1>12, <1>16, <2>3 DEF Fseek
<1>17. CASE Fread
  <2>1. PICK fd \in Fds, n \in Sizes :
          LET rest == fd_array[fd].size - fd_array[fd].offset
              total == IF rest >= 0 /\ rest < n THEN rest ELSE n
          IN  fd_array' = [fd_array EXCEPT ![fd].offset = @ + total]
    BY <1>17 DEF Fread
  <2> DEFINE rest == fd_array[fd].size - fd_array[fd].offset
             total == IF rest >= 0 /\ rest < n THEN rest ELSE n
  <2>2. fd_array[fd].size \in Nat /\ fd_array[fd].offset \in Nat /\ n \in Nat
    BY <1>0, FileAssumption DEF FdType
  <2>3. total \in Nat
    BY <2>2
  <2> HIDE DEF total
  <2>4. fd_array[fd].offset + total \in Nat
    BY <2>2, <2>3
  <2>5. fd_array' = [fd_array EXCEPT ![fd].offset = fd_array[fd].offset + total]
    BY <1>0, <2>1 DEF total
  <2>6. fd_array' \in [Fds -> FdType]
    BY <1>15, <2>4, <2>5
  <2> QED BY <1>11, <1>12, <1>17, <2>6 DEF Fread
<1>18. CASE Fwrite
  <2>1. PICK fd \in Fds, n \in Sizes, x \in Values :
          LET r == fwrite(mem, disk, fd_array[fd], n, x)
              o == fd_array[fd].offset
          IN  /\ IsOpen(fd) /\ fd_array[fd].access # "O_RD"
              /\ o + n <= MaxOffset /\ Inode(disk, fd_array[fd].ino).size + n <= MaxSize
              /\ disk' = WrittenAll(disk, r.w) /\ mem' = r.m /\ events' = events \cup r.events
              /\ fd_array' = [fd_array EXCEPT ![fd].offset = @ + r.n, ![fd].size = @ + r.n]
              /\ expected' = [expected EXCEPT ![fd_array[fd].ino] =
                   [p \in Offsets |-> IF p \in o .. o + r.n - 1 THEN x ELSE @[p]]]
    BY <1>18, Zenon DEF Fwrite
  <2>2. Call("fwrite") /\ mounted' = mounted /\ fd_array_slist' = fd_array_slist
    BY <1>18 DEF Fwrite
  <2> DEFINE r == fwrite(mem, disk, fd_array[fd], n, x)
  <2>3. Orderly(mem, disk, r) /\ r.n \in Nat
    <3>1. fd_array[fd] \in FdType /\ n \in Nat \ {0}
      BY <1>0, FileAssumption
    <3> QED BY <1>0, <1>1, <2>2, <3>1, FwriteOrderly
  <2> HIDE DEF r
  <2>4. fd_array' \in [Fds -> FdType] /\ expected' \in [Inos -> FileType]
    <3>1. Typed
      BY DEF Base
    <3> DEFINE o == fd_array[fd].offset
               fds(k) == [fd_array EXCEPT ![fd].offset = @ + k, ![fd].size = @ + k]
               files(k) == [expected EXCEPT ![fd_array[fd].ino] =
                              [p \in Offsets |-> IF p \in o .. o + k - 1 THEN x ELSE @[p]]]
    <3>2. ASSUME NEW k \in Nat PROVE fds(k) \in [Fds -> FdType] /\ files(k) \in [Inos -> FileType]
      BY <3>1, FwriteTypes
    <3>3. fd_array' = fds(r.n) /\ expected' = files(r.n)
      BY <2>1 DEF r
    <3> HIDE DEF fds, files
    <3> QED BY <2>3, <3>2, <3>3
  <2> QED BY <1>1, <2>1, <2>2, <2>3, <2>4, DoneBase DEF r
<1>19. CASE Mkfs
  <2>1. disk' \in DiskType
    BY <1>0, <1>19, MkfsDone DEF Mkfs
  <2>2. BlankFile \in FileType
    BY DEF BlankFile, FileType
  <2>3. Typed'
    BY <1>19, <2>1, <2>2 DEF Mkfs, Base, Typed, fdVars, Events
  <2>4. mounted' = FALSE /\ "remade" \in events'
    BY <1>19 DEF Mkfs
  <2> QED BY <2>3, <2>4 DEF Base, Synced, Unshared
<1>20. CASE Mount
  <2>1. disk' = disk /\ fd_array_slist' = fd_array_slist /\ fd_array' = fd_array /\ expected' = expected
    BY <1>20 DEF Mount, fdVars
  <2>2. CASE IsDir(disk, Root) /\ mem' = mount(disk) /\ mounted' = TRUE /\ events' = events
    <3>1. /\ mount(disk) \in MemType /\ Sync(mount(disk), disk)
          /\ mount(disk).current_dir = ReadDir(disk, Root) /\ mount(disk).current_dir_pointer = Root
      BY <1>0, <2>2, MountDone
    <3>2. Typed'
      BY <2>1, <2>2, <3>1 DEF Base, Typed
    <3>3. Synced'
      BY <2>1, <2>2, <3>1 DEF Synced
    <3>4. Unshared'
      <4> SUFFICES ASSUME events' \subseteq {"seek", "torn"}
                   PROVE  NoSharing(disk') /\ NoSharing(WithCurrent(disk', mem'))
        BY DEF Unshared, WithCurrent, WriteCurrentDir, Written, Sdwrite, DirSector
      <4>1. NoSharing(disk)
        BY <2>2 DEF Base, Unshared
      <4>2. NoSharing(WithCurrent(disk, mount(disk)))
        BY <1>0, <2>2, <3>1, <4>1, CurrentRead
      <4> QED BY <2>1, <2>2, <4>1, <4>2
    <3> QED BY <3>2, <3>3, <3>4 DEF Base
  <2>3. CASE events' = events \cup {"lost"} /\ mem' = mem /\ mounted' = mounted
    BY <1>0, <1>11, <1>12, <2>1, <2>3
  <2> QED BY <1>20, <2>2, <2>3 DEF Mount
<1>21. CASE Unmounted
  BY <1>0, <1>11, <1>12, <1>21 DEF Unmounted, fdVars
<1>22. CASE PowerFailure
  <2>1. Call("power")
    BY <1>22 DEF PowerFailure
  <2>2. Sync(mem, disk) /\ Running /\ mounted
    BY <1>1, <2>1
  <2>3. events \subseteq {"seek", "torn"} => NoSharing(disk) /\ NoSharing(WithCurrent(disk, mem))
    BY <2>2 DEF Base, Unshared
  <2>4. ASSUME NEW r, r.w \in Seq(Writes), NEW w \in Begun(r), CutShort(w, {"torn"}),
               NeverShares(mem, disk, r)
        PROVE  Base'
    <3>1. WrittenAll(disk, w) \in Stages(disk, r.w)
      BY <2>4, WriteBegun
    <3>2. WrittenAll(disk, w) \in DiskType
      BY <1>0, <2>4, <3>1, StagesType
    <3>3. (events \cup {"torn"}) \subseteq {"seek", "torn"} => NoSharing(WrittenAll(disk, w))
      BY <2>3, <2>4, <3>1 DEF NeverShares
    <3>4. {"torn"} \in SUBSET Events
      BY DEF Events
    <3> QED BY <2>4, <3>2, <3>3, <3>4, CutBase
  <2>5. CASE CutShort(<<>>, {})
    <3>1. WrittenAll(disk, <<>>) = disk
      BY WriteNone
    <3>2. (events \cup {}) \subseteq {"seek", "torn"} => NoSharing(WrittenAll(disk, <<>>))
      BY <2>3, <3>1
    <3>3. WrittenAll(disk, <<>>) \in DiskType
      BY <1>0, <3>1
    <3> QED BY <2>5, <3>2, <3>3, CutBase
  <2>6. CASE \E s \in Names : \E w \in Begun(mkdir(mem, disk, s)) \cup Begun(touch(mem, disk, s)) :
               CutShort(w, {"torn"})
    <3>1. PICK s \in Names : \E w \in Begun(mkdir(mem, disk, s)) \cup Begun(touch(mem, disk, s)) :
            CutShort(w, {"torn"})
      BY <2>6
    <3>2. Orderly(mem, disk, mkdir(mem, disk, s)) /\ NeverShares(mem, disk, mkdir(mem, disk, s))
      BY <1>0, <2>2, MkdirOrderly
    <3>3. Orderly(mem, disk, touch(mem, disk, s)) /\ NeverShares(mem, disk, touch(mem, disk, s))
      BY <1>0, <2>2, TouchOrderly
    <3> QED BY <2>4, <3>1, <3>2, <3>3 DEF Orderly
  <2>7. CASE \E s \in Names : \E w \in Begun(rmdir(mem, disk, s)) : CutShort(w, {"torn_rmdir"})
    <3>0. PICK s \in Names : \E w \in Begun(rmdir(mem, disk, s)) : CutShort(w, {"torn_rmdir"})
      BY <2>7
    <3>1. PICK w \in Begun(rmdir(mem, disk, s)) : CutShort(w, {"torn_rmdir"})
      BY <3>0
    <3>2. rmdir(mem, disk, s).w \in Seq(Writes)
      BY <1>0, <2>2, RmdirOrderly DEF Orderly
    <3>3. WrittenAll(disk, w) \in DiskType
      BY <1>0, <3>2, WriteBegun, StagesType
    <3>4. {"torn_rmdir"} \in SUBSET Events /\ ~ (events \cup {"torn_rmdir"}) \subseteq {"seek", "torn"}
      BY DEF Events
    <3> QED BY <3>1, <3>3, <3>4, CutBase
  <2>8. CASE \E fd \in Fds, n \in Sizes, x \in Values :
               \E w \in Begun(fwrite(mem, disk, fd_array[fd], n, x)) : CutShort(w, {"torn"})
    <3>1. PICK fd \in Fds, n \in Sizes, x \in Values :
            \E w \in Begun(fwrite(mem, disk, fd_array[fd], n, x)) : CutShort(w, {"torn"})
      BY <2>8
    <3> DEFINE r == fwrite(mem, disk, fd_array[fd], n, x)
    <3>2. Orderly(mem, disk, r) /\ NeverShares(mem, disk, r)
      <4>1. fd_array[fd] \in FdType /\ n \in Nat \ {0}
        BY <1>0, FileAssumption
      <4> QED BY <1>0, <2>2, <4>1, FwriteOrderly
    <3> HIDE DEF r
    <3> QED BY <2>4, <3>1, <3>2 DEF Orderly, r
  <2> QED BY <1>22, <2>5, <2>6, <2>7, <2>8 DEF PowerFailure
<1> QED BY <1>2, <1>4, <1>5, <1>6, <1>8, <1>9, <1>10, <1>13, <1>14, <1>16, <1>17, <1>18, <1>19,
           <1>20, <1>21, <1>22 DEF Next


LEMMA TypedOK ==
  ASSUME Typed
  PROVE  TypeOK
<1>1. disk \in DiskType /\ mem \in MemType
  BY DEF Typed
<1>2. /\ disk.super \in [{0} -> CountsType] /\ disk.imap \in [{0} -> SUBSET Inos]
      /\ disk.smap \in [0 .. SMAP_SECTORS - 1 -> SUBSET Bits]
      /\ disk.iarray \in [Groups -> [InGroup -> InodeType]]
      /\ disk.darray \in [Blocks -> SectorType]
  BY <1>1 DEF DiskType
<1>3. ASSUME NEW p \in Blocks
      PROVE  /\ IsDir(disk, p) => ReadDir(disk, p) \in DirType
             /\ disk.darray[p].bytes # <<>> =>
                  disk.darray[p].bytes \in [1 .. SECTOR_SIZE -> Values \cup {Junk}]
  <2>1. IsDir(disk, p) => ReadDir(disk, p) \in DirType
    BY <1>1, DirIn
  <2>2. disk.darray[p] \in SectorType
    BY <1>2
  <2> QED BY <2>1, <2>2 DEF SectorType
<1>4. /\ mem.super_block \in CountsType /\ mem.imap \subseteq Inos /\ mem.smap \subseteq Bits
      /\ mem.smap_index \in 0 .. SMAP_SECTORS
      /\ mem.current_dir \in DirType /\ mem.current_dir_pointer \in Blocks
  BY <1>1 DEF MemType
<1>5. /\ mounted \in BOOLEAN /\ fd_array_slist \in SlistType(FD_ARRAY_SIZE + 1)
      /\ fd_array \in [Fds -> [ino : InGroup, access : {"O_RDWR", "O_RD"}, size : Nat, offset : Nat]]
      /\ expected \in [Inos -> [Offsets -> Values \cup {Junk}]]
      /\ events \subseteq {"no_inode", "no_block", "alias", "beyond", "seek", "torn", "torn_rmdir",
                           "remade", "lost"}
  BY DEF Typed, FdType, FileType, Events
<1>6. DOMAIN disk.darray = Blocks
  BY <1>2
<1> QED BY <1>2, <1>3, <1>4, <1>5, <1>6 DEF TypeOK

LEMMA UnsharedOK ==
  ASSUME Base
  PROVE  CrashOK
<1> SUFFICES ASSUME events \subseteq {"seek", "torn"}
             PROVE  /\ \A e \in Entries(disk) : Item(disk, e).ino \in Imap(disk)
                    /\ \A e, f \in Entries(disk) : e # f => Item(disk, e).ino # Item(disk, f).ino
  BY DEF CrashOK
<1>1. NoSharing(disk)
  BY DEF Base, Unshared
<1>2. ASSUME NEW e \in Entries(disk)
      PROVE  /\ e = <<e[1], e[2]>> /\ e[1] \in Blocks /\ e[2] \in Items
             /\ ValidAt(disk, e[1], e[2]) /\ Item(disk, e).ino = TargetAt(disk, e[1], e[2])
  <2>1. e \in DirBlocks(disk) \X Items /\ IsDir(disk, e[1]) /\ Item(disk, e).valid = 1
    BY DEF Entries
  <2>2. e = <<e[1], e[2]>> /\ e[2] \in Items
    BY <2>1
  <2> QED BY <2>1, <2>2 DEF ValidAt, TargetAt, Item, IsDir
<1>3. ASSUME NEW e \in Entries(disk) PROVE Item(disk, e).ino \in Imap(disk)
  BY <1>1, <1>2 DEF NoSharing, Imap
<1>4. ASSUME NEW e \in Entries(disk), NEW f \in Entries(disk),
             Item(disk, e).ino = Item(disk, f).ino
      PROVE  e = f
  <2>1. e[1] = f[1] /\ e[2] = f[2]
    BY <1>1, <1>2, <1>4 DEF NoSharing
  <2> QED BY <1>2, <2>1
<1> QED BY <1>3, <1>4

\* The part of the invariant that needs no assumption about what went wrong.
THEOREM FsBase == Spec => []Base
<1>1. Init => Base
  BY InitBase
<1>2. Base /\ [Next]_vars => Base'
  BY NextBase
<1> QED BY <1>1, <1>2, PTL DEF Spec

\* For every disk: the copies in memory and the sectors on the disk have their
\* types after every call and every power failure, smap_index stays in the array
\* and no inode points outside the data area (kernel/fs/fs.c).
THEOREM FsTypes == Spec => []TypeOK
<1>1. Base => TypeOK
  BY TypedOK DEF Base
<1> QED BY <1>1, FsBase, PTL

\* For every disk: power may fail between any two writes of mkdir, touch and
\* fwrite, and no entry leads to a free inode or to the inode of another entry,
\* for the inode is marked in imap before the entry is written.
THEOREM FsCrash == Spec => []CrashOK
<1>1. Base => CrashOK
  BY UnsharedOK
<1> QED BY <1>1, FsBase, PTL

-----------------------------------------------------------------------------
\* The tree.  D and F are the inodes of directories and of files, R the contents
\* of the directories and B their blocks.

Valid(R, i, k) == R[i].map[k].valid = 1
To(R, i, k) == R[i].map[k].ino
Called(R, i, k) == R[i].map[k].name

TargetsIn(D, F, R) ==
  \A i \in D, k \in Items : Valid(R, i, k) => To(R, i, k) \in D \cup F /\ To(R, i, k) # Root
AllTargets(D, F, R) ==
  \A j \in D \cup F : j # Root => \E i \in D, k \in Items : Valid(R, i, k) /\ To(R, i, k) = j
OneEntry(D, R) ==
  \A i, j \in D, k, l \in Items :
    Valid(R, i, k) /\ Valid(R, j, l) /\ To(R, i, k) = To(R, j, l) => i = j /\ k = l
OneName(D, R) ==
  \A i \in D, k, l \in Items :
    Valid(R, i, k) /\ Valid(R, i, l) /\ Called(R, i, k) = Called(R, i, l) => k = l
Fathers(D, R, B) ==
  \A i \in D, k \in Items :
    Valid(R, i, k) /\ To(R, i, k) \in D => R[To(R, i, k)].fpointer = B[i]
Reached(D, R) ==
  \A X \in SUBSET (D \ {Root}) :
    X # {} => \E i \in D, k \in Items : i \notin X /\ Valid(R, i, k) /\ To(R, i, k) \in X

Tree(D, F, R, B) ==
  /\ Root \in D /\ TargetsIn(D, F, R) /\ AllTargets(D, F, R) /\ OneEntry(D, R) /\ OneName(D, R)
  /\ Fathers(D, R, B) /\ Reached(D, R)

\* The new entry i of the directory P leads to ino.
LEMMA TreeEntry ==
  ASSUME NEW D, NEW F, NEW R, NEW B, Tree(D, F, R, B), NEW P \in D, NEW i \in Items,
         ~ Valid(R, P, i), NEW s, \A k \in Items : Valid(R, P, k) => Called(R, P, k) # s,
         NEW ino, ino \notin D, ino \notin F, NEW E, NEW G, NEW S, NEW C,
         \/ E = D /\ G = F \cup {ino}
         \/ /\ E = D \cup {ino} /\ G = F
            /\ S[ino].fpointer = B[P] /\ \A k \in Items : ~ Valid(S, ino, k),
         \A j \in D : j # P => S[j] = R[j],
         S[P].fpointer = R[P].fpointer, S[P].map[i] = NewItem(s, ino),
         \A k \in Items : k # i => S[P].map[k] = R[P].map[k],
         \A j \in D : C[j] = B[j]
  PROVE  Tree(E, G, S, C)
<1>1. Valid(S, P, i) /\ To(S, P, i) = ino /\ Called(S, P, i) = s
  BY DEF Valid, To, Called, NewItem
<1>2. \A k \in Items : k # i => /\ Valid(S, P, k) <=> Valid(R, P, k)
                                /\ To(S, P, k) = To(R, P, k) /\ Called(S, P, k) = Called(R, P, k)
  BY DEF Valid, To, Called
<1>3. \A j \in D, k \in Items : j # P => /\ Valid(S, j, k) <=> Valid(R, j, k)
                                         /\ To(S, j, k) = To(R, j, k)
                                         /\ Called(S, j, k) = Called(R, j, k)
  BY DEF Valid, To, Called
<1>4. D \subseteq E /\ E \subseteq D \cup {ino} /\ E \cup G = D \cup F \cup {ino} /\ Root \in D
      /\ ino # Root /\ ino \notin D /\ ino \notin F /\ P \in D
  BY DEF Tree
<1>5. \A j \in E, k \in Items : Valid(S, j, k) => j \in D
  <2>1. \A k \in Items : ino \in E => ~ Valid(S, ino, k)
    OBVIOUS
  <2> QED BY <1>4, <2>1
<1>6. \A j \in D : S[j].fpointer = R[j].fpointer
  OBVIOUS
<1>7. \A j \in D, k \in Items :
        Valid(S, j, k) => \/ j = P /\ k = i
                          \/ /\ Valid(R, j, k) /\ To(S, j, k) = To(R, j, k)
                             /\ Called(S, j, k) = Called(R, j, k) /\ ~ (j = P /\ k = i)
  BY <1>2, <1>3
<1>8. \A j \in D, k \in Items :
        Valid(R, j, k) => Valid(S, j, k) /\ To(S, j, k) = To(R, j, k) /\ ~ (j = P /\ k = i)
  BY <1>2, <1>3
<1>9. \A j \in D, k \in Items : Valid(R, j, k) => To(R, j, k) \in D \cup F /\ To(R, j, k) # Root
  BY DEF Tree, TargetsIn
<1>10. TargetsIn(E, G, S)
  BY <1>1, <1>4, <1>5, <1>7, <1>9 DEF TargetsIn
<1>11. AllTargets(E, G, S)
  <2> SUFFICES ASSUME NEW j \in E \cup G, j # Root
               PROVE  \E a \in E, k \in Items : Valid(S, a, k) /\ To(S, a, k) = j
    BY DEF AllTargets
  <2>1. CASE j = ino
    BY <1>1, <1>4, <2>1
  <2>2. CASE j # ino
    <3>1. PICK a \in D, k \in Items : Valid(R, a, k) /\ To(R, a, k) = j
      BY <1>4, <2>2 DEF Tree, AllTargets
    <3> QED BY <1>4, <1>8, <3>1
  <2> QED BY <2>1, <2>2
<1>12. OneEntry(E, S)
  <2>1. OneEntry(D, R)
    BY DEF Tree
  <2> QED BY <1>1, <1>4, <1>5, <1>7, <1>9, <2>1 DEF OneEntry
<1>13. OneName(E, S)
  <2>1. OneName(D, R)
    BY DEF Tree
  <2> QED BY <1>1, <1>5, <1>7, <2>1 DEF OneName
<1>14. Fathers(E, S, C)
  <2> SUFFICES ASSUME NEW j \in E, NEW k \in Items, Valid(S, j, k), To(S, j, k) \in E
               PROVE  S[To(S, j, k)].fpointer = C[j]
    BY DEF Fathers
  <2>1. j \in D
    BY <1>5
  <2>2. CASE j = P /\ k = i
    <3>1. To(S, j, k) = ino /\ ino \in E
      BY <1>1, <2>2
    <3>2. S[ino].fpointer = B[P]
      BY <1>4, <3>1
    <3> QED BY <2>2, <3>1, <3>2
  <2>3. CASE ~ (j = P /\ k = i)
    <3>1. Valid(R, j, k) /\ To(S, j, k) = To(R, j, k)
      BY <1>7, <2>1, <2>3
    <3>2. To(R, j, k) # ino
      BY <1>4, <1>9, <2>1, <3>1
    <3>3. To(R, j, k) \in D
      BY <1>4, <3>1, <3>2
    <3>4. R[To(R, j, k)].fpointer = B[j]
      BY <2>1, <3>1, <3>3 DEF Tree, Fathers
    <3> QED BY <1>6, <2>1, <3>1, <3>3, <3>4
  <2> QED BY <2>2, <2>3
<1>15. Reached(E, S)
  <2> SUFFICES ASSUME NEW X \in SUBSET (E \ {Root}), X # {}
               PROVE  \E a \in E, k \in Items : a \notin X /\ Valid(S, a, k) /\ To(S, a, k) \in X
    BY DEF Reached
  <2> DEFINE Y == X \ {ino}
  <2>1. CASE Y # {}
    <3>1. Y \in SUBSET (D \ {Root})
      BY <1>4
    <3> HIDE DEF Y
    <3>2. PICK a \in D, k \in Items : a \notin Y /\ Valid(R, a, k) /\ To(R, a, k) \in Y
      BY <2>1, <3>1 DEF Tree, Reached
    <3> USE DEF Y
    <3>3. a # ino /\ a \notin X
      BY <1>4, <3>2
    <3>4. Valid(S, a, k) /\ To(S, a, k) \in X
      BY <1>8, <3>2
    <3> QED BY <1>4, <3>3, <3>4
  <2>2. CASE Y = {}
    <3>1. X = {ino}
      BY <2>2
    <3>2. P \notin X /\ P \in E
      BY <1>4, <3>1
    <3> QED BY <1>1, <3>1, <3>2
  <2> QED BY <2>1, <2>2
<1> QED BY <1>4, <1>10, <1>11, <1>12, <1>13, <1>14, <1>15 DEF Tree

\* The entry i of P, which leads to the empty directory ino, is removed.
LEMMA TreeGone ==
  ASSUME NEW D, NEW F, NEW R, NEW B, Tree(D, F, R, B), NEW P \in D, NEW i \in Items,
         Valid(R, P, i), NEW ino \in D, ino = To(R, P, i), ino \notin F,
         \A k \in Items : ~ Valid(R, ino, k), NEW S,
         \A j \in D : j # P => S[j] = R[j],
         S[P].fpointer = R[P].fpointer, ~ Valid(S, P, i),
         \A k \in Items : k # i => S[P].map[k] = R[P].map[k]
  PROVE  ino # P /\ Tree(D \ {ino}, F, S, B)
<1> DEFINE E == D \ {ino}
<1>0. ino # P
  OBVIOUS
<1>1. \A j \in D, k \in Items :
        Valid(S, j, k) => /\ Valid(R, j, k) /\ To(S, j, k) = To(R, j, k)
                          /\ Called(S, j, k) = Called(R, j, k) /\ ~ (j = P /\ k = i)
  BY DEF Valid, To, Called
<1>2. \A j \in D, k \in Items :
        Valid(R, j, k) /\ ~ (j = P /\ k = i) => Valid(S, j, k) /\ To(S, j, k) = To(R, j, k)
  BY DEF Valid, To
<1>3. \A j \in D, k \in Items : Valid(R, j, k) => To(R, j, k) \in D \cup F /\ To(R, j, k) # Root
  BY DEF Tree, TargetsIn
<1>4. \A j \in D, k \in Items : Valid(R, j, k) /\ To(R, j, k) = ino => j = P /\ k = i
  BY DEF Tree, OneEntry
<1>5. ino # Root /\ Root \in E
  BY <1>3 DEF Tree
<1>6. \A j \in D, k \in Items : Valid(R, j, k) => j # ino
  OBVIOUS
<1>7. \A j \in D : S[j].fpointer = R[j].fpointer
  OBVIOUS
<1>8. TargetsIn(E, F, S)
  BY <1>1, <1>3, <1>4 DEF TargetsIn
<1>9. AllTargets(E, F, S)
  <2> SUFFICES ASSUME NEW j \in E \cup F, j # Root
               PROVE  \E a \in E, k \in Items : Valid(S, a, k) /\ To(S, a, k) = j
    BY DEF AllTargets
  <2>1. PICK a \in D, k \in Items : Valid(R, a, k) /\ To(R, a, k) = j
    BY DEF Tree, AllTargets
  <2>2. j # ino
    OBVIOUS
  <2>3. ~ (a = P /\ k = i)
    BY <2>1, <2>2
  <2> QED BY <1>2, <1>6, <2>1, <2>3
<1>10. OneEntry(E, S)
  <2>1. OneEntry(D, R)
    BY DEF Tree
  <2> QED BY <1>1, <2>1 DEF OneEntry
<1>11. OneName(E, S)
  <2>1. OneName(D, R)
    BY DEF Tree
  <2> QED BY <1>1, <2>1 DEF OneName
<1>12. Fathers(E, S, B)
  <2> SUFFICES ASSUME NEW j \in E, NEW k \in Items, Valid(S, j, k), To(S, j, k) \in E
               PROVE  S[To(S, j, k)].fpointer = B[j]
    BY DEF Fathers
  <2>1. Valid(R, j, k) /\ To(S, j, k) = To(R, j, k) /\ To(R, j, k) \in D
    BY <1>1
  <2>2. R[To(R, j, k)].fpointer = B[j]
    BY <2>1 DEF Tree, Fathers
  <2> QED BY <1>7, <2>1, <2>2
<1>13. Reached(E, S)
  <2> SUFFICES ASSUME NEW X \in SUBSET (E \ {Root}), X # {}
               PROVE  \E a \in E, k \in Items : a \notin X /\ Valid(S, a, k) /\ To(S, a, k) \in X
    BY DEF Reached
  <2>1. X \in SUBSET (D \ {Root}) /\ ino \notin X
    OBVIOUS
  <2>2. PICK a \in D, k \in Items : a \notin X /\ Valid(R, a, k) /\ To(R, a, k) \in X
    BY <2>1 DEF Tree, Reached
  <2>3. ~ (a = P /\ k = i)
    BY <2>1, <2>2
  <2> QED BY <1>2, <1>6, <2>2, <2>3
<1> QED BY <1>0, <1>5, <1>8, <1>9, <1>10, <1>11, <1>12, <1>13 DEF Tree

LEMMA TreeSame ==
  ASSUME NEW D, NEW F, NEW R, NEW B, Tree(D, F, R, B), NEW S, NEW C,
         \A i \in D : S[i] = R[i] /\ C[i] = B[i]
  PROVE  Tree(D, F, S, C)
<1>1. \A i \in D, k \in Items : /\ Valid(S, i, k) <=> Valid(R, i, k)
                                /\ To(S, i, k) = To(R, i, k) /\ Called(S, i, k) = Called(R, i, k)
  BY DEF Valid, To, Called
<1>2. Root \in D /\ TargetsIn(D, F, S) /\ AllTargets(D, F, S)
  BY <1>1 DEF Tree, TargetsIn, AllTargets
<1>3. OneEntry(D, S)
  BY <1>1 DEF Tree, OneEntry
<1>4. OneName(D, S)
  BY <1>1 DEF Tree, OneName
<1>5. Fathers(D, S, C)
  BY <1>1 DEF Tree, Fathers
<1>6. Reached(D, S)
  <2> SUFFICES ASSUME NEW X \in SUBSET (D \ {Root}), X # {}
               PROVE  \E a \in D, k \in Items : a \notin X /\ Valid(S, a, k) /\ To(S, a, k) \in X
    BY DEF Reached
  <2>1. PICK a \in D, k \in Items : a \notin X /\ Valid(R, a, k) /\ To(R, a, k) \in X
    BY DEF Tree, Reached
  <2> QED BY <1>1, <2>1
<1> QED BY <1>2, <1>3, <1>4, <1>5, <1>6 DEF Tree

\* The root alone.
LEMMA TreeNew ==
  ASSUME NEW R, NEW B, \A k \in Items : ~ Valid(R, Root, k)
  PROVE  Tree({Root}, {}, R, B)
BY DEF Tree, TargetsIn, AllTargets, OneEntry, OneName, Fathers, Reached


DirOf(d) == [i \in Inos |-> ReadDir(d, DirBlock(d, i))]
BlkOf(d) == [i \in Inos |-> DirBlock(d, i)]

\* The tree as it is on the disk.
TreeOn(d) ==
  /\ \A i \in Imap(d) : Inode(d, i).type \in {"dir", "normal"}
  /\ DirBlock(d, Root) = Root
  /\ \A i \in Dirs(d) : IsDir(d, DirBlock(d, i)) /\ Inode(d, i).size_allocated = SECTOR_SIZE
  /\ Tree(Dirs(d), Files(d), DirOf(d), BlkOf(d))

LEMMA Sorts ==
  ASSUME NEW d \in DiskType
  PROVE  /\ Dirs(d) \subseteq Imap(d) /\ Files(d) \subseteq Imap(d) /\ Imap(d) \subseteq Inos
         /\ \A i \in Imap(d) : (i \in Dirs(d) <=> Inode(d, i).type = "dir")
                               /\ (i \in Files(d) <=> Inode(d, i).type = "normal")
         /\ \A i \in Dirs(d) : i \notin Files(d)
         /\ \A i \in Inos : DirOf(d)[i] = ReadDir(d, DirBlock(d, i)) /\ BlkOf(d)[i] = DirBlock(d, i)
<1>1. Imap(d) \subseteq Inos
  BY DEF DiskType, Imap
<1> QED BY <1>1 DEF Dirs, Files, DirOf, BlkOf

\* A block of a file or directory is that of no other.
LEMMA OwnBlocks ==
  ASSUME NEW d \in DiskType, SpaceOn(d)
  PROVE  /\ \A i \in Imap(d), k \in Positions :
              k < Units(Inode(d, i)) =>
                Inode(d, i).pointers[k] \in Marked(d) /\ Inode(d, i).pointers[k] \in Blocks
         /\ \A i, j \in Imap(d), k, l \in Positions :
              /\ k < Units(Inode(d, i)) /\ l < Units(Inode(d, j))
              /\ Inode(d, i).pointers[k] = Inode(d, j).pointers[l]
              => i = j /\ k = l
         /\ \A i \in Imap(d) : /\ Inode(d, i).size_allocated = Units(Inode(d, i)) * SECTOR_SIZE
                               /\ Units(Inode(d, i)) <= NPOINTERS
<1> DEFINE im == Imap(d)
           nd == Nodes(d)
           mk == Marked(d)
<1>1. im \subseteq Inos /\ \A i \in Inos : nd[i] = Inode(d, i)
  BY NodesType
<1>2. Space(im, nd, mk, d.super[0])
  BY DEF SpaceOn
<1>3. mk \subseteq Blocks
  BY DEF Marked
<1> HIDE DEF im, nd, mk
<1>4. \A i \in im, k \in Positions : k < Units(nd[i]) => Holds(im, nd, i, k)
  BY DEF Holds
<1>5. \A i \in im, k \in Positions :
        k < Units(Inode(d, i)) => Inode(d, i).pointers[k] \in mk /\ Inode(d, i).pointers[k] \in Blocks
  <2> TAKE i \in im, k \in Positions
  <2> HAVE k < Units(Inode(d, i))
  <2>1. i \in Inos /\ nd[i] = Inode(d, i)
    BY <1>1
  <2>2. Holds(im, nd, i, k)
    BY <1>4, <2>1
  <2>3. nd[i].pointers[k] \in mk
    BY <1>2, <2>1, <2>2 DEF Space
  <2> QED BY <1>3, <2>1, <2>3
<1>6. ASSUME NEW i \in im, NEW j \in im, NEW k \in Positions, NEW l \in Positions,
             k < Units(Inode(d, i)), l < Units(Inode(d, j)),
             Inode(d, i).pointers[k] = Inode(d, j).pointers[l]
      PROVE  i = j /\ k = l
  <2>1. i \in Inos /\ j \in Inos /\ nd[i] = Inode(d, i) /\ nd[j] = Inode(d, j)
    BY <1>1
  <2>2. Holds(im, nd, i, k) /\ Holds(im, nd, j, l) /\ nd[i].pointers[k] = nd[j].pointers[l]
    BY <1>4, <1>6, <2>1
  <2> QED BY <1>2, <2>1, <2>2 DEF Space
<1>7. \A i \in im : nd[i] = Inode(d, i)
  BY <1>1
<1>8. \A i \in im : nd[i].size_allocated = Units(nd[i]) * SECTOR_SIZE /\ Units(nd[i]) <= NPOINTERS
  BY <1>2 DEF Space
<1>9. \A i \in im : /\ Inode(d, i).size_allocated = Units(Inode(d, i)) * SECTOR_SIZE
                    /\ Units(Inode(d, i)) <= NPOINTERS
  BY <1>7, <1>8
<1> QED BY <1>5, <1>6, <1>9 DEF im, mk

LEMMA DirBlocksOwn ==
  ASSUME NEW d \in DiskType, SpaceOn(d), TreeOn(d)
  PROVE  /\ \A i \in Dirs(d) : DirBlock(d, i) \in Marked(d) /\ DirBlock(d, i) \in Blocks
                               /\ Units(Inode(d, i)) = 1
         /\ \A i, j \in Dirs(d) : DirBlock(d, i) = DirBlock(d, j) => i = j
         /\ \A i \in Dirs(d), j \in Imap(d), k \in Positions :
              j # i /\ k < Units(Inode(d, j)) => Inode(d, j).pointers[k] # DirBlock(d, i)
<1>1. Dirs(d) \subseteq Imap(d) /\ 0 \in Positions
  BY Sorts, Consts DEF Positions
<1>2. \A i \in Dirs(d) : Units(Inode(d, i)) = 1
  <2> TAKE i \in Dirs(d)
  <2>1. Inode(d, i).size_allocated = 1 * SECTOR_SIZE
    BY Consts DEF TreeOn
  <2> QED BY <2>1, UnitsOf
<1>3. \A i \in Dirs(d) : 0 < Units(Inode(d, i))
  BY <1>2
<1> QED BY <1>1, <1>2, <1>3, OwnBlocks DEF DirBlock


\* The entries on the disk are those of the directories.
LEMMA EntriesOf ==
  ASSUME NEW d \in DiskType, SpaceOn(d), TreeOn(d)
  PROVE  /\ \A i \in Dirs(d), k \in Items : Valid(DirOf(d), i, k) =>
              /\ <<DirBlock(d, i), k>> \in Entries(d)
              /\ Item(d, <<DirBlock(d, i), k>>).ino = To(DirOf(d), i, k)
         /\ \A e \in Entries(d) : \E i \in Dirs(d), k \in Items :
              /\ e = <<DirBlock(d, i), k>> /\ Valid(DirOf(d), i, k)
              /\ Item(d, e).ino = To(DirOf(d), i, k) /\ Item(d, e).name = Called(DirOf(d), i, k)
<1> DEFINE R == DirOf(d)
<1>1. \A i \in Dirs(d) : i \in Inos /\ R[i] = ReadDir(d, DirBlock(d, i)) /\ IsDir(d, DirBlock(d, i))
  BY Sorts DEF TreeOn
<1> HIDE DEF R
<1>2. ASSUME NEW i \in Dirs(d), NEW k \in Items
      PROVE  LET e == <<DirBlock(d, i), k>>
             IN  /\ Item(d, e).ino = To(R, i, k) /\ Item(d, e).name = Called(R, i, k)
                 /\ Item(d, e).valid = 1 <=> Valid(R, i, k)
  BY <1>1 DEF Item, To, Called, Valid
<1>3. ASSUME NEW i \in Dirs(d), NEW k \in Items, Valid(R, i, k)
      PROVE  <<DirBlock(d, i), k>> \in Entries(d)
  BY <1>1, <1>2, <1>3 DEF Entries, DirBlocks
<1>4. ASSUME NEW e \in Entries(d)
      PROVE  \E i \in Dirs(d), k \in Items : e = <<DirBlock(d, i), k>> /\ Valid(R, i, k)
  <2>1. e \in DirBlocks(d) \X Items /\ Item(d, e).valid = 1
    BY DEF Entries
  <2>2. PICK p \in DirBlocks(d), k \in Items : e = <<p, k>>
    BY <2>1
  <2>3. PICK i \in Dirs(d) : p = DirBlock(d, i)
    BY <2>2 DEF DirBlocks
  <2> QED BY <1>2, <2>1, <2>2, <2>3
<1> QED BY <1>2, <1>3, <1>4 DEF R

LEMMA TreeIsOK ==
  ASSUME NEW d \in DiskType, SpaceOn(d), TreeOn(d)
  PROVE  /\ Imap(d) = Dirs(d) \cup Files(d) /\ Root \in Dirs(d)
         /\ \A i \in Dirs(d) : IsDir(d, DirBlock(d, i))
         /\ {Item(d, e).ino : e \in Entries(d)} = Imap(d) \ {Root}
         /\ \A e, f \in Entries(d) :
              e # f => /\ Item(d, e).ino # Item(d, f).ino
                       /\ e[1] = f[1] => Item(d, e).name # Item(d, f).name
         /\ \A e \in Entries(d) :
              Item(d, e).ino \in Dirs(d) => ReadDir(d, DirBlock(d, Item(d, e).ino)).fpointer = e[1]
         /\ \A X \in SUBSET (Dirs(d) \ {Root}) :
              X # {} => \E e \in Entries(d) :
                          Item(d, e).ino \in X /\ e[1] \notin {DirBlock(d, i) : i \in X}
<1> DEFINE R == DirOf(d)
           B == BlkOf(d)
           D == Dirs(d)
           F == Files(d)
<1>1. Imap(d) = D \cup F
  BY Sorts DEF TreeOn
<1>2. Tree(D, F, R, B)
  BY DEF TreeOn
<1>3. \A i \in D : R[i] = ReadDir(d, DirBlock(d, i)) /\ B[i] = DirBlock(d, i)
  BY Sorts
<1>4. \A i, j \in D : DirBlock(d, i) = DirBlock(d, j) => i = j
  BY DirBlocksOwn
<1>5. \A i \in D, k \in Items : Valid(R, i, k) =>
        <<DirBlock(d, i), k>> \in Entries(d) /\ Item(d, <<DirBlock(d, i), k>>).ino = To(R, i, k)
  BY EntriesOf
<1>6. \A e \in Entries(d) : \E i \in D, k \in Items :
        /\ e = <<DirBlock(d, i), k>> /\ Valid(R, i, k)
        /\ Item(d, e).ino = To(R, i, k) /\ Item(d, e).name = Called(R, i, k)
  BY EntriesOf
<1>7. \A i \in D : IsDir(d, DirBlock(d, i))
  BY DEF TreeOn
<1> HIDE DEF R, B, D, F
<1>8. {Item(d, e).ino : e \in Entries(d)} = Imap(d) \ {Root}
  <2>1. ASSUME NEW e \in Entries(d) PROVE Item(d, e).ino \in Imap(d) \ {Root}
    BY <1>1, <1>2, <1>6 DEF Tree, TargetsIn
  <2>2. ASSUME NEW j \in Imap(d), j # Root PROVE \E e \in Entries(d) : Item(d, e).ino = j
    <3>1. PICK i \in D, k \in Items : Valid(R, i, k) /\ To(R, i, k) = j
      BY <1>1, <1>2, <2>2 DEF Tree, AllTargets
    <3> QED BY <1>5, <3>1
  <2> QED BY <2>1, <2>2
<1>9. ASSUME NEW e \in Entries(d), NEW f \in Entries(d), e # f
      PROVE  /\ Item(d, e).ino # Item(d, f).ino
             /\ e[1] = f[1] => Item(d, e).name # Item(d, f).name
  <2>1. PICK i \in D, k \in Items :
          /\ e = <<DirBlock(d, i), k>> /\ Valid(R, i, k)
          /\ Item(d, e).ino = To(R, i, k) /\ Item(d, e).name = Called(R, i, k)
    BY <1>6
  <2>2. PICK j \in D, l \in Items :
          /\ f = <<DirBlock(d, j), l>> /\ Valid(R, j, l)
          /\ Item(d, f).ino = To(R, j, l) /\ Item(d, f).name = Called(R, j, l)
    BY <1>6
  <2>3. ~ (i = j /\ k = l)
    BY <1>9, <2>1, <2>2
  <2>4. To(R, i, k) # To(R, j, l)
    BY <1>2, <2>1, <2>2, <2>3 DEF Tree, OneEntry
  <2>5. ASSUME e[1] = f[1] PROVE Called(R, i, k) # Called(R, j, l)
    <3>1. i = j
      BY <1>4, <2>1, <2>2, <2>5
    <3> QED BY <1>2, <2>1, <2>2, <2>3, <3>1 DEF Tree, OneName
  <2> QED BY <2>1, <2>2, <2>4, <2>5
<1>10. ASSUME NEW e \in Entries(d), Item(d, e).ino \in D
       PROVE  ReadDir(d, DirBlock(d, Item(d, e).ino)).fpointer = e[1]
  <2>1. PICK i \in D, k \in Items :
          e = <<DirBlock(d, i), k>> /\ Valid(R, i, k) /\ Item(d, e).ino = To(R, i, k)
    BY <1>6
  <2>2. R[To(R, i, k)].fpointer = B[i]
    BY <1>2, <1>10, <2>1 DEF Tree, Fathers
  <2> QED BY <1>3, <1>10, <2>1, <2>2
<1>11. ASSUME NEW X \in SUBSET (D \ {Root}), X # {}
       PROVE  \E e \in Entries(d) : Item(d, e).ino \in X /\ e[1] \notin {DirBlock(d, i) : i \in X}
  <2>1. PICK i \in D, k \in Items : i \notin X /\ Valid(R, i, k) /\ To(R, i, k) \in X
    BY <1>2, <1>11 DEF Tree, Reached
  <2> DEFINE e == <<DirBlock(d, i), k>>
  <2>2. e \in Entries(d) /\ Item(d, e).ino \in X
    BY <1>5, <2>1
  <2>3. e[1] \notin {DirBlock(d, j) : j \in X}
    BY <1>4, <2>1
  <2> HIDE DEF e
  <2> QED BY <2>2, <2>3
<1>12. Root \in D
  BY <1>2 DEF Tree
<1> QED BY <1>1, <1>7, <1>8, <1>9, <1>10, <1>11, <1>12 DEF D, F

\* Files.  The bytes that have been written are in blocks of the file.
DataAt(d, i, o) == d.darray[Inode(d, i).pointers[o \div SECTOR_SIZE]].bytes
Stands(d, i, o, v) ==
  /\ o < Inode(d, i).size_allocated /\ o \div SECTOR_SIZE < NDIRECT
  /\ DataAt(d, i, o) # <<>> /\ DataAt(d, i, o)[(o % SECTOR_SIZE) + 1] = v
Contents(d, ex) ==
  \A i \in Files(d), o \in Offsets : ex[i][o] # Junk => Stands(d, i, o, ex[i][o])

\* A file that was only appended to has its bytes from the first to the last.
WrittenTo(file) == {o \in Offsets : file[o] # Junk}
SizesRight(d, ex) ==
  \A i \in Files(d) : WrittenTo(ex[i]) = 0 .. Inode(d, i).size - 1

LEMMA OffsetHeld ==
  ASSUME NEW d \in DiskType, SpaceOn(d), NEW i \in Imap(d), NEW o \in Nat,
         o < Inode(d, i).size_allocated
  PROVE  o \div SECTOR_SIZE \in Positions /\ o \div SECTOR_SIZE < Units(Inode(d, i))
<1> DEFINE k == o \div SECTOR_SIZE
           u == Units(Inode(d, i))
<1>1. Inode(d, i).size_allocated = u * SECTOR_SIZE /\ u <= NPOINTERS
  BY OwnBlocks
<1>2. i \in Inos
  BY Sorts
<1>3. u \in Nat
  BY <1>2, InodeIn, UnitsNat
<1>4. SECTOR_SIZE \in Nat \ {0} /\ NPOINTERS \in Nat
  BY Consts
<1>5. k \in Nat /\ k * SECTOR_SIZE <= o
  BY <1>4
<1>6. k * SECTOR_SIZE < u * SECTOR_SIZE
  BY <1>1, <1>3, <1>4, <1>5
<1> HIDE DEF k, u
<1>7. k < u
  BY <1>3, <1>4, <1>5, <1>6
<1> QED BY <1>1, <1>3, <1>4, <1>5, <1>7 DEF Positions, k, u

\* Calls that write no block of a file.
LEMMA ContentsKept ==
  ASSUME NEW c \in DiskType, SpaceOn(c), NEW ex, Contents(c, ex), NEW f \in DiskType, NEW ey,
         \A i \in Files(f) : \/ i \in Files(c) /\ Inode(f, i) = Inode(c, i) /\ ey[i] = ex[i]
                             \/ ey[i] = BlankFile /\ Inode(f, i).size = 0,
         \A i \in Files(c), k \in Positions : k < Units(Inode(c, i)) =>
           f.darray[Inode(c, i).pointers[k]] = c.darray[Inode(c, i).pointers[k]]
  PROVE  Contents(f, ey) /\ (SizesRight(c, ex) => SizesRight(f, ey))
<1>0. \A o \in Offsets : o \in Nat /\ BlankFile[o] = Junk
  BY Consts DEF Offsets, BlankFile
<1>1. Contents(f, ey)
  <2> SUFFICES ASSUME NEW i \in Files(f), NEW o \in Offsets, ey[i][o] # Junk
               PROVE  Stands(f, i, o, ey[i][o])
    BY DEF Contents
  <2>1. i \in Files(c) /\ Inode(f, i) = Inode(c, i) /\ ey[i] = ex[i]
    BY <1>0
  <2>2. Stands(c, i, o, ey[i][o])
    BY <2>1 DEF Contents
  <2>3. o \div SECTOR_SIZE \in Positions /\ o \div SECTOR_SIZE < Units(Inode(c, i))
    BY <1>0, <2>1, <2>2, OffsetHeld, Sorts DEF Stands
  <2>4. DataAt(f, i, o) = DataAt(c, i, o)
    BY <2>1, <2>3 DEF DataAt
  <2> QED BY <2>1, <2>2, <2>4 DEF Stands
<1>2. ASSUME SizesRight(c, ex), NEW i \in Files(f)
      PROVE  WrittenTo(ey[i]) = 0 .. Inode(f, i).size - 1
  <2>1. CASE i \in Files(c) /\ Inode(f, i) = Inode(c, i) /\ ey[i] = ex[i]
    BY <1>2, <2>1 DEF SizesRight
  <2>2. CASE ey[i] = BlankFile /\ Inode(f, i).size = 0
    BY <1>0, <2>2 DEF WrittenTo
  <2> QED BY <2>1, <2>2
<1> QED BY <1>1, <1>2 DEF SizesRight

-----------------------------------------------------------------------------
\* What the calls do to a sound file system.

InDir(m, d, i) ==
  /\ i \in Dirs(d) /\ m.current_dir_pointer = DirBlock(d, i)
  /\ m.current_dir = ReadDir(d, DirBlock(d, i))
Sound(m, d, ex) ==
  /\ TreeOn(d) /\ SpaceOn(d) /\ Contents(d, ex)
  /\ \E i : InDir(m, d, i)

\* f is c but for the inode ino, the block P and the blocks that were free.
Beside(c, f, ino, P) ==
  /\ \A j \in Imap(c) : j # ino => Inode(f, j) = Inode(c, j)
  /\ \A b \in Marked(c) : b # P => f.darray[b] = c.darray[b]

LEMMA BesideKept ==
  ASSUME NEW c \in DiskType, NEW f \in DiskType, SpaceOn(c), TreeOn(c), NEW a \in Dirs(c),
         NEW ino, Beside(c, f, ino, DirBlock(c, a))
  PROVE  /\ \A j \in Dirs(c) : j # ino =>
              /\ Inode(f, j) = Inode(c, j) /\ DirBlock(f, j) = DirBlock(c, j)
              /\ BlkOf(f)[j] = BlkOf(c)[j]
              /\ j # a => IsDir(f, DirBlock(f, j)) /\ DirOf(f)[j] = DirOf(c)[j]
         /\ \A i \in Files(c), k \in Positions : k < Units(Inode(c, i)) =>
              f.darray[Inode(c, i).pointers[k]] = c.darray[Inode(c, i).pointers[k]]
<1>1. /\ \A i \in Dirs(c) : DirBlock(c, i) \in Marked(c)
      /\ \A i, j \in Dirs(c) : DirBlock(c, i) = DirBlock(c, j) => i = j
      /\ \A j \in Imap(c), k \in Positions :
           j # a /\ k < Units(Inode(c, j)) => Inode(c, j).pointers[k] # DirBlock(c, a)
  BY DirBlocksOwn
<1>2. /\ Dirs(c) \subseteq Imap(c) /\ Files(c) \subseteq Imap(c) /\ Imap(c) \subseteq Inos
      /\ a \notin Files(c)
      /\ \A j \in Inos : DirOf(c)[j] = ReadDir(c, DirBlock(c, j)) /\ BlkOf(c)[j] = DirBlock(c, j)
      /\ \A j \in Inos : DirOf(f)[j] = ReadDir(f, DirBlock(f, j)) /\ BlkOf(f)[j] = DirBlock(f, j)
  BY Sorts
<1>3. ASSUME NEW j \in Dirs(c), j # ino
      PROVE  /\ Inode(f, j) = Inode(c, j) /\ DirBlock(f, j) = DirBlock(c, j)
             /\ BlkOf(f)[j] = BlkOf(c)[j]
             /\ j # a => IsDir(f, DirBlock(f, j)) /\ DirOf(f)[j] = DirOf(c)[j]
  <2>1. Inode(f, j) = Inode(c, j) /\ DirBlock(f, j) = DirBlock(c, j)
    BY <1>2, <1>3 DEF Beside, DirBlock
  <2>2. BlkOf(f)[j] = BlkOf(c)[j]
    BY <1>2, <2>1
  <2>3. ASSUME j # a PROVE IsDir(f, DirBlock(f, j)) /\ DirOf(f)[j] = DirOf(c)[j]
    <3> DEFINE b == DirBlock(c, j)
    <3>1. f.darray[b] = c.darray[b]
      BY <1>1, <2>3 DEF Beside
    <3>2. IsDir(c, b)
      BY DEF TreeOn
    <3> HIDE DEF b
    <3>3. IsDir(f, b) /\ ReadDir(f, b) = ReadDir(c, b)
      BY <3>1, <3>2, SameEntries
    <3> QED BY <1>2, <2>1, <3>3 DEF b
  <2> QED BY <2>1, <2>2, <2>3
<1>4. ASSUME NEW i \in Files(c), NEW k \in Positions, k < Units(Inode(c, i))
      PROVE  f.darray[Inode(c, i).pointers[k]] = c.darray[Inode(c, i).pointers[k]]
  <2>1. i \in Imap(c) /\ i # a
    BY <1>2
  <2>2. Inode(c, i).pointers[k] \in Marked(c)
    BY <1>4, <2>1, OwnBlocks
  <2>3. Inode(c, i).pointers[k] # DirBlock(c, a)
    BY <1>1, <1>4, <2>1
  <2> QED BY <2>2, <2>3 DEF Beside
<1> QED BY <1>3, <1>4

\* The names in use are seen by is_file_exist: no entry leads to the root.
LEMMA NewName ==
  ASSUME NEW c \in DiskType, NEW m \in MemType, TreeOn(c), NEW a, InDir(m, c, a), NEW s,
         is_file_exist(m, s) = 0
  PROVE  \A k \in Items : Valid(DirOf(c), a, k) => Called(DirOf(c), a, k) # s
<1> DEFINE R == DirOf(c)
<1>1. a \in Dirs(c) /\ R[a] = m.current_dir
  BY Sorts DEF InDir
<1>2. \A k \in Items : Valid(R, a, k) => To(R, a, k) # Root
  BY <1>1 DEF TreeOn, Tree, TargetsIn
<1> HIDE DEF R
<1>3. Matching(m.current_dir, s) = {}
  <2> SUFFICES ASSUME Matching(m.current_dir, s) # {} PROVE FALSE
    OBVIOUS
  <2> DEFINE i == Min(Matching(m.current_dir, s))
  <2>1. i \in Items /\ m.current_dir.map[i].valid = 1
    BY MatchingIn
  <2>2. m.current_dir.map[i].ino = 0
    BY DEF is_file_exist, Lookup
  <2> HIDE DEF i
  <2> QED BY <1>1, <1>2, <2>1, <2>2, Consts DEF Valid, To
<1> QED BY <1>1, <1>3 DEF Matching, Valid, Called, R

\* What Makes says of a sound file system; p is the block that mkdir allocates.
LEMMA EntryFacts ==
  ASSUME NEW m \in MemType, NEW c \in DiskType, NEW f \in DiskType, SpaceOn(c), TreeOn(c),
         NEW a, InDir(m, c, a), NEW r, NEW s \in Names, NEW h, NEW i, NEW ino,
         Makes(m, c, r, f, s, h, i, ino), f.imap = h.imap, OtherInodes(h, f, ino),
         NEW p, p \notin Marked(c), \A b \in Blocks : b # p => f.darray[b] = h.darray[b],
         r.m.current_dir_pointer = m.current_dir_pointer
  PROVE  /\ ino \in Inos /\ ino \notin Imap(c) /\ Imap(f) = Imap(c) \cup {ino} /\ i \in Items
         /\ \A j \in Imap(c) : Inode(f, j) = Inode(c, j)
         /\ Beside(c, f, ino, DirBlock(c, a))
         /\ IsDir(f, DirBlock(c, a)) /\ ReadDir(f, DirBlock(c, a)) = r.m.current_dir
         /\ r.m.current_dir = WithItem(DirOf(c)[a], i, NewItem(s, ino)) /\ ~ Valid(DirOf(c), a, i)
         /\ DirOf(c)[a] \in DirType
<1> DEFINE P == DirBlock(c, a)
<1>1. /\ ino \in Inos \ c.imap[0] /\ i \in Items /\ m.current_dir.map[i].valid = 0
      /\ r.m.current_dir = WithItem(m.current_dir, i, NewItem(s, ino))
      /\ h \in DiskType /\ h.imap[0] = c.imap[0] \cup {ino} /\ h.iarray = c.iarray
      /\ IsDir(h, P) /\ ReadDir(h, P) = r.m.current_dir
      /\ \A q \in Blocks : q # P => h.darray[q] = c.darray[q]
  BY DEF Makes, Entered, InDir
<1>2. a \in Dirs(c) /\ DirOf(c)[a] = m.current_dir /\ a \in Inos
  BY Sorts DEF InDir
<1>3. P \in Marked(c) /\ P \in Blocks
  BY <1>2, DirBlocksOwn
<1>4. Imap(c) \subseteq Inos
  BY Sorts
<1>5. \A j \in Imap(c) : Inode(f, j) = Inode(c, j)
  <2> TAKE j \in Imap(c)
  <2>1. j \in Inos /\ j # ino
    BY <1>1, <1>4 DEF Imap
  <2>2. Inode(f, j) = Inode(h, j)
    BY <2>1 DEF OtherInodes
  <2>3. Inode(h, j) = Inode(c, j)
    BY <1>1 DEF Inode
  <2> QED BY <2>2, <2>3
<1>6. \A b \in Marked(c) : b # P => f.darray[b] = c.darray[b]
  <2>1. Marked(c) \subseteq Blocks
    BY DEF Marked
  <2> QED BY <1>1, <2>1
<1>7. f.darray[P] = h.darray[P]
  BY <1>3
<1>8. IsDir(f, P) /\ ReadDir(f, P) = r.m.current_dir
  BY <1>1, <1>7, SameEntries
<1>9. m.current_dir \in DirType
  BY DEF MemType
<1>10. Imap(f) = Imap(c) \cup {ino} /\ ino \notin Imap(c)
  BY <1>1 DEF Imap
<1>11. ~ Valid(DirOf(c), a, i)
  BY <1>1, <1>2 DEF Valid
<1> QED BY <1>1, <1>2, <1>5, <1>6, <1>8, <1>9, <1>10, <1>11 DEF Beside


LEMMA EntryTree ==
  ASSUME NEW c \in DiskType, NEW f \in DiskType, SpaceOn(c), TreeOn(c), NEW a \in Dirs(c),
         NEW s \in Names, NEW ino \in Inos, ino \notin Imap(c), Imap(f) = Imap(c) \cup {ino},
         NEW i \in Items, \A j \in Imap(c) : Inode(f, j) = Inode(c, j),
         Beside(c, f, ino, DirBlock(c, a)), IsDir(f, DirBlock(c, a)),
         ReadDir(f, DirBlock(c, a)) = WithItem(DirOf(c)[a], i, NewItem(s, ino)),
         ~ Valid(DirOf(c), a, i), DirOf(c)[a] \in DirType,
         \A k \in Items : Valid(DirOf(c), a, k) => Called(DirOf(c), a, k) # s,
         \/ Inode(f, ino).type = "normal"
         \/ /\ Inode(f, ino).type = "dir" /\ Inode(f, ino).size_allocated = SECTOR_SIZE
            /\ IsDir(f, DirBlock(f, ino))
            /\ ReadDir(f, DirBlock(f, ino)).fpointer = DirBlock(c, a)
            /\ \A k \in Items : ReadDir(f, DirBlock(f, ino)).map[k].valid = 0
  PROVE  /\ TreeOn(f) /\ a \in Dirs(f) /\ DirBlock(f, a) = DirBlock(c, a)
         /\ Files(f) \subseteq Files(c) \cup {ino} /\ Files(c) \subseteq Files(f)
         /\ ino \in Files(f) <=> Inode(f, ino).type = "normal"
<1> DEFINE D == Dirs(c)
           F == Files(c)
           R == DirOf(c)
           B == BlkOf(c)
           S == DirOf(f)
           C == BlkOf(f)
           new == NewItem(s, ino)
<1>1. Dirs(c) \subseteq Imap(c) /\ Files(c) \subseteq Imap(c) /\ Imap(c) \subseteq Inos /\ Root \in D
  BY Sorts DEF TreeOn, Tree
<1>2. ino \notin D /\ ino \notin F /\ ino # Root
  BY <1>1
<1>3. /\ \A j \in D : C[j] = B[j] /\ DirBlock(f, j) = DirBlock(c, j)
      /\ \A j \in D : j # a => S[j] = R[j] /\ IsDir(f, DirBlock(f, j))
  BY <1>2, BesideKept
<1>4. S[a] = WithItem(R[a], i, new)
  BY <1>1, <1>3, Sorts
<1>5. S[a].fpointer = R[a].fpointer /\ S[a].map[i] = new /\ \A k \in Items : k # i => S[a].map[k] = R[a].map[k]
  <2> DEFINE dir == R[a]
  <2>1. dir \in DirType /\ new \in ItemType
    BY DEF NewItem, ItemType
  <2>2. S[a] = WithItem(dir, i, new)
    BY <1>4
  <2> HIDE DEF dir, new, S
  <2>3. /\ WithItem(dir, i, new).fpointer = dir.fpointer /\ WithItem(dir, i, new).map[i] = new
        /\ \A k \in Items : k # i => WithItem(dir, i, new).map[k] = dir.map[k]
    BY <2>1, ItemIn
  <2> QED BY <2>2, <2>3 DEF dir
<1>6. Dirs(f) = IF Inode(f, ino).type = "dir" THEN D \cup {ino} ELSE D
  BY <1>1, <1>2 DEF Dirs
<1>7. Files(f) = IF Inode(f, ino).type = "normal" THEN F \cup {ino} ELSE F
  BY <1>1, <1>2 DEF Files
<1>8. Inode(f, ino).type = "dir" =>
        S[ino].fpointer = B[a] /\ \A k \in Items : ~ Valid(S, ino, k)
  BY <1>1, Sorts DEF Valid
<1>9. Tree(D, F, R, B)
  BY DEF TreeOn
<1> DEFINE E == Dirs(f)
           G == Files(f)
<1> HIDE DEF D, F, R, B, S, C
<1>10. \/ E = D /\ G = F \cup {ino}
       \/ /\ E = D \cup {ino} /\ G = F
          /\ S[ino].fpointer = B[a] /\ \A k \in Items : ~ Valid(S, ino, k)
  BY <1>6, <1>7, <1>8
<1> HIDE DEF E, G
<1>11. Tree(E, G, S, C)
  <2>1. \A k \in Items : Valid(R, a, k) => Called(R, a, k) # s
    BY DEF R
  <2>2. ~ Valid(R, a, i) /\ a \in D
    BY DEF R, D
  <2>3. S[a].map[i] = NewItem(s, ino)
    BY <1>5
  <2> QED BY <1>2, <1>3, <1>5, <1>9, <1>10, <2>1, <2>2, <2>3, TreeEntry
<1>12. \A j \in Imap(f) : Inode(f, j).type \in {"dir", "normal"}
  BY DEF TreeOn
<1>13. DirBlock(f, Root) = Root
  BY <1>1, <1>3 DEF TreeOn, D
<1>14. ASSUME NEW j \in Dirs(f)
       PROVE  IsDir(f, DirBlock(f, j)) /\ Inode(f, j).size_allocated = SECTOR_SIZE
  <2>1. CASE j = ino
    <3>1. Inode(f, ino).type = "dir"
      BY <2>1 DEF Dirs
    <3> QED BY <2>1, <3>1
  <2>2. CASE j # ino
    <3>1. j \in D
      BY <1>6, <2>2
    <3>2. Inode(f, j).size_allocated = SECTOR_SIZE
      BY <1>1, <3>1 DEF TreeOn, D
    <3>3. IsDir(f, DirBlock(f, j))
      BY <1>3, <3>1 DEF D
    <3> QED BY <3>2, <3>3
  <2> QED BY <2>1, <2>2
<1>15. TreeOn(f)
  BY <1>11, <1>12, <1>13, <1>14 DEF TreeOn, E, G, S, C
<1> QED BY <1>3, <1>6, <1>7, <1>15, <1>2 DEF D, F

\* mkdir and touch have their effect on space.
LEMMA DirSpace ==
  ASSUME NEW c \in DiskType, NEW f \in DiskType, SpaceOn(c), NEW ino \in Inos, ino \notin Imap(c),
         Imap(f) = Imap(c) \cup {ino}, \A j \in Inos : j # ino => Inode(f, j) = Inode(c, j),
         Inode(f, ino).size_allocated = SECTOR_SIZE, NEW p \in Blocks, p \notin Marked(c),
         Inode(f, ino).pointers[0] = p, Marked(f) = Marked(c) \cup {p},
         f.super[0] = Counts(c.super[0].inode_used + 1, c.super[0].data_used + 1)
  PROVE  SpaceOn(f)
<1> DEFINE x == Inode(f, ino)
           x0 == InodeOf("dir", 0, 0, x.pointers)
           im == Imap(c) \cup {ino}
           nd == Nodes(c)
           n0 == [nd EXCEPT ![ino] = x0]
           sb == Counts(c.super[0].inode_used + 1, c.super[0].data_used)
           mk == Marked(c)
<1>1. nd \in [Inos -> InodeType] /\ Imap(c) \in SUBSET Inos /\ \A i \in Inos : nd[i] = Inode(c, i)
  BY NodesType
<1>2. x \in InodeType /\ x.pointers \in [0 .. NPOINTERS - 1 -> Blocks \cup {Wild}]
  BY InodeIn
<1> HIDE DEF x
<1>3. x0 \in InodeType /\ x0.size_allocated = 0 /\ x0.pointers = x.pointers
  BY <1>2 DEF InodeOf, InodeType
<1>4. Space(Imap(c), nd, mk, c.super[0])
  BY DEF SpaceOn
<1> HIDE DEF x0, mk, nd
<1>5. Space(im, n0, mk, sb)
  <2> DEFINE jm == Imap(c)
             tb == c.super[0]
  <2>1. Space(jm, nd, mk, tb) /\ jm \in SUBSET Inos /\ ino \notin jm
    BY <1>1, <1>4
  <2> HIDE DEF jm, tb
  <2>2. Space(jm \cup {ino}, [nd EXCEPT ![ino] = x0], mk, Counts(tb.inode_used + 1, tb.data_used))
    BY <1>1, <1>3, <2>1, SpaceNew
  <2> QED BY <2>2 DEF jm, tb
<1>6. im \in SUBSET Inos /\ n0 \in [Inos -> InodeType] /\ ino \in im /\ n0[ino] = x0
  BY <1>1, <1>3
<1>7. Units(x0) = 0
  <2>1. x0.size_allocated = 0 * SECTOR_SIZE
    BY <1>3, Consts
  <2> QED BY <2>1, UnitsOf
<1>8. sb.inode_used = c.super[0].inode_used + 1 /\ sb.data_used = c.super[0].data_used
  BY DEF Counts
<1>9. [n0 EXCEPT ![ino] = x] = Nodes(f)
  <2>1. [n0 EXCEPT ![ino] = x] = [nd EXCEPT ![ino] = x]
    BY <1>1, <1>3
  <2>2. Nodes(f) \in [Inos -> InodeType] /\ \A i \in Inos : Nodes(f)[i] = Inode(f, i)
    BY NodesType
  <2>3. \A i \in Inos : [nd EXCEPT ![ino] = x][i] = Nodes(f)[i]
    BY <1>1, <2>2 DEF x
  <2>4. [nd EXCEPT ![ino] = x] = Nodes(f)
    BY <1>1, <1>2, <2>2, <2>3
  <2> QED BY <2>1, <2>4
<1> HIDE DEF n0, im, sb
<1>10. Space(im, [n0 EXCEPT ![ino] = x], mk \cup {p}, Counts(sb.inode_used, sb.data_used + 1))
  <2>1. Units(n0[ino]) = 0 /\ Units(n0[ino]) < NPOINTERS /\ p \notin mk
    BY <1>6, <1>7, Consts DEF mk
  <2>2. x.size_allocated = n0[ino].size_allocated + SECTOR_SIZE /\ x.pointers[Units(n0[ino])] = p
    BY <1>3, <1>6, <2>1, Consts DEF x
  <2>3. \A l \in Positions : l # Units(n0[ino]) => x.pointers[l] = n0[ino].pointers[l]
    BY <1>3, <1>6
  <2> QED BY <1>2, <1>5, <1>6, <2>1, <2>2, <2>3, SpaceMore
<1> QED BY <1>8, <1>9, <1>10 DEF SpaceOn, im, mk

LEMMA FileSpace ==
  ASSUME NEW c \in DiskType, NEW f \in DiskType, SpaceOn(c), NEW ino \in Inos, ino \notin Imap(c),
         Imap(f) = Imap(c) \cup {ino}, \A j \in Inos : j # ino => Inode(f, j) = Inode(c, j),
         Inode(f, ino).size_allocated = 0, Marked(f) = Marked(c),
         f.super[0] = Counts(c.super[0].inode_used + 1, c.super[0].data_used)
  PROVE  SpaceOn(f)
<1> DEFINE x == Inode(f, ino)
           jm == Imap(c)
           nd == Nodes(c)
           mk == Marked(c)
           tb == c.super[0]
<1>1. nd \in [Inos -> InodeType] /\ jm \in SUBSET Inos /\ \A i \in Inos : nd[i] = Inode(c, i)
  BY NodesType
<1>2. x \in InodeType
  BY InodeIn
<1>3. [nd EXCEPT ![ino] = x] = Nodes(f)
  <2>1. Nodes(f) \in [Inos -> InodeType] /\ \A i \in Inos : Nodes(f)[i] = Inode(f, i)
    BY NodesType
  <2> HIDE DEF nd
  <2>2. \A i \in Inos : [nd EXCEPT ![ino] = x][i] = Nodes(f)[i]
    BY <1>1, <2>1
  <2> QED BY <1>1, <1>2, <2>1, <2>2
<1>4. Space(jm, nd, mk, tb) /\ ino \notin jm /\ x.size_allocated = 0
  BY DEF SpaceOn
<1> HIDE DEF jm, tb, nd, mk, x
<1>5. Space(jm \cup {ino}, [nd EXCEPT ![ino] = x], mk, Counts(tb.inode_used + 1, tb.data_used))
  BY <1>1, <1>2, <1>4, SpaceNew
<1> QED BY <1>3, <1>5 DEF SpaceOn, jm, tb, mk


\* The file system is sound after a call, and no file is lost.
StaysSound(m, f, ey, c, ex) ==
  /\ Sound(m, f, ey) /\ Files(c) \subseteq Files(f)
  /\ SizesRight(c, ex) => SizesRight(f, ey)

LEMMA EntryCounts ==
  ASSUME NEW m, NEW c \in DiskType, NEW r, NEW f \in DiskType, NEW s, NEW h, NEW i, NEW ino,
         Makes(m, c, r, f, s, h, i, ino), OtherInodes(h, f, ino)
  PROVE  /\ h \in DiskType /\ Marked(h) = Marked(c)
         /\ h.super[0] = Counts(c.super[0].inode_used + 1, c.super[0].data_used)
         /\ h.super[0].inode_used = c.super[0].inode_used + 1
         /\ h.super[0].data_used = c.super[0].data_used
         /\ \A j \in Inos : j # ino => Inode(f, j) = Inode(c, j)
<1>1. /\ h \in DiskType /\ h.smap = c.smap /\ h.iarray = c.iarray
      /\ h.super[0] = Counts(c.super[0].inode_used + 1, c.super[0].data_used)
  BY DEF Makes, Entered
<1>2. Marked(h) = Marked(c)
  BY <1>1 DEF Marked
<1>3. \A j : Inode(h, j) = Inode(c, j)
  BY <1>1 DEF Inode
<1> QED BY <1>1, <1>2, <1>3 DEF Counts, OtherInodes

LEMMA MkdirSound ==
  ASSUME NEW m \in MemType, NEW c \in DiskType, NEW f \in DiskType, NEW ex, Sound(m, c, ex),
         NEW r, NEW s \in Names, NEW h, NEW i, NEW ino, Makes(m, c, r, f, s, h, i, ino),
         NEW p \in Blocks, DirMade(h, f, ino, p, m.current_dir_pointer),
         r.m.current_dir_pointer = m.current_dir_pointer, is_file_exist(m, s) = 0
  PROVE  StaysSound(r.m, f, ex, c, ex)
<1>1. PICK a : InDir(m, c, a)
  BY DEF Sound
<1>2. TreeOn(c) /\ SpaceOn(c) /\ Contents(c, ex) /\ a \in Dirs(c) /\ m.current_dir_pointer = DirBlock(c, a)
  BY <1>1 DEF Sound, InDir
<1>3. /\ p \notin Marked(h) /\ Marked(f) = Marked(h) \cup {p}
      /\ f.imap = h.imap /\ f.super[0] = Counts(h.super[0].inode_used, h.super[0].data_used + 1)
      /\ Inode(f, ino).type = "dir" /\ Inode(f, ino).size_allocated = SECTOR_SIZE
      /\ Inode(f, ino).pointers[0] = p /\ OtherInodes(h, f, ino)
      /\ IsDir(f, p) /\ ReadDir(f, p) = EmptyDir(m.current_dir_pointer)
      /\ \A b \in Blocks : b # p => f.darray[b] = h.darray[b]
  BY DEF DirMade
<1>4. /\ h \in DiskType /\ Marked(h) = Marked(c)
      /\ h.super[0].inode_used = c.super[0].inode_used + 1
      /\ h.super[0].data_used = c.super[0].data_used
      /\ \A j \in Inos : j # ino => Inode(f, j) = Inode(c, j)
  BY <1>3, EntryCounts
<1>5. /\ ino \in Inos /\ ino \notin Imap(c) /\ Imap(f) = Imap(c) \cup {ino} /\ i \in Items
      /\ \A j \in Imap(c) : Inode(f, j) = Inode(c, j)
      /\ Beside(c, f, ino, DirBlock(c, a))
      /\ IsDir(f, DirBlock(c, a)) /\ ReadDir(f, DirBlock(c, a)) = r.m.current_dir
      /\ r.m.current_dir = WithItem(DirOf(c)[a], i, NewItem(s, ino)) /\ ~ Valid(DirOf(c), a, i)
      /\ DirOf(c)[a] \in DirType
  <2>1. p \notin Marked(c)
    BY <1>3, <1>4
  <2> QED BY <1>1, <1>2, <1>3, <2>1, EntryFacts
<1>6. SpaceOn(f)
  BY <1>2, <1>3, <1>4, <1>5, DirSpace
<1>7. \A k \in Items : Valid(DirOf(c), a, k) => Called(DirOf(c), a, k) # s
  BY <1>1, <1>2, NewName
<1>8. /\ TreeOn(f) /\ a \in Dirs(f) /\ DirBlock(f, a) = DirBlock(c, a)
      /\ Files(f) \subseteq Files(c) \cup {ino} /\ Files(c) \subseteq Files(f)
      /\ ino \in Files(f) <=> Inode(f, ino).type = "normal"
  <2>1. /\ DirBlock(f, ino) = p
    BY <1>3 DEF DirBlock
  <2>2. /\ ReadDir(f, p).fpointer = DirBlock(c, a)
        /\ \A k \in Items : ReadDir(f, p).map[k].valid = 0
    <3>1. DirBlock(c, a) \in Blocks
      BY <1>2, DirBlocksOwn
    <3>2. EmptyDir(DirBlock(c, a)).fpointer = DirBlock(c, a)
      BY DEF EmptyDir
    <3> QED BY <1>2, <1>3, <3>1, <3>2, EmptyDirType
  <2>3. ReadDir(f, DirBlock(c, a)) = WithItem(DirOf(c)[a], i, NewItem(s, ino))
    BY <1>5
  <2> QED BY <1>2, <1>3, <1>5, <1>7, <2>1, <2>2, <2>3, EntryTree
<1>9. \A j \in Files(f) : j \in Files(c) /\ Inode(f, j) = Inode(c, j)
  BY <1>3, <1>5, <1>8, Sorts
<1>10. Contents(f, ex) /\ (SizesRight(c, ex) => SizesRight(f, ex))
  <2>1. \A j \in Files(c), k \in Positions : k < Units(Inode(c, j)) =>
          f.darray[Inode(c, j).pointers[k]] = c.darray[Inode(c, j).pointers[k]]
    BY <1>2, <1>5, BesideKept
  <2> QED BY <1>2, <1>9, <2>1, ContentsKept
<1>11. InDir(r.m, f, a)
  BY <1>2, <1>5, <1>8 DEF InDir
<1> QED BY <1>6, <1>8, <1>10, <1>11 DEF StaysSound, Sound

LEMMA TouchSound ==
  ASSUME NEW m \in MemType, NEW c \in DiskType, NEW f \in DiskType, NEW ex, Sound(m, c, ex),
         NEW r, NEW s \in Names, NEW h, NEW i, NEW ino, Makes(m, c, r, f, s, h, i, ino),
         FileMade(h, f, ino), NEW ey, ey[ino] = BlankFile, \A j \in Imap(c) : ey[j] = ex[j],
         r.m.current_dir_pointer = m.current_dir_pointer, is_file_exist(m, s) = 0
  PROVE  StaysSound(r.m, f, ey, c, ex)
<1>1. PICK a : InDir(m, c, a)
  BY DEF Sound
<1>2. TreeOn(c) /\ SpaceOn(c) /\ Contents(c, ex) /\ a \in Dirs(c) /\ m.current_dir_pointer = DirBlock(c, a)
  BY <1>1 DEF Sound, InDir
<1>3. /\ f.smap = h.smap /\ f.imap = h.imap /\ f.super = h.super
      /\ Inode(f, ino).type = "normal" /\ Inode(f, ino).size = 0 /\ Inode(f, ino).size_allocated = 0
      /\ OtherInodes(h, f, ino) /\ f.darray = h.darray
  BY DEF FileMade
<1>4. /\ h \in DiskType /\ Marked(h) = Marked(c)
      /\ h.super[0] = Counts(c.super[0].inode_used + 1, c.super[0].data_used)
      /\ \A j \in Inos : j # ino => Inode(f, j) = Inode(c, j)
  BY <1>3, EntryCounts
<1>5. /\ ino \in Inos /\ ino \notin Imap(c) /\ Imap(f) = Imap(c) \cup {ino} /\ i \in Items
      /\ \A j \in Imap(c) : Inode(f, j) = Inode(c, j)
      /\ Beside(c, f, ino, DirBlock(c, a))
      /\ IsDir(f, DirBlock(c, a)) /\ ReadDir(f, DirBlock(c, a)) = r.m.current_dir
      /\ r.m.current_dir = WithItem(DirOf(c)[a], i, NewItem(s, ino)) /\ ~ Valid(DirOf(c), a, i)
      /\ DirOf(c)[a] \in DirType
  <2>1. Wild \notin Marked(c)
    BY Consts DEF Marked
  <2>2. \A b \in Blocks : b # Wild => f.darray[b] = h.darray[b]
    BY <1>3
  <2> QED BY <1>1, <1>2, <1>3, <2>1, <2>2, EntryFacts
<1>6. SpaceOn(f)
  <2>1. Marked(f) = Marked(c)
    BY <1>3, <1>4 DEF Marked
  <2> QED BY <1>2, <1>3, <1>4, <1>5, <2>1, FileSpace
<1>7. \A k \in Items : Valid(DirOf(c), a, k) => Called(DirOf(c), a, k) # s
  BY <1>1, <1>2, NewName
<1>8. /\ TreeOn(f) /\ a \in Dirs(f) /\ DirBlock(f, a) = DirBlock(c, a)
      /\ Files(f) \subseteq Files(c) \cup {ino} /\ Files(c) \subseteq Files(f)
  <2>1. ReadDir(f, DirBlock(c, a)) = WithItem(DirOf(c)[a], i, NewItem(s, ino))
    BY <1>5
  <2> QED BY <1>2, <1>3, <1>5, <1>7, <2>1, EntryTree
<1>9. \A j \in Files(f) : \/ j \in Files(c) /\ Inode(f, j) = Inode(c, j) /\ ey[j] = ex[j]
                          \/ ey[j] = BlankFile /\ Inode(f, j).size = 0
  <2>1. Files(c) \subseteq Imap(c)
    BY Sorts
  <2> QED BY <1>3, <1>5, <1>8, <2>1
<1>10. Contents(f, ey) /\ (SizesRight(c, ex) => SizesRight(f, ey))
  <2>1. \A j \in Files(c), k \in Positions : k < Units(Inode(c, j)) =>
          f.darray[Inode(c, j).pointers[k]] = c.darray[Inode(c, j).pointers[k]]
    BY <1>2, <1>5, BesideKept
  <2> QED BY <1>2, <1>9, <2>1, ContentsKept
<1>11. InDir(r.m, f, a)
  BY <1>2, <1>5, <1>8 DEF InDir
<1> QED BY <1>6, <1>8, <1>10, <1>11 DEF StaysSound, Sound


LEMMA RmdirSound ==
  ASSUME NEW m \in MemType, NEW c \in DiskType, NEW f \in DiskType, NEW ex, Sound(m, c, ex),
         NEW r, NEW s, NEW i, NEW ino, NEW p, DirGone(m, c, r, f, s, i, ino, p),
         r.m.current_dir_pointer = m.current_dir_pointer
  PROVE  StaysSound(r.m, f, ex, c, ex)
<1>1. PICK a : InDir(m, c, a)
  BY DEF Sound
<1>2. /\ TreeOn(c) /\ SpaceOn(c) /\ Contents(c, ex) /\ a \in Dirs(c)
      /\ m.current_dir_pointer = DirBlock(c, a) /\ m.current_dir = ReadDir(c, DirBlock(c, a))
  BY <1>1 DEF Sound, InDir
<1> DEFINE P == DirBlock(c, a)
           D == Dirs(c)
           F == Files(c)
           R == DirOf(c)
           B == BlkOf(c)
           S == DirOf(f)
           item == [valid |-> 0, name |-> m.current_dir.map[i].name, ino |-> ino]
<1>3. /\ i \in Items /\ m.current_dir.map[i].valid = 1 /\ ino = m.current_dir.map[i].ino
      /\ Inode(c, ino).type = "dir" /\ p = Inode(c, ino).pointers[0]
      /\ ~ NotEmpty(ReadDir(c, p)) /\ r.m.current_dir = WithItem(m.current_dir, i, item)
      /\ f.imap[0] = c.imap[0] \ {ino} /\ Marked(f) = Marked(c) \ {p} /\ f.iarray = c.iarray
      /\ f.super[0] = Counts(c.super[0].inode_used - 1, c.super[0].data_used - 1)
      /\ IsDir(f, P) /\ ReadDir(f, P) = r.m.current_dir
      /\ \A q \in Blocks : q # P => f.darray[q] = c.darray[q]
  BY <1>2 DEF DirGone
<1>4. /\ D \subseteq Imap(c) /\ F \subseteq Imap(c) /\ Imap(c) \subseteq Inos
      /\ \A j \in Imap(c) : j \in D <=> Inode(c, j).type = "dir"
      /\ \A j \in D : j \notin F
      /\ \A j \in Inos : R[j] = ReadDir(c, DirBlock(c, j)) /\ B[j] = DirBlock(c, j)
      /\ \A j \in Inos : S[j] = ReadDir(f, DirBlock(f, j))
  BY Sorts
<1>5. Tree(D, F, R, B) /\ Imap(c) = D \cup F
  BY <1>2, TreeIsOK DEF TreeOn
<1>6. \A j : Inode(f, j) = Inode(c, j) /\ DirBlock(f, j) = DirBlock(c, j)
  BY <1>3 DEF Inode, DirBlock
<1>7. R[a] = m.current_dir /\ S[a] = r.m.current_dir
  BY <1>2, <1>3, <1>4, <1>6
<1>8. R[a] \in DirType /\ item \in ItemType /\ item.valid = 0
  <2>1. m.current_dir \in DirType
    BY DEF MemType
  <2>2. m.current_dir.map[i] \in ItemType
    BY <1>3, <2>1, ItemIn
  <2> QED BY <1>3, <1>7, <2>1, <2>2, SMTT(30) DEF ItemType
<1> HIDE DEF R, B, S, D, F, item
<1>9. Valid(R, a, i) /\ ino = To(R, a, i)
  BY <1>3, <1>7 DEF Valid, To
<1>10. ino \in D /\ ino \notin F /\ ino # Root
  <2>1. ino \in D \cup F /\ ino # Root
    BY <1>2, <1>3, <1>5, <1>9 DEF Tree, TargetsIn, D
  <2> QED BY <1>3, <1>4, <1>5, <2>1
<1>11. \A k \in Items : ~ Valid(R, ino, k)
  <2>1. R[ino] = ReadDir(c, p)
    BY <1>3, <1>4, <1>10 DEF DirBlock
  <2> QED BY <1>3, <2>1 DEF Valid, NotEmpty
<1>12. /\ S[a].fpointer = R[a].fpointer /\ S[a].map[i] = item
       /\ \A k \in Items : k # i => S[a].map[k] = R[a].map[k]
  <2> DEFINE dir == R[a]
  <2>1. S[a] = WithItem(dir, i, item) /\ dir \in DirType
    BY <1>3, <1>7, <1>8
  <2> HIDE DEF dir
  <2>2. /\ WithItem(dir, i, item).fpointer = dir.fpointer /\ WithItem(dir, i, item).map[i] = item
        /\ \A k \in Items : k # i => WithItem(dir, i, item).map[k] = dir.map[k]
    BY <1>3, <1>8, <2>1, ItemIn, SMTT(30)
  <2> QED BY <2>1, <2>2 DEF dir
<1>13. ~ Valid(S, a, i)
  BY <1>8, <1>12 DEF Valid
<1>14. Beside(c, f, ino, P)
  <2>1. Marked(c) \subseteq Blocks
    BY DEF Marked
  <2> QED BY <1>3, <1>6, <2>1 DEF Beside
<1>15. \A j \in D : j # a => S[j] = R[j]
  <2>1. Beside(c, f, -1, P)
    BY <1>6, <1>14 DEF Beside
  <2>2. \A j \in D : j # -1 /\ j # a => S[j] = R[j]
    BY <1>2, <2>1, BesideKept DEF D, S, R
  <2>3. -1 \notin Inos
    BY Consts
  <2> QED BY <1>4, <2>2, <2>3
<1>16. ino # a /\ Tree(D \ {ino}, F, S, B)
  <2>1. a \in D
    BY <1>2 DEF D
  <2> QED BY <1>3, <1>5, <1>9, <1>10, <1>11, <1>12, <1>13, <1>15, <2>1, TreeGone
<1>17. Imap(f) = Imap(c) \ {ino}
  BY <1>3 DEF Imap
<1>18. Dirs(f) = D \ {ino} /\ Files(f) = F
  <2>1. Dirs(f) = D \ {ino}
    BY <1>6, <1>17 DEF Dirs, D
  <2>2. Files(f) = F \ {ino}
    BY <1>6, <1>17 DEF Files, F
  <2> QED BY <1>10, <2>1, <2>2
<1>19. BlkOf(f) = B
  BY <1>6 DEF BlkOf, B
<1>20. ASSUME NEW j \in Dirs(f)
       PROVE  IsDir(f, DirBlock(f, j)) /\ Inode(f, j).size_allocated = SECTOR_SIZE
  <2>1. j \in Dirs(c) /\ j # ino
    BY <1>18 DEF D
  <2>2. Inode(f, j).size_allocated = SECTOR_SIZE
    BY <1>2, <1>6, <2>1 DEF TreeOn
  <2>3. CASE j = a
    BY <1>3, <1>6, <2>2, <2>3
  <2>4. CASE j # a
    BY <1>2, <1>14, <2>1, <2>2, <2>4, BesideKept
  <2> QED BY <2>3, <2>4
<1>21. TreeOn(f)
  <2>1. \A j \in Imap(f) : Inode(f, j).type \in {"dir", "normal"}
    BY <1>2, <1>6, <1>17 DEF TreeOn
  <2>2. DirBlock(f, Root) = Root
    BY <1>2, <1>6 DEF TreeOn
  <2> QED BY <1>16, <1>18, <1>19, <1>20, <2>1, <2>2 DEF TreeOn, S
<1>22. SpaceOn(f)
  <2> DEFINE jm == Imap(c)
             nd == Nodes(c)
             mk == Marked(c)
             tb == c.super[0]
  <2>1. nd \in [Inos -> InodeType] /\ jm \in SUBSET Inos /\ \A j \in Inos : nd[j] = Inode(c, j)
    BY NodesType
  <2>2. Space(jm, nd, mk, tb)
    BY <1>2 DEF SpaceOn
  <2>3. ino \in jm /\ ino \in Inos
    BY <1>4, <1>10
  <2>4. Units(nd[ino]) = 1 /\ nd[ino].pointers[0] = p
    <3>1. nd[ino] = Inode(c, ino)
      BY <2>1, <2>3
    <3>2. Units(Inode(c, ino)) = 1
      BY <1>2, <1>10, DirBlocksOwn DEF D
    <3> QED BY <1>3, <3>1, <3>2
  <2>5. Nodes(f) = nd
    BY <1>6 DEF Nodes
  <2> HIDE DEF jm, nd, mk, tb
  <2>6. Space(jm \ {ino}, nd, mk \ {nd[ino].pointers[0]}, Counts(tb.inode_used - 1, tb.data_used - 1))
    BY <2>1, <2>2, <2>3, <2>4, SpaceLess
  <2> QED BY <1>3, <1>17, <2>4, <2>5, <2>6 DEF SpaceOn, jm, mk, tb
<1>23. Contents(f, ex) /\ (SizesRight(c, ex) => SizesRight(f, ex))
  <2>1. \A j \in Files(c), k \in Positions : k < Units(Inode(c, j)) =>
          f.darray[Inode(c, j).pointers[k]] = c.darray[Inode(c, j).pointers[k]]
    BY <1>2, <1>14, BesideKept
  <2>2. \A j \in Files(f) : j \in Files(c) /\ Inode(f, j) = Inode(c, j)
    BY <1>6, <1>18 DEF F
  <2> QED BY <1>2, <2>1, <2>2, ContentsKept
<1>24. InDir(r.m, f, a)
  <2>1. a \in Dirs(f)
    BY <1>2, <1>16, <1>18 DEF D
  <2> QED BY <1>2, <1>3, <1>6, <2>1 DEF InDir
<1> QED BY <1>18, <1>21, <1>22, <1>23, <1>24 DEF StaysSound, Sound, F

\* The calls cd enter a directory of the tree.
LEMMA GoesSound ==
  ASSUME NEW m, NEW c \in DiskType, NEW ex, Sound(m, c, ex), NEW r, NEW p, Goes(m, c, r, p),
         p \in DirBlocks(c) \/ r.m = m
  PROVE  Sound(r.m, c, ex)
<1>1. CASE r.m = m
  BY <1>1
<1>2. CASE p \in DirBlocks(c) /\ r.m.current_dir = ReadDir(c, p) /\ r.m.current_dir_pointer = p
  <2>1. PICK i \in Dirs(c) : p = DirBlock(c, i)
    BY <1>2 DEF DirBlocks
  <2>2. InDir(r.m, c, i)
    BY <1>2, <2>1 DEF InDir
  <2> QED BY <2>2 DEF Sound
<1> QED BY <1>1, <1>2 DEF Goes

\* What a name leads to.
LEMMA LookupIn ==
  ASSUME NEW c \in DiskType, TreeOn(c), NEW i \in Dirs(c), NEW s, NEW none
  PROVE  LET j == Lookup(ReadDir(c, DirBlock(c, i)), s, none) IN j = none \/ j \in Imap(c)
<1> DEFINE dir == ReadDir(c, DirBlock(c, i))
           k == Min(Matching(dir, s))
<1>1. CASE Matching(dir, s) = {}
  BY <1>1 DEF Lookup
<1>2. CASE Matching(dir, s) # {}
  <2>1. k \in Items /\ dir.map[k].valid = 1
    BY <1>2, MatchingIn
  <2>2. DirOf(c)[i] = dir /\ Dirs(c) \subseteq Imap(c) /\ Files(c) \subseteq Imap(c)
    BY Sorts
  <2>3. Lookup(dir, s, none) = dir.map[k].ino
    BY <1>2 DEF Lookup
  <2> HIDE DEF dir, k
  <2>4. Valid(DirOf(c), i, k)
    BY <2>1, <2>2 DEF Valid
  <2>5. To(DirOf(c), i, k) \in Dirs(c) \cup Files(c)
    BY <2>1, <2>4 DEF TreeOn, Tree, TargetsIn
  <2>6. dir.map[k].ino \in Imap(c)
    BY <2>2, <2>5 DEF To
  <2> QED BY <2>3, <2>6 DEF dir
<1> QED BY <1>1, <1>2

\* What a path leads to.
LEMMA PathIn ==
  ASSUME NEW c \in DiskType, TreeOn(c), NEW T, NEW path \in Seq(T)
  PROVE  parse_path(c, path) \in {-1, Astray} \cup Imap(c)
<1>1. PICK at : /\ at[0] = Root /\ parse_path(c, path) = at[Len(path)]
                /\ \A n \in 1 .. Len(path) : at[n] = Follow(c, at[n - 1], path[n])
  BY PathTurns
<1> DEFINE N == Len(path)
           V == {-1, Astray} \cup Imap(c)
           K == {n \in 0 .. N : at[n] \in V}
<1>2. N \in Nat
  OBVIOUS
<1>3. 0 \in K
  <2>1. Root \in Imap(c)
    BY Sorts DEF TreeOn, Tree
  <2> QED BY <1>1, <1>2, <2>1
<1>4. ASSUME NEW n \in 1 .. N, n - 1 \in K PROVE n \in K
  <2> DEFINE ino == at[n - 1]
             s == path[n]
             p == Inode(c, ino).pointers[0]
  <2>1. ino \in V
    BY <1>4
  <2>2. at[n] = Follow(c, ino, s)
    BY <1>1
  <2> HIDE DEF ino, s
  <2>3. Follow(c, ino, s) \in V
    <3>1. CASE ino = Astray \/ ino = -1 \/ Inode(c, ino).type # "dir" \/ ~ IsDir(c, p)
      BY <3>1 DEF Follow
    <3>2. CASE ino # Astray /\ ino # -1 /\ Inode(c, ino).type = "dir" /\ IsDir(c, p)
      <4>1. ino \in Dirs(c)
        BY <2>1, <3>2 DEF Dirs
      <4>2. Follow(c, ino, s) = Lookup(ReadDir(c, p), s, -1)
        BY <3>2 DEF Follow
      <4>3. Lookup(ReadDir(c, p), s, -1) = -1 \/ Lookup(ReadDir(c, p), s, -1) \in Imap(c)
        BY <4>1, LookupIn DEF DirBlock
      <4> QED BY <4>2, <4>3
    <3> QED BY <3>1, <3>2
  <2>4. n \in 0 .. N
    BY <1>2
  <2> QED BY <2>2, <2>3, <2>4
<1> HIDE DEF K, N
<1>5. \A n \in 0 .. N : n \in K
  BY <1>2, <1>3, <1>4, Turns
<1>6. N \in K
  BY <1>2, <1>5
<1> QED BY <1>1, <1>6 DEF K, N


LEMMA CdSound ==
  ASSUME NEW m \in MemType, NEW c \in DiskType, NEW ex, Sound(m, c, ex), NEW ino,
         ino \in {-1, Astray} \cup Imap(c)
  PROVE  Sound(cd(m, c, ino).m, c, ex)
<1> DEFINE r == cd(m, c, ino)
           p == Inode(c, ino).pointers[0]
<1>1. \/ Goes(m, c, r, Root) /\ r.m = m
      \/ ino # Astray /\ ino # -1 /\ Inode(c, ino).type = "dir" /\ Goes(m, c, r, p)
  BY CdDone
<1> HIDE DEF r
<1>2. CASE r.m = m
  BY <1>2 DEF r
<1>3. CASE ino # Astray /\ ino # -1 /\ Inode(c, ino).type = "dir" /\ Goes(m, c, r, p)
  <2>1. p \in DirBlocks(c)
    BY <1>3 DEF DirBlocks, DirBlock, Dirs
  <2>2. Sound(r.m, c, ex)
    BY <1>3, <2>1, GoesSound
  <2> QED BY <2>2 DEF r
<1> QED BY <1>1, <1>2, <1>3

LEMMA FatherSound ==
  ASSUME NEW m \in MemType, NEW c \in DiskType, NEW ex, Sound(m, c, ex)
  PROVE  Sound(cd_father(m, c).m, c, ex)
<1> DEFINE r == cd_father(m, c)
           p == m.current_dir.fpointer
<1>1. \/ Goes(m, c, r, Root) /\ r.m = m
      \/ m.current_dir_pointer # Root /\ Goes(m, c, r, p)
  BY FatherDone
<1> HIDE DEF r
<1>2. CASE r.m = m
  BY <1>2 DEF r
<1>3. CASE m.current_dir_pointer # Root /\ Goes(m, c, r, p)
  <2>1. PICK a : InDir(m, c, a)
    BY DEF Sound
  <2>2. /\ a \in Dirs(c) /\ m.current_dir_pointer = DirBlock(c, a) /\ a \in Inos
        /\ DirOf(c)[a] = m.current_dir /\ TreeOn(c)
    BY <2>1, Sorts DEF InDir, Sound
  <2>3. a # Root
    BY <1>3, <2>2 DEF TreeOn
  <2>4. Tree(Dirs(c), Files(c), DirOf(c), BlkOf(c))
    BY <2>2 DEF TreeOn
  <2>5. PICK i \in Dirs(c), k \in Items : Valid(DirOf(c), i, k) /\ To(DirOf(c), i, k) = a
    BY <2>2, <2>3, <2>4 DEF Tree, AllTargets
  <2>6. p = BlkOf(c)[i]
    BY <2>2, <2>4, <2>5 DEF Tree, Fathers
  <2>7. p \in DirBlocks(c)
    BY <2>6, Sorts DEF DirBlocks
  <2>8. Sound(r.m, c, ex)
    BY <1>3, <2>7, GoesSound
  <2> QED BY <2>8 DEF r
<1> QED BY <1>1, <1>2, <1>3

LEMMA MountSound ==
  ASSUME NEW d \in DiskType, NEW ex, TreeOn(d), SpaceOn(d), Contents(d, ex)
  PROVE  IsDir(d, Root) /\ Sound(mount(d), d, ex)
<1>1. Root \in Dirs(d) /\ DirBlock(d, Root) = Root
  BY DEF TreeOn, Tree
<1>2. IsDir(d, Root)
  BY <1>1 DEF TreeOn
<1>3. InDir(mount(d), d, Root)
  BY <1>1, <1>2, MountDone DEF InDir
<1> QED BY <1>2, <1>3 DEF Sound

LEMMA FreshSound ==
  ASSUME NEW f \in DiskType, Fresh(f)
  PROVE  TreeOn(f) /\ SpaceOn(f) /\ Files(f) = {}
<1>1. /\ f.super[0] = Counts(1, 1) /\ Imap(f) = {Root} /\ Marked(f) = {Root}
      /\ Inode(f, Root).type = "dir" /\ Inode(f, Root).size_allocated = SECTOR_SIZE
      /\ DirBlock(f, Root) = Root /\ IsDir(f, Root) /\ ReadDir(f, Root) = EmptyDir(Root)
  BY DEF Fresh, Imap, DirBlock
<1>2. Dirs(f) = {Root} /\ Files(f) = {}
  BY <1>1 DEF Dirs, Files
<1>3. TreeOn(f)
  <2>1. DirOf(f)[Root] = EmptyDir(Root)
    BY <1>1, Consts DEF DirOf
  <2>2. \A k \in Items : ~ Valid(DirOf(f), Root, k)
    BY <2>1, EmptyDirType, Consts DEF Valid
  <2>3. Tree({Root}, {}, DirOf(f), BlkOf(f))
    BY <2>2, TreeNew
  <2> QED BY <1>1, <1>2, <2>3 DEF TreeOn
<1>4. SpaceOn(f)
  <2> DEFINE im == {Root}
             nd == Nodes(f)
             mk == {Root}
  <2>1. nd[Root] = Inode(f, Root) /\ Root \in Inos
    BY NodesType, Consts
  <2>2. Units(nd[Root]) = 1 /\ nd[Root].size_allocated = 1 * SECTOR_SIZE
    <3>1. nd[Root].size_allocated = 1 * SECTOR_SIZE
      BY <1>1, <2>1, Consts
    <3> QED BY <3>1, UnitsOf
  <2>3. nd[Root].pointers[0] = Root
    BY <1>1, <2>1 DEF DirBlock
  <2> HIDE DEF nd
  <2>4. 0 \in Positions /\ 1 <= NPOINTERS /\ Positions \subseteq Nat
    BY Consts DEF Positions
  <2>5. \A i \in Inos, k \in Positions : Holds(im, nd, i, k) <=> i = Root /\ k = 0
    BY <2>2, <2>4 DEF Holds
  <2>6. HeldBy(im, nd) = {<<Root, 0>>}
    <3>1. ASSUME NEW b PROVE b \in HeldBy(im, nd) <=> b = <<Root, 0>>
      <4>1. ASSUME b \in HeldBy(im, nd) PROVE b = <<Root, 0>>
        <5>1. b \in Inos \X Positions /\ b[1] = Root /\ b[2] < Units(nd[b[1]])
          BY <4>1 DEF HeldBy
        <5>2. b = <<b[1], b[2]>> /\ b[2] \in Positions /\ b[2] < 1
          BY <2>2, <5>1
        <5>3. b[2] = 0
          BY <2>4, <5>2
        <5> QED BY <5>1, <5>2, <5>3
      <4>2. <<Root, 0>> \in HeldBy(im, nd)
        BY <2>1, <2>2, <2>4 DEF HeldBy
      <4> QED BY <4>1, <4>2
    <3> QED BY <3>1
  <2>7. Cardinality(im) = 1 /\ Cardinality(HeldBy(im, nd)) = 1
    BY <2>6, FS_Singleton
  <2>8. Space(im, nd, mk, Counts(1, 1))
    BY <2>1, <2>2, <2>3, <2>4, <2>5, <2>7 DEF Space
  <2> QED BY <1>1, <2>8 DEF SpaceOn, nd
<1> QED BY <1>2, <1>3, <1>4


\* Only blocks of the inode ino are written.
Confined(c, f, ino) ==
  \A b \in Blocks :
    (\A k \in Positions : k < Units(Inode(f, ino)) => Inode(f, ino).pointers[k] # b) =>
      f.darray[b] = c.darray[b]

\* Then the tree and the other files stay as they are.
LEMMA ConfinedTree ==
  ASSUME NEW c \in DiskType, NEW f \in DiskType, TreeOn(c), SpaceOn(f), Imap(f) = Imap(c),
         NEW ino \in Files(c), Inode(f, ino).type = "normal",
         \A j \in Imap(c) : j # ino => Inode(f, j) = Inode(c, j), Confined(c, f, ino)
  PROVE  /\ TreeOn(f) /\ Dirs(f) = Dirs(c) /\ Files(f) = Files(c)
         /\ \A j \in Dirs(c) : /\ DirBlock(f, j) = DirBlock(c, j)
                               /\ ReadDir(f, DirBlock(f, j)) = ReadDir(c, DirBlock(c, j))
         /\ \A j \in Imap(c), k \in Positions : j # ino /\ k < Units(Inode(c, j)) =>
              f.darray[Inode(c, j).pointers[k]] = c.darray[Inode(c, j).pointers[k]]
<1>1. /\ Dirs(c) \subseteq Imap(c) /\ Files(c) \subseteq Imap(c) /\ Imap(c) \subseteq Inos
      /\ \A i \in Dirs(c) : i # ino
      /\ \A i \in Inos : DirOf(c)[i] = ReadDir(c, DirBlock(c, i)) /\ BlkOf(c)[i] = DirBlock(c, i)
      /\ \A i \in Inos : DirOf(f)[i] = ReadDir(f, DirBlock(f, i)) /\ BlkOf(f)[i] = DirBlock(f, i)
  BY Sorts
<1>2. Inode(c, ino).type = "normal" /\ ino \in Imap(c)
  BY DEF Files
<1>3. Dirs(f) = Dirs(c) /\ Files(f) = Files(c)
  BY <1>2 DEF Dirs, Files
<1>4. ASSUME NEW j \in Imap(c), NEW k \in Positions, j # ino, k < Units(Inode(c, j))
      PROVE  f.darray[Inode(c, j).pointers[k]] = c.darray[Inode(c, j).pointers[k]]
  <2> DEFINE b == Inode(f, j).pointers[k]
  <2>1. Inode(f, j) = Inode(c, j)
    BY <1>4
  <2>2. b \in Blocks
    BY <1>4, <2>1, OwnBlocks
  <2>3. \A l \in Positions : l < Units(Inode(f, ino)) => Inode(f, ino).pointers[l] # b
    BY <1>2, <1>4, <2>1, OwnBlocks
  <2> QED BY <2>1, <2>2, <2>3 DEF Confined
<1>5. ASSUME NEW j \in Dirs(c)
      PROVE  /\ Inode(f, j) = Inode(c, j) /\ DirBlock(f, j) = DirBlock(c, j)
             /\ f.darray[DirBlock(c, j)] = c.darray[DirBlock(c, j)]
             /\ ReadDir(f, DirBlock(f, j)) = ReadDir(c, DirBlock(c, j))
             /\ IsDir(f, DirBlock(f, j)) /\ Inode(f, j).size_allocated = SECTOR_SIZE
  <2>1. Inode(f, j) = Inode(c, j) /\ DirBlock(f, j) = DirBlock(c, j)
    BY <1>1 DEF DirBlock
  <2>2. Inode(c, j).size_allocated = SECTOR_SIZE /\ IsDir(c, DirBlock(c, j))
    BY DEF TreeOn
  <2>3. Units(Inode(c, j)) = 1
    <3>1. Inode(c, j).size_allocated = 1 * SECTOR_SIZE
      BY <2>2, Consts
    <3> QED BY <3>1, UnitsOf
  <2>4. f.darray[DirBlock(c, j)] = c.darray[DirBlock(c, j)]
    <3>1. 0 \in Positions /\ 0 < Units(Inode(c, j))
      BY <2>3, Consts DEF Positions
    <3> QED BY <1>1, <1>4, <3>1 DEF DirBlock
  <2>5. ReadDir(f, DirBlock(c, j)) = ReadDir(c, DirBlock(c, j)) /\ IsDir(f, DirBlock(c, j))
    BY <2>2, <2>4, SameEntries
  <2> QED BY <2>1, <2>2, <2>4, <2>5
<1>6. Tree(Dirs(f), Files(f), DirOf(f), BlkOf(f))
  <2> DEFINE D == Dirs(c)
             F == Files(c)
             R == DirOf(c)
             B == BlkOf(c)
             S == DirOf(f)
             C == BlkOf(f)
  <2>1. Tree(D, F, R, B)
    BY DEF TreeOn
  <2>2. \A i \in D : S[i] = R[i] /\ C[i] = B[i]
    BY <1>1, <1>5
  <2> HIDE DEF D, F, R, B, S, C
  <2>3. Tree(D, F, S, C)
    BY <2>1, <2>2, TreeSame
  <2> QED BY <1>3, <2>3 DEF D, F, S, C
<1>7. \A i \in Imap(f) : Inode(f, i).type \in {"dir", "normal"}
  BY DEF TreeOn
<1>8. DirBlock(f, Root) = Root
  <2>1. Root \in Dirs(c) /\ DirBlock(c, Root) = Root
    BY DEF TreeOn, Tree
  <2> QED BY <1>5, <2>1
<1>9. TreeOn(f)
  BY <1>3, <1>5, <1>6, <1>7, <1>8 DEF TreeOn
<1> QED BY <1>3, <1>4, <1>5, <1>9

\* What fwrite leaves in the inode and on the disk, for a file of a sound file
\* system.
WroteFacts(c, f, ino, g, y) ==
  /\ f \in DiskType /\ SpaceOn(f) /\ Imap(f) = Imap(c) /\ Inode(f, ino) = y
  /\ \A j \in Imap(c) : j # ino => Inode(f, j) = Inode(c, j)
  /\ y.type = Inode(c, ino).type /\ y.pointers = g.inode.pointers
  /\ Units(y) = Units(g.inode) /\ Units(y) >= Units(Inode(c, ino))
  /\ y.size_allocated = g.inode.size_allocated
  /\ y.size_allocated >= Inode(c, ino).size_allocated
  /\ \A l \in Positions : l < Units(Inode(c, ino)) => y.pointers[l] = Inode(c, ino).pointers[l]

LEMMA WroteSpace ==
  ASSUME NEW m, NEW c \in DiskType, NEW f, NEW ino \in Imap(c), NEW g, NEW y,
         SpaceOn(c), Grown(c, m, ino, g), Wrote(c, f, ino, g, y)
  PROVE  WroteFacts(c, f, ino, g, y)
<1> DEFINE e == WrittenAll(c, g.w)
           x == Inode(c, ino)
           z == g.inode
<1>1. /\ f \in DiskType /\ f.super = e.super /\ f.smap = e.smap
      /\ f.imap = c.imap /\ Inode(f, ino) = y /\ OtherInodes(c, f, ino)
      /\ y.type = z.type /\ y.size_allocated = z.size_allocated /\ y.pointers = z.pointers
  BY DEF Wrote
<1>2. /\ g \in GrowType /\ z.type = x.type /\ z.size_allocated >= x.size_allocated
      /\ Units(z) >= Units(x) /\ \A l \in Positions : l < Units(x) => z.pointers[l] = x.pointers[l]
      /\ Space(Imap(c), [Nodes(c) EXCEPT ![ino] = z], Marked(e), e.super[0])
  BY DEF Grown
<1>3. Imap(c) \subseteq Inos
  BY Sorts
<1>4. \A j \in Imap(c) : j # ino => Inode(f, j) = Inode(c, j)
  BY <1>1, <1>3 DEF OtherInodes
<1>5. Imap(f) = Imap(c) /\ Marked(f) = Marked(e) /\ Units(y) = Units(z)
  BY <1>1 DEF Imap, Marked, Units
<1>6. SpaceOn(f)
  <2> DEFINE im == Imap(c)
             nd == [Nodes(c) EXCEPT ![ino] = z]
             nf == Nodes(f)
             mk == Marked(e)
             sb == e.super[0]
  <2>1. Nodes(c) \in [Inos -> InodeType] /\ \A i \in Inos : Nodes(c)[i] = Inode(c, i)
    BY NodesType
  <2>2. \A i \in Inos : nf[i] = Inode(f, i)
    BY <1>1, NodesType
  <2>3. \A i \in im : nf[i].size_allocated = nd[i].size_allocated /\ nf[i].pointers = nd[i].pointers
    <3> TAKE i \in im
    <3>1. i \in Inos /\ nf[i] = Inode(f, i)
      BY <1>3, <2>2
    <3>2. CASE i = ino
      <4>1. nd[i] = z /\ nf[i] = y
        BY <1>1, <2>1, <3>1, <3>2
      <4> QED BY <1>1, <4>1
    <3>3. CASE i # ino
      <4>1. nd[i] = Inode(c, i) /\ nf[i] = Inode(c, i)
        BY <1>4, <2>1, <3>1, <3>3
      <4> QED BY <4>1
    <3> QED BY <3>2, <3>3
  <2>4. Space(im, nd, mk, sb) /\ im \in SUBSET Inos
    BY <1>2, <1>3
  <2> HIDE DEF im, nd, nf, mk, sb
  <2>5. Space(im, nf, mk, sb)
    BY <2>3, <2>4, SpaceSame
  <2> QED BY <1>1, <1>5, <2>5 DEF SpaceOn, im, nf, mk, sb
<1> QED BY <1>1, <1>2, <1>4, <1>5, <1>6 DEF WroteFacts

LEMMA WroteOthers ==
  ASSUME NEW m \in MemType, NEW c \in DiskType, NEW ex, Sound(m, c, ex), NEW ino \in Files(c),
         NEW f, NEW g, NEW y, NEW n, Grown(c, m, ino, g), Wrote(c, f, ino, g, y),
         Confined(c, f, ino), SameDir(m, n)
  PROVE  /\ f \in DiskType /\ TreeOn(f) /\ SpaceOn(f) /\ Files(f) = Files(c)
         /\ \E i : InDir(n, f, i)
         /\ \A i \in Files(c), o \in Offsets : i # ino /\ ex[i][o] # Junk => Stands(f, i, o, ex[i][o])
         /\ \A i \in Files(c) : i # ino => Inode(f, i) = Inode(c, i)
<1>1. TreeOn(c) /\ SpaceOn(c) /\ Contents(c, ex) /\ \E i : InDir(m, c, i)
  BY DEF Sound
<1>2. Files(c) \subseteq Imap(c) /\ ino \in Imap(c) /\ Dirs(c) \subseteq Imap(c)
      /\ Inode(c, ino).type = "normal"
  BY Sorts DEF Files
<1>3. /\ f \in DiskType /\ SpaceOn(f) /\ Imap(f) = Imap(c) /\ Inode(f, ino) = y
      /\ \A j \in Imap(c) : j # ino => Inode(f, j) = Inode(c, j)
      /\ y.type = Inode(c, ino).type
  <2>1. WroteFacts(c, f, ino, g, y)
    BY <1>1, <1>2, WroteSpace
  <2> QED BY <2>1 DEF WroteFacts
<1>4. /\ TreeOn(f) /\ Dirs(f) = Dirs(c) /\ Files(f) = Files(c)
      /\ \A j \in Dirs(c) : /\ DirBlock(f, j) = DirBlock(c, j)
                            /\ ReadDir(f, DirBlock(f, j)) = ReadDir(c, DirBlock(c, j))
      /\ \A j \in Imap(c), k \in Positions : j # ino /\ k < Units(Inode(c, j)) =>
           f.darray[Inode(c, j).pointers[k]] = c.darray[Inode(c, j).pointers[k]]
  BY <1>1, <1>2, <1>3, ConfinedTree
<1>5. \E i : InDir(n, f, i)
  BY <1>1, <1>4 DEF InDir, SameDir
<1>6. ASSUME NEW i \in Files(c), NEW o \in Offsets, i # ino, ex[i][o] # Junk
      PROVE  Stands(f, i, o, ex[i][o])
  <2>1. Stands(c, i, o, ex[i][o])
    BY <1>1, <1>6 DEF Contents
  <2>2. o \in Nat /\ i \in Imap(c)
    BY <1>2, Consts DEF Offsets
  <2>3. o \div SECTOR_SIZE \in Positions /\ o \div SECTOR_SIZE < Units(Inode(c, i))
    BY <1>1, <2>1, <2>2, OffsetHeld DEF Stands
  <2>4. Inode(f, i) = Inode(c, i)
    BY <1>3, <1>6, <2>2
  <2>5. DataAt(f, i, o) = DataAt(c, i, o)
    BY <1>4, <1>6, <2>2, <2>3, <2>4 DEF DataAt
  <2> QED BY <2>1, <2>4, <2>5 DEF Stands
<1> QED BY <1>2, <1>3, <1>4, <1>5, <1>6

\* The sectors that n bytes from o on lie in are those of the file, once it has
\* grown.
LEMMA SectorsHeld ==
  ASSUME NEW d \in DiskType, SpaceOn(d), NEW i \in Imap(d), NEW o \in Nat, NEW n \in Nat \ {0},
         o + n <= Inode(d, i).size_allocated
  PROVE  \A k \in FirstSector(o) .. LastSector(o, n) : k \in Positions /\ k < Units(Inode(d, i))
<1> DEFINE z == o + n - 1
           u == Units(Inode(d, i))
<1>1. z \in Nat /\ z < Inode(d, i).size_allocated
  <2>1. Inode(d, i) \in InodeType
    BY Sorts, InodeIn
  <2>2. Inode(d, i).size_allocated \in Nat
    BY <2>1 DEF InodeType
  <2> QED BY <2>2
<1> HIDE DEF z
<1>2. z \div SECTOR_SIZE \in Positions /\ z \div SECTOR_SIZE < u
  BY <1>1, OffsetHeld
<1>3. LastSector(o, n) = z \div SECTOR_SIZE
  BY DEF LastSector, z
<1>4. FirstSector(o) \in Nat
  BY FirstLast
<1>5. u \in Nat
  BY Sorts, InodeIn, UnitsNat
<1> DEFINE t == z \div SECTOR_SIZE
<1>6. t \in Positions /\ t < u /\ LastSector(o, n) = t /\ NPOINTERS \in Nat
  BY <1>2, <1>3, Consts
<1> HIDE DEF t, u
<1>7. \A k \in FirstSector(o) .. t : k \in Positions /\ k < u
  BY <1>4, <1>5, <1>6 DEF Positions
<1> QED BY <1>6, <1>7 DEF u

\* The byte at an offset, after fwrite.
LEMMA ByteStored ==
  ASSUME NEW s \in SectorType, NEW o \in Nat, NEW n \in Nat \ {0}, NEW x \in Values, NEW q \in Nat,
         NEW b, b = Stored(s, q \div SECTOR_SIZE, o, n, x).bytes[(q % SECTOR_SIZE) + 1]
  PROVE  /\ q \in o .. o + n - 1 => b = x
         /\ q \notin o .. o + n - 1 /\ s.bytes # <<>> => b = s.bytes[(q % SECTOR_SIZE) + 1]
<1> DEFINE k == q \div SECTOR_SIZE
           i == (q % SECTOR_SIZE) + 1
<1>1. i \in 1 .. SECTOR_SIZE /\ k * SECTOR_SIZE + i - 1 = q
  <2>1. k \in Nat /\ q % SECTOR_SIZE \in 0 .. SECTOR_SIZE - 1 /\ q = k * SECTOR_SIZE + (q % SECTOR_SIZE)
    BY Consts, DivMod
  <2>2. k * SECTOR_SIZE \in Nat /\ SECTOR_SIZE \in Nat
    BY <2>1, Consts
  <2> DEFINE u == k * SECTOR_SIZE
             v == q % SECTOR_SIZE
  <2>3. u \in Nat /\ v \in 0 .. SECTOR_SIZE - 1 /\ q = u + v
    BY <2>1, <2>2
  <2> HIDE DEF u, v
  <2>4. v + 1 \in 1 .. SECTOR_SIZE /\ u + (v + 1) - 1 = q
    BY <2>2, <2>3
  <2> QED BY <2>4 DEF u, v
<1> HIDE DEF k, i
<1>2. Stored(s, k, o, n, x).bytes[i] = IF k * SECTOR_SIZE + i - 1 \in o .. o + n - 1 THEN x
                                       ELSE IF s.bytes = <<>> THEN Junk ELSE s.bytes[i]
  BY <1>1, StoredType
<1>3. b = Stored(s, k, o, n, x).bytes[i]
  BY DEF k, i
<1> QED BY <1>1, <1>2, <1>3 DEF i

\* fwrite found no block: what it had allocated stays in the inode.
LEMMA FwriteFull ==
  ASSUME NEW m \in MemType, NEW c \in DiskType, NEW ex, Sound(m, c, ex), NEW ino \in Files(c),
         NEW f, NEW g, NEW n, Grown(c, m, ino, g), Wrote(c, f, ino, g, g.inode),
         f.darray = c.darray, SameDir(m, n)
  PROVE  /\ f \in DiskType /\ Sound(n, f, ex) /\ Files(f) = Files(c)
         /\ SizesRight(c, ex) => SizesRight(f, ex)
<1>1. Confined(c, f, ino)
  BY DEF Confined
<1>2. /\ f \in DiskType /\ TreeOn(f) /\ SpaceOn(f) /\ Files(f) = Files(c)
      /\ \E i : InDir(n, f, i)
      /\ \A i \in Files(c), o \in Offsets : i # ino /\ ex[i][o] # Junk => Stands(f, i, o, ex[i][o])
      /\ \A i \in Files(c) : i # ino => Inode(f, i) = Inode(c, i)
  BY <1>1, WroteOthers
<1>3. SpaceOn(c) /\ Contents(c, ex) /\ ino \in Imap(c)
  BY Sorts DEF Sound
<1>4. WroteFacts(c, f, ino, g, g.inode)
  BY <1>3, WroteSpace
<1> DEFINE x == Inode(c, ino)
           y == Inode(f, ino)
<1>5. /\ y.size_allocated >= x.size_allocated /\ y.size = x.size
      /\ x.size_allocated \in Nat /\ y.size_allocated \in Nat
      /\ \A l \in Positions : l < Units(x) => y.pointers[l] = x.pointers[l]
  <2>1. y = g.inode /\ y.size_allocated >= x.size_allocated
        /\ \A l \in Positions : l < Units(x) => y.pointers[l] = x.pointers[l]
    BY <1>4 DEF WroteFacts
  <2>2. g.inode.size = x.size
    BY DEF Grown
  <2>3. x \in InodeType /\ y \in InodeType
    BY <1>2, <1>3, InodeIn, Sorts
  <2> HIDE DEF x, y
  <2> QED BY <2>1, <2>2, <2>3 DEF InodeType
<1> HIDE DEF x, y
<1>6. ASSUME NEW o \in Offsets, ex[ino][o] # Junk PROVE Stands(f, ino, o, ex[ino][o])
  <2>1. Stands(c, ino, o, ex[ino][o])
    BY <1>3, <1>6 DEF Contents
  <2>2. o \in Nat /\ o < x.size_allocated
    BY <2>1, Consts DEF Offsets, Stands, x
  <2>3. o \div SECTOR_SIZE \in Positions /\ o \div SECTOR_SIZE < Units(x)
    BY <1>3, <2>2, OffsetHeld DEF x
  <2>4. o < y.size_allocated
    BY <1>5, <2>2
  <2>5. y.pointers[o \div SECTOR_SIZE] = x.pointers[o \div SECTOR_SIZE]
    BY <1>5, <2>3
  <2>6. DataAt(f, ino, o) = DataAt(c, ino, o)
    BY <2>5 DEF DataAt, x, y
  <2> QED BY <2>1, <2>4, <2>6 DEF Stands, y
<1>7. Contents(f, ex)
  <2> SUFFICES ASSUME NEW i \in Files(f), NEW o \in Offsets, ex[i][o] # Junk
               PROVE  Stands(f, i, o, ex[i][o])
    BY DEF Contents
  <2>1. CASE i = ino
    BY <1>6, <2>1
  <2>2. CASE i # ino
    BY <1>2, <2>2
  <2> QED BY <2>1, <2>2
<1>8. \A i \in Files(c) : Inode(f, i).size = Inode(c, i).size
  BY <1>2, <1>5 DEF x, y
<1>9. SizesRight(c, ex) => SizesRight(f, ex)
  BY <1>2, <1>8 DEF SizesRight
<1> QED BY <1>2, <1>7, <1>9 DEF Sound

\* fwrite has written n bytes x to the file ino, at o.
Appended(ex, ey, ino, o, n, x) ==
  /\ \A j \in Inos : j # ino => ey[j] = ex[j]
  /\ \A q \in Offsets : ey[ino][q] = IF q \in o .. o + n - 1 THEN x ELSE ex[ino][q]

LEMMA FilledConfined ==
  ASSUME NEW c, NEW f, NEW ino, NEW ps, NEW o, NEW n, NEW x, Filled(c, f, ps, o, n, x),
         ps = Inode(f, ino).pointers,
         \A k \in FirstSector(o) .. LastSector(o, n) : k \in Positions /\ k < Units(Inode(f, ino))
  PROVE  Confined(c, f, ino)
<1> SUFFICES ASSUME NEW b \in Blocks,
                    \A k \in Positions : k < Units(Inode(f, ino)) => Inode(f, ino).pointers[k] # b
             PROVE  f.darray[b] = c.darray[b]
  BY DEF Confined
<1>1. \A k \in FirstSector(o) .. LastSector(o, n) : ps[k] # b
  OBVIOUS
<1> QED BY <1>1 DEF Filled

StoredIn(m, c, ex, ino, f, g, r, o, n, x, ey) ==
  /\ Sound(m, c, ex) /\ Grown(c, m, ino, g) /\ Wrote(c, f, ino, g, WithSize(g.inode, n))
  /\ g.inode.size_allocated
       = Inode(c, ino).size_allocated + BlocksNeeded(Inode(c, ino), o, n) * SECTOR_SIZE
  /\ Filled(c, f, g.inode.pointers, o, n, x) /\ SameDir(m, r)
  /\ o <= Inode(c, ino).size_allocated /\ Appended(ex, ey, ino, o, n, x)

LEMMA FwriteStored ==
  ASSUME NEW m \in MemType, NEW c \in DiskType, NEW ex, NEW ino \in Files(c), NEW f, NEW g, NEW r,
         NEW o \in Nat, NEW n \in Nat \ {0}, NEW x \in Values, NEW ey,
         StoredIn(m, c, ex, ino, f, g, r, o, n, x, ey)
  PROVE  f \in DiskType /\ Sound(r, f, ey) /\ Files(f) = Files(c)
<1>0. /\ Sound(m, c, ex) /\ Grown(c, m, ino, g) /\ Wrote(c, f, ino, g, WithSize(g.inode, n))
      /\ g.inode.size_allocated
           = Inode(c, ino).size_allocated + BlocksNeeded(Inode(c, ino), o, n) * SECTOR_SIZE
      /\ Filled(c, f, g.inode.pointers, o, n, x) /\ SameDir(m, r)
      /\ o <= Inode(c, ino).size_allocated /\ Appended(ex, ey, ino, o, n, x)
  BY DEF StoredIn
<1> DEFINE z == Inode(c, ino)
           y == Inode(f, ino)
           ps == y.pointers
<1>1. SpaceOn(c) /\ Contents(c, ex) /\ ino \in Imap(c) /\ Files(c) \subseteq Inos
  BY <1>0, Sorts DEF Sound
<1>2. WroteFacts(c, f, ino, g, WithSize(g.inode, n))
  BY <1>0, <1>1, WroteSpace
<1>3. /\ f \in DiskType /\ SpaceOn(f) /\ Imap(f) = Imap(c) /\ ps = g.inode.pointers
      /\ y.size_allocated = g.inode.size_allocated /\ y.size_allocated >= z.size_allocated
      /\ \A l \in Positions : l < Units(z) => ps[l] = z.pointers[l]
  BY <1>2 DEF WroteFacts
<1>4. z \in InodeType /\ y \in InodeType /\ z.size_allocated \in Nat /\ y.size_allocated \in Nat
  <2>1. z \in InodeType /\ y \in InodeType
    BY <1>1, <1>3, InodeIn, Sorts
  <2> HIDE DEF z, y
  <2> QED BY <2>1 DEF InodeType
<1>5. o + n <= y.size_allocated
  BY <1>0, <1>3, <1>4, NeededNat
<1> HIDE DEF z
<1>6. \A k \in FirstSector(o) .. LastSector(o, n) : k \in Positions /\ k < Units(y)
  BY <1>1, <1>3, <1>5, SectorsHeld
<1>7. Filled(c, f, ps, o, n, x)
  BY <1>0, <1>3
<1>8. Confined(c, f, ino)
  BY <1>6, <1>7, FilledConfined
<1>9. /\ TreeOn(f) /\ Files(f) = Files(c) /\ \E i : InDir(r, f, i)
      /\ \A i \in Files(c), q \in Offsets : i # ino /\ ex[i][q] # Junk => Stands(f, i, q, ex[i][q])
  BY <1>0, <1>8, WroteOthers
<1>10. \A k, l \in Positions : k < Units(y) /\ l < Units(y) /\ ps[k] = ps[l] => k = l
  BY <1>1, <1>3, OwnBlocks
<1>11. \A k \in FirstSector(o) .. LastSector(o, n) : f.darray[ps[k]] = Stored(c.darray[ps[k]], k, o, n, x)
  BY <1>6, <1>7, <1>10 DEF Filled
<1>12. \A k \in Positions : k < Units(y) => ps[k] \in Blocks
  BY <1>1, <1>3, OwnBlocks
<1>13. \A k \in FirstSector(o) .. LastSector(o, n) : k < NDIRECT
  BY <1>7 DEF Filled
<1>14. Units(y) >= Units(z) /\ Units(y) \in Nat /\ Units(z) \in Nat
  BY <1>2, <1>4, UnitsNat DEF WroteFacts, z
<1>15. ASSUME NEW q \in Offsets, ey[ino][q] # Junk
       PROVE  Stands(f, ino, q, ey[ino][q])
  <2> DEFINE k == q \div SECTOR_SIZE
             s == c.darray[ps[k]]
             j == (q % SECTOR_SIZE) + 1
  <2>1. q \in Nat /\ ey[ino][q] = IF q \in o .. o + n - 1 THEN x ELSE ex[ino][q]
    BY <1>0, Consts DEF Offsets, Appended
  <2>2. CASE q \in o .. o + n - 1
    <3>1. k \in FirstSector(o) .. LastSector(o, n)
      <4>1. SECTOR_SIZE \in Nat \ {0} /\ o <= q /\ q <= o + n - 1 /\ o + n - 1 \in Nat
        BY <2>1, <2>2, Consts
      <4>2. FirstSector(o) <= k
        BY <2>1, <4>1, DivMono DEF FirstSector
      <4>3. k <= LastSector(o, n)
        <5> DEFINE t == o + n - 1
        <5>1. t \in Nat /\ q <= t
          BY <4>1
        <5> HIDE DEF t
        <5>2. q \div SECTOR_SIZE <= t \div SECTOR_SIZE
          BY <2>1, <4>1, <5>1, DivMono
        <5> QED BY <5>2 DEF t, LastSector
      <4>4. k \in Nat /\ FirstSector(o) \in Nat /\ LastSector(o, n) \in Nat
        BY <2>1, <4>1, DivMod, FirstLast
      <4> HIDE DEF k
      <4> QED BY <4>2, <4>3, <4>4
    <3>2. k \in Positions /\ k < Units(y) /\ k < NDIRECT
      BY <1>6, <1>13, <3>1
    <3>3. f.darray[ps[k]] = Stored(s, k, o, n, x)
      BY <1>11, <3>1
    <3>4. s \in SectorType
      BY <1>12, <3>2 DEF DiskType
    <3>5. Stored(s, k, o, n, x).bytes # <<>> /\ Stored(s, k, o, n, x).bytes[j] = x
      <4> HIDE DEF s
      <4>1. Stored(s, k, o, n, x).bytes # <<>>
        BY <3>4, StoredType
      <4> DEFINE b == Stored(s, k, o, n, x).bytes[j]
      <4>2. b = Stored(s, q \div SECTOR_SIZE, o, n, x).bytes[(q % SECTOR_SIZE) + 1]
        OBVIOUS
      <4> HIDE DEF b, k, j
      <4>3. b = x
        BY <2>1, <2>2, <3>4, <4>2, ByteStored
      <4> QED BY <4>1, <4>3 DEF b
    <3>6. q < y.size_allocated
      BY <1>4, <1>5, <2>1, <2>2
    <3>7. DataAt(f, ino, q) = Stored(s, k, o, n, x).bytes
      BY <3>3 DEF DataAt
    <3> HIDE DEF s
    <3> QED BY <2>1, <2>2, <3>2, <3>5, <3>6, <3>7 DEF Stands
  <2>3. CASE q \notin o .. o + n - 1
    <3>1. ey[ino][q] = ex[ino][q] /\ Stands(c, ino, q, ex[ino][q])
      BY <1>1, <1>15, <2>1, <2>3 DEF Contents
    <3>2. q < z.size_allocated /\ k < NDIRECT /\ DataAt(c, ino, q) # <<>>
          /\ DataAt(c, ino, q)[j] = ex[ino][q]
      BY <3>1 DEF Stands, z
    <3>3. k \in Positions /\ k < Units(z)
      BY <1>1, <2>1, <3>2, OffsetHeld DEF z
    <3>4. k < Units(y)
      BY <1>14, <3>3, Consts DEF Positions
    <3>5. ps[k] = z.pointers[k] /\ ps[k] \in Blocks /\ s \in SectorType
      BY <1>3, <1>12, <3>3, <3>4 DEF DiskType
    <3>6. DataAt(c, ino, q) = s.bytes /\ DataAt(f, ino, q) = f.darray[ps[k]].bytes
      BY <3>5 DEF DataAt, z
    <3>7. f.darray[ps[k]].bytes # <<>> /\ f.darray[ps[k]].bytes[j] = s.bytes[j]
      <4>1. CASE k \in FirstSector(o) .. LastSector(o, n)
        <5>1. f.darray[ps[k]] = Stored(s, k, o, n, x)
          BY <1>11, <4>1
        <5>2. Stored(s, k, o, n, x).bytes # <<>> /\ Stored(s, k, o, n, x).bytes[j] = s.bytes[j]
          <6>0. s.bytes # <<>> /\ s \in SectorType
            BY <3>2, <3>5, <3>6
          <6> HIDE DEF s
          <6>1. Stored(s, k, o, n, x).bytes # <<>>
            BY <6>0, StoredType
          <6> DEFINE b == Stored(s, k, o, n, x).bytes[j]
          <6>2. b = Stored(s, q \div SECTOR_SIZE, o, n, x).bytes[(q % SECTOR_SIZE) + 1]
            OBVIOUS
          <6> HIDE DEF b
          <6>3. b = s.bytes[(q % SECTOR_SIZE) + 1]
            <7> HIDE DEF k, j
            <7> QED BY <2>1, <2>3, <6>0, <6>2, ByteStored
          <6> QED BY <6>1, <6>3 DEF b
        <5> QED BY <5>1, <5>2
      <4>2. CASE k \notin FirstSector(o) .. LastSector(o, n)
        <5>1. \A l \in FirstSector(o) .. LastSector(o, n) : ps[l] # ps[k]
          BY <1>6, <1>10, <3>3, <3>4, <4>2
        <5>2. f.darray[ps[k]] = s
          BY <1>7, <3>5, <5>1 DEF Filled
        <5> QED BY <3>2, <3>6, <5>2
      <4> QED BY <4>1, <4>2
    <3>8. q < y.size_allocated
      BY <1>3, <1>4, <2>1, <3>2
    <3> QED BY <3>1, <3>2, <3>6, <3>7, <3>8 DEF Stands
  <2> QED BY <2>2, <2>3
<1>16. Contents(f, ey)
  <2> SUFFICES ASSUME NEW i \in Files(f), NEW q \in Offsets, ey[i][q] # Junk
               PROVE  Stands(f, i, q, ey[i][q])
    BY DEF Contents
  <2>1. CASE i = ino
    BY <1>15, <2>1
  <2>2. CASE i # ino
    <3>1. ey[i] = ex[i]
      BY <1>0, <1>1, <1>9, <2>2 DEF Appended
    <3> QED BY <1>9, <2>2, <3>1
  <2> QED BY <2>1, <2>2
<1> QED BY <1>3, <1>9, <1>16 DEF Sound

LEMMA FwriteSizes ==
  ASSUME NEW m \in MemType, NEW c \in DiskType, NEW ex, Sound(m, c, ex), NEW ino \in Files(c),
         NEW f, NEW g, NEW o \in Nat, NEW n \in Nat \ {0}, NEW x \in Values,
         Grown(c, m, ino, g), Wrote(c, f, ino, g, WithSize(g.inode, n)), Files(f) = Files(c),
         o = Inode(c, ino).size, o + n <= MaxOffset, SizesRight(c, ex),
         NEW ey, Appended(ex, ey, ino, o, n, x)
  PROVE  SizesRight(f, ey)
<1>1. SpaceOn(c) /\ ino \in Imap(c) /\ Files(c) \subseteq Imap(c) /\ Files(c) \subseteq Inos
  BY Sorts DEF Sound
<1>2. WroteFacts(c, f, ino, g, WithSize(g.inode, n))
  BY <1>1, WroteSpace
<1>3. g.inode \in InodeType /\ g.inode.size = o
  BY DEF Grown, GrowType
<1>4. Inode(f, ino).size = o + n
  BY <1>2, <1>3, WithSizeFacts, ZenonT(30) DEF WroteFacts
<1>5. x # Junk
  BY FileAssumption
<1> SUFFICES ASSUME NEW i \in Files(c)
             PROVE  WrittenTo(ey[i]) = 0 .. Inode(f, i).size - 1
  BY DEF SizesRight
<1>6. CASE i = ino
  <2>1. WrittenTo(ex[ino]) = 0 .. o - 1
    BY DEF SizesRight
  <2>2. \A q \in Offsets : ey[ino][q] = IF q \in o .. o + n - 1 THEN x ELSE ex[ino][q]
    BY DEF Appended
  <2>3. MaxOffset \in Nat
    BY Consts
  <2>4. ASSUME NEW q PROVE q \in WrittenTo(ey[ino]) <=> q \in 0 .. o + n - 1
    <3>1. q \in WrittenTo(ex[ino]) <=> q \in Offsets /\ ex[ino][q] # Junk
      BY DEF WrittenTo
    <3>2. q \in WrittenTo(ey[ino]) <=> q \in Offsets /\ ey[ino][q] # Junk
      BY DEF WrittenTo
    <3> QED BY <1>5, <2>1, <2>2, <2>3, <3>1, <3>2 DEF Offsets
  <2>5. WrittenTo(ey[ino]) = 0 .. o + n - 1
    BY <2>4
  <2> QED BY <1>4, <1>6, <2>5
<1>7. CASE i # ino
  <2>1. ey[i] = ex[i] /\ Inode(f, i) = Inode(c, i)
    BY <1>1, <1>2, <1>7 DEF Appended, WroteFacts
  <2> QED BY <2>1 DEF SizesRight
<1> QED BY <1>6, <1>7

LEMMA FwriteSound ==
  ASSUME NEW m \in MemType, NEW c \in DiskType, NEW ex, Sound(m, c, ex), NEW ino \in Files(c),
         NEW r, NEW f, NEW g, NEW o \in Nat, NEW n \in Nat \ {0}, NEW x \in Values,
         FwriteEnds(m, c, r, f, g, ino, o, n, x), r.events \subseteq {"seek"}, o + n <= MaxOffset,
         NEW ey, Appended(ex, ey, ino, o, r.n, x), ex \in [Inos -> [Offsets -> Values \cup {Junk}]],
         ey \in [Inos -> [Offsets -> Values \cup {Junk}]]
  PROVE  /\ Sound(r.m, f, ey) /\ Files(f) = Files(c)
         /\ r.events = {} /\ SizesRight(c, ex) => SizesRight(f, ey)
<1>1. r.m = g.m /\ Grown(c, m, ino, g) /\ SameDir(m, r.m)
  BY DEF FwriteEnds, Grown
<1>2. CASE r.events = {} /\ r.n = 0 /\ f.darray = c.darray /\ Wrote(c, f, ino, g, g.inode)
  <2>1. o + r.n - 1 = o - 1
    BY <1>2
  <2>2. \A q \in Offsets : ey[ino][q] = ex[ino][q]
    BY <2>1 DEF Appended
  <2>3. ino \in Inos
    BY Sorts
  <2>4. ey[ino] = ex[ino]
    BY <2>2, <2>3
  <2>5. \A j \in Inos : ey[j] = ex[j]
    BY <2>4 DEF Appended
  <2>6. ey = ex
    BY <2>5
  <2> HIDE <2>6
  <2>7. /\ Sound(r.m, f, ex) /\ Files(f) = Files(c)
        /\ SizesRight(c, ex) => SizesRight(f, ex)
    BY <1>1, <1>2, FwriteFull
  <2> QED BY <2>6, <2>7
<1>3. CASE /\ r.events = FwriteEvents(c, ino, o) /\ r.n = n
           /\ g.inode.size_allocated
                = Inode(c, ino).size_allocated + BlocksNeeded(Inode(c, ino), o, n) * SECTOR_SIZE
           /\ Wrote(c, f, ino, g, WithSize(g.inode, n))
           /\ Filled(c, f, g.inode.pointers, o, n, x)
  <2>1. Inode(c, ino) \in InodeType
    BY Sorts, InodeIn
  <2>2. Inode(c, ino).size_allocated \in Nat
    BY <2>1 DEF InodeType
  <2>3. o <= Inode(c, ino).size_allocated
    <3>1. ASSUME o > Inode(c, ino).size_allocated PROVE FALSE
      <4>1. "beyond" \in r.events
        BY <1>3, <3>1 DEF FwriteEvents
      <4> QED BY <4>1
    <3> QED BY <2>2, <3>1
  <2>4. Appended(ex, ey, ino, o, n, x)
    BY <1>3
  <2>5. Sound(r.m, f, ey) /\ Files(f) = Files(c)
    <3> DEFINE k == r.m
    <3>1. SameDir(m, k)
      BY <1>1
    <3> HIDE DEF k
    <3>2. StoredIn(m, c, ex, ino, f, g, k, o, n, x, ey)
      BY <1>1, <1>3, <2>3, <2>4, <3>1 DEF StoredIn
    <3>3. Sound(k, f, ey) /\ Files(f) = Files(c)
      BY <3>2, FwriteStored
    <3> QED BY <3>3 DEF k
  <2>6. ASSUME r.events = {}, SizesRight(c, ex) PROVE SizesRight(f, ey)
    <3>1. o = Inode(c, ino).size
      BY <1>3, <2>6 DEF FwriteEvents
    <3> QED BY <1>1, <1>3, <2>4, <2>5, <2>6, <3>1, FwriteSizes
  <2> QED BY <2>5, <2>6
<1> QED BY <1>2, <1>3 DEF FwriteEnds

-----------------------------------------------------------------------------
\* What holds as long as nothing happened that the code does not cope with.

Tolerable == {"seek", "remade"}

\* The call that returns r leaves a sound file system.
CallSound(c, r, ex, ey) ==
  r.events \subseteq Tolerable => StaysSound(r.m, WrittenAll(c, r.w), ey, c, ex)

LEMMA StaysSame ==
  ASSUME NEW m, NEW c, NEW ex, Sound(m, c, ex)
  PROVE  StaysSound(m, c, ex, c, ex)
BY DEF StaysSound

\* mkdir and touch make no entry for a name that exists.
LEMMA NewNames ==
  ASSUME NEW m \in MemType, NEW c \in DiskType, Sync(m, c), NEW s,
         NEW r, r = mkdir(m, c, s) \/ r = touch(m, c, s), NEW ino, ino \notin c.imap[0],
         r.m.imap = m.imap \cup {ino}
  PROVE  is_file_exist(m, s) = 0
<1>1. ASSUME Refuses(m, s) PROVE FALSE
  <2>1. r = Refused(m)
    BY <1>1, Zenon DEF mkdir, touch
  <2>2. r.m = m
    BY <2>1 DEF Refused
  <2>3. m.imap = c.imap[0]
    BY DEF Sync
  <2> QED BY <2>2, <2>3
<1> QED BY <1>1 DEF Refuses

LEMMA MkdirKeeps ==
  ASSUME NEW m \in MemType, NEW c \in DiskType, Sync(m, c), NEW s \in Names, NEW ex, Sound(m, c, ex)
  PROVE  CallSound(c, mkdir(m, c, s), ex, ex)
<1> DEFINE r == mkdir(m, c, s)
           f == WrittenAll(c, r.w)
           q == m.current_dir_pointer
<1>1. /\ f \in DiskType /\ r.m.current_dir_pointer = q
      /\ \/ r.events = {} /\ r.m = m /\ f = c
         \/ r.events = {"no_inode"}
         \/ \E h, i, ino :
              /\ Makes(m, c, r, f, s, h, i, ino)
              /\ \/ r.events = {"no_block"}
                 \/ r.events = {} /\ \E p \in Blocks : DirMade(h, f, ino, p, q)
  BY MkdirDone
<1>2. r = mkdir(m, c, s)
  OBVIOUS
<1> HIDE DEF r, f, q
<1> SUFFICES ASSUME r.events \subseteq Tolerable PROVE StaysSound(r.m, f, ex, c, ex)
  BY DEF CallSound, r, f
<1>3. r.events # {"no_inode"} /\ r.events # {"no_block"}
  BY DEF Tolerable
<1>4. CASE r.m = m /\ f = c
  BY <1>4, StaysSame
<1>5. CASE \E h, i, ino :
             Makes(m, c, r, f, s, h, i, ino) /\ \E p \in Blocks : DirMade(h, f, ino, p, q)
  <2>1. PICK h, i, ino :
          Makes(m, c, r, f, s, h, i, ino) /\ \E p \in Blocks : DirMade(h, f, ino, p, q)
    BY <1>5
  <2>2. PICK p \in Blocks : DirMade(h, f, ino, p, q)
    BY <2>1
  <2>3. ino \notin c.imap[0] /\ r.m.imap = m.imap \cup {ino}
    BY <2>1 DEF Makes, Entered
  <2>4. is_file_exist(m, s) = 0
    BY <1>2, <2>3, NewNames
  <2> QED BY <1>1, <2>1, <2>2, <2>4, MkdirSound DEF q
<1> QED BY <1>1, <1>3, <1>4, <1>5

LEMMA TouchKeeps ==
  ASSUME NEW m \in MemType, NEW c \in DiskType, Sync(m, c), NEW s \in Names, NEW ex, Sound(m, c, ex),
         ex \in [Inos -> FileType]
  PROVE  LET r == touch(m, c, s)
         IN  CallSound(c, r, ex, [i \in Inos |-> IF i \in r.m.imap \ m.imap THEN BlankFile ELSE ex[i]])
<1> DEFINE r == touch(m, c, s)
           f == WrittenAll(c, r.w)
           ey == [i \in Inos |-> IF i \in r.m.imap \ m.imap THEN BlankFile ELSE ex[i]]
<1>1. /\ f \in DiskType /\ r.m.current_dir_pointer = m.current_dir_pointer
      /\ \/ r.events = {} /\ r.m = m /\ f = c
         \/ r.events = {"no_inode"}
         \/ \E h, i, ino :
              Makes(m, c, r, f, s, h, i, ino) /\ r.events = {} /\ FileMade(h, f, ino)
  BY TouchDone
<1>2. r = touch(m, c, s)
  OBVIOUS
<1> HIDE DEF r, f
<1> SUFFICES ASSUME r.events \subseteq Tolerable PROVE StaysSound(r.m, f, ey, c, ex)
  BY DEF CallSound, r, f
<1>3. r.events # {"no_inode"}
  BY DEF Tolerable
<1>4. CASE r.m = m /\ f = c
  <2>1. ey = ex
    BY <1>4
  <2> HIDE DEF ey
  <2> QED BY <1>4, <2>1, StaysSame
<1>5. CASE \E h, i, ino : Makes(m, c, r, f, s, h, i, ino) /\ FileMade(h, f, ino)
  <2>1. PICK h, i, ino : Makes(m, c, r, f, s, h, i, ino) /\ FileMade(h, f, ino)
    BY <1>5
  <2>2. ino \in Inos /\ ino \notin c.imap[0] /\ r.m.imap = m.imap \cup {ino}
    BY <2>1 DEF Makes, Entered
  <2>3. is_file_exist(m, s) = 0
    BY <1>2, <2>2, NewNames
  <2>4. m.imap = c.imap[0] /\ Imap(c) = c.imap[0] /\ Imap(c) \subseteq Inos
    BY Sorts DEF Sync, Imap
  <2>5. ey[ino] = BlankFile /\ \A j \in Imap(c) : ey[j] = ex[j]
    BY <2>2, <2>4
  <2> HIDE DEF ey
  <2> QED BY <1>1, <2>1, <2>3, <2>5, TouchSound
<1> QED BY <1>1, <1>3, <1>4, <1>5

LEMMA RmdirKeeps ==
  ASSUME NEW m \in MemType, NEW c \in DiskType, Sync(m, c), NEW s \in Names, NEW ex, Sound(m, c, ex)
  PROVE  CallSound(c, rmdir(m, c, s), ex, ex)
<1> DEFINE r == rmdir(m, c, s)
           f == WrittenAll(c, r.w)
<1>1. /\ f \in DiskType /\ r.m.current_dir_pointer = m.current_dir_pointer
      /\ \/ r.m = m /\ f = c
         \/ \E i, ino, p : DirGone(m, c, r, f, s, i, ino, p)
  BY RmdirDone
<1> HIDE DEF r, f
<1>2. CASE r.m = m /\ f = c
  <2>1. StaysSound(r.m, f, ex, c, ex)
    BY <1>2, StaysSame
  <2> QED BY <2>1 DEF CallSound, r, f
<1>3. CASE \E i, ino, p : DirGone(m, c, r, f, s, i, ino, p)
  <2>1. PICK i, ino, p : DirGone(m, c, r, f, s, i, ino, p)
    BY <1>3
  <2>2. StaysSound(r.m, f, ex, c, ex)
    BY <1>1, <2>1, RmdirSound
  <2> QED BY <2>2 DEF CallSound, r, f
<1> QED BY <1>1, <1>2, <1>3

LEMMA CdKeeps ==
  ASSUME NEW m \in MemType, NEW c \in DiskType, NEW ex, Sound(m, c, ex)
  PROVE  /\ CallSound(c, cd_father(m, c), ex, ex)
         /\ \A ino \in {-1, Astray} \cup Imap(c) : CallSound(c, cd(m, c, ino), ex, ex)
<1>1. ASSUME NEW r, r.w = <<>>, Sound(r.m, c, ex) PROVE CallSound(c, r, ex, ex)
  <2>1. WrittenAll(c, r.w) = c
    BY <1>1, WriteNone
  <2>2. StaysSound(r.m, WrittenAll(c, r.w), ex, c, ex)
    BY <1>1, <2>1 DEF StaysSound
  <2> QED BY <2>2 DEF CallSound
<1>2. cd_father(m, c).w = <<>>
  BY FatherDone DEF Goes
<1>3. \A ino : cd(m, c, ino).w = <<>>
  BY CdDone DEF Goes
<1> QED BY <1>1, <1>2, <1>3, FatherSound, CdSound

\* The invariant: a tree, blocks that are marked if and only if they are in use,
\* files as they were written, a current directory that is one, and descriptors
\* that are for files.
Calm == events \subseteq Tolerable
OpenFiles == \A fd \in Fds : IsOpen(fd) => fd_array[fd].ino \in Files(disk)
Whole ==
  Calm => /\ TreeOn(disk) /\ SpaceOn(disk) /\ Contents(disk, expected) /\ OpenFiles
          /\ mounted => \E i : InDir(mem, disk, i)
          /\ events \subseteq {"remade"} => SizesRight(disk, expected)

LEMMA WholeSound ==
  ASSUME Whole, mounted, Calm
  PROVE  Sound(mem, disk, expected)
BY DEF Whole, Sound

\* A call ends that keeps a sound file system sound.
LEMMA DoneWhole ==
  ASSUME Whole, mounted, events \subseteq events', mounted' = mounted,
         fd_array_slist' = fd_array_slist, \A fd \in Fds : fd_array'[fd].ino = fd_array[fd].ino,
         Sound(mem, disk, expected) /\ Calm' =>
           /\ Sound(mem', disk', expected') /\ Files(disk) \subseteq Files(disk')
           /\ events' \subseteq {"remade"} /\ SizesRight(disk, expected) => SizesRight(disk', expected')
  PROVE  Whole'
<1> SUFFICES ASSUME Calm'
             PROVE  /\ TreeOn(disk') /\ SpaceOn(disk') /\ Contents(disk', expected')
                    /\ OpenFiles' /\ \E i : InDir(mem', disk', i)
                    /\ events' \subseteq {"remade"} => SizesRight(disk', expected')
  BY DEF Whole
<1>1. Calm
  BY DEF Calm
<1>2. Sound(mem, disk, expected)
  BY <1>1, WholeSound
<1>3. /\ Sound(mem', disk', expected') /\ Files(disk) \subseteq Files(disk')
      /\ events' \subseteq {"remade"} /\ SizesRight(disk, expected) => SizesRight(disk', expected')
  BY <1>2
<1>4. OpenFiles'
  <2>1. OpenFiles
    BY <1>1 DEF Whole
  <2>2. ASSUME NEW fd \in Fds, fd_array_slist'[fd + 1].valid = 1
        PROVE  fd_array'[fd].ino \in Files(disk')
    BY <1>3, <2>1, <2>2 DEF OpenFiles, IsOpen
  <2> QED BY <2>2 DEF OpenFiles, IsOpen
<1>5. events' \subseteq {"remade"} => SizesRight(disk', expected')
  BY <1>1, <1>3 DEF Whole
<1> QED BY <1>3, <1>4, <1>5 DEF Sound

\* No disk, memory or file is changed.
LEMMA SameWhole ==
  ASSUME Whole, disk' = disk, mem' = mem, mounted' = mounted, expected' = expected,
         events \subseteq events', Calm' => OpenFiles'
  PROVE  Whole'
<1> SUFFICES ASSUME Calm'
             PROVE  /\ TreeOn(disk') /\ SpaceOn(disk') /\ Contents(disk', expected')
                    /\ OpenFiles' /\ mounted' => \E i : InDir(mem', disk', i)
                    /\ events' \subseteq {"remade"} => SizesRight(disk', expected')
  BY DEF Whole
<1>1. Calm
  BY DEF Calm
<1> QED BY <1>1 DEF Whole

\* The system boots, or the disk is mounted.
LEMMA BootWhole ==
  ASSUME Base, Whole, disk' = disk, mem' = mount(disk), expected' = expected, events' = events,
         Calm => OpenFiles'
  PROVE  Whole'
<1> SUFFICES ASSUME Calm'
             PROVE  /\ TreeOn(disk') /\ SpaceOn(disk') /\ Contents(disk', expected')
                    /\ OpenFiles' /\ \E i : InDir(mem', disk', i)
                    /\ events' \subseteq {"remade"} => SizesRight(disk', expected')
  BY DEF Whole
<1>1. Calm
  BY DEF Calm
<1>2. TreeOn(disk) /\ SpaceOn(disk) /\ Contents(disk, expected) /\ disk \in DiskType
  BY <1>1 DEF Whole, Base, Typed
<1>3. Sound(mount(disk), disk, expected)
  BY <1>2, MountSound
<1> QED BY <1>1, <1>2, <1>3 DEF Whole, Sound

\* mkfs has run and nothing is open.
LEMMA FreshWhole ==
  ASSUME NEW f \in DiskType, Fresh(f), NEW ex
  PROVE  /\ TreeOn(f) /\ SpaceOn(f) /\ Contents(f, ex) /\ SizesRight(f, ex)
         /\ \E i : InDir(mount(f), f, i)
<1>1. TreeOn(f) /\ SpaceOn(f) /\ Files(f) = {}
  BY FreshSound
<1>2. Contents(f, ex) /\ SizesRight(f, ex)
  BY <1>1 DEF Contents, SizesRight
<1>3. Sound(mount(f), f, ex)
  BY <1>1, <1>2, MountSound
<1> QED BY <1>1, <1>2, <1>3 DEF Sound

LEMMA NoneOpen ==
  ASSUME NEW a, a = slist_init(FD_ARRAY_SIZE + 1)
  PROVE  \A fd \in Fds : a[fd + 1].valid # 1
<1> DEFINE n == FD_ARRAY_SIZE + 1
<1>1. n \in Nat \ {0}
  BY Consts
<1>2. \A fd \in Fds : fd + 1 \in 1 .. n - 1
  BY Consts DEF Fds
<1>3. a = slist_init(n)
  OBVIOUS
<1> HIDE DEF n
<1>4. \A i \in 1 .. n - 1 : a[i].valid = 0
  BY <1>1, <1>3, InitShape
<1> QED BY <1>2, <1>4

LEMMA InitWhole ==
  ASSUME Init
  PROVE  Whole
<1>1. disk \in DiskType /\ Fresh(disk)
  BY Blank, MkfsDone DEF Init
<1>2. mem = mount(disk) /\ fd_array_slist = slist_init(FD_ARRAY_SIZE + 1)
  BY DEF Init
<1>3. OpenFiles
  BY <1>2, NoneOpen DEF OpenFiles, IsOpen
<1>4. /\ TreeOn(disk) /\ SpaceOn(disk) /\ Contents(disk, expected) /\ SizesRight(disk, expected)
      /\ \E i : InDir(mem, disk, i)
  BY <1>1, <1>2, FreshWhole
<1> QED BY <1>3, <1>4 DEF Whole

\* The file that fopen finds; below INODES_PER_SECTOR its number is not reduced.
LEMMA FopenWhole ==
  ASSUME Base, Whole, Fopen
  PROVE  Whole'
<1>0. /\ disk \in DiskType /\ mem \in MemType /\ fd_array \in [Fds -> FdType]
      /\ fd_array_slist \in SlistType(FD_ARRAY_SIZE + 1)
      /\ SlistShape(fd_array_slist, FD_ARRAY_SIZE + 1)
  BY DEF Base, Typed
<1>1. PICK s \in Names, access \in {"O_RDWR", "O_RD"} :
        LET ino == is_file_exist(mem, s)
            fd == slist_alloc_ret(fd_array_slist) - 1
        IN  /\ ino # 0 /\ Inode(disk, ino).type = "normal" /\ fd # -1
            /\ fd_array_slist' = slist_alloc(fd_array_slist)
            /\ fd_array' = [fd_array EXCEPT ![fd] =
                 [ino |-> ino % INODES_PER_SECTOR, access |-> access,
                  size |-> Inode(disk, ino).size, offset |-> 0]]
            /\ events' = events \cup (IF ino < INODES_PER_SECTOR THEN {} ELSE {"alias"})
  BY DEF Fopen
<1>2. disk' = disk /\ mem' = mem /\ mounted' = mounted /\ expected' = expected /\ mounted
  BY DEF Fopen, Call
<1> DEFINE ino == is_file_exist(mem, s)
           n == FD_ARRAY_SIZE + 1
           a == slist_alloc_ret(fd_array_slist)
           b == slist_alloc(fd_array_slist)
           new == [ino |-> ino % INODES_PER_SECTOR, access |-> access,
                   size |-> Inode(disk, ino).size, offset |-> 0]
<1>3. events \subseteq events'
  BY <1>1
<1>4. ASSUME Calm' PROVE OpenFiles'
  <2>1. Calm /\ ino < INODES_PER_SECTOR
    <3>1. Calm
      BY <1>3, <1>4 DEF Calm
    <3>2. ASSUME ~ (ino < INODES_PER_SECTOR) PROVE FALSE
      <4>1. "alias" \in events'
        BY <1>1, <3>2
      <4> QED BY <1>4, <4>1 DEF Calm, Tolerable
    <3> QED BY <3>1, <3>2
  <2>2. TreeOn(disk) /\ OpenFiles /\ \E i : InDir(mem, disk, i)
    BY <1>2, <2>1 DEF Whole
  <2>3. PICK i : InDir(mem, disk, i)
    BY <2>2
  <2>4. ino \in Imap(disk)
    <3>1. i \in Dirs(disk) /\ ino = Lookup(ReadDir(disk, DirBlock(disk, i)), s, 0)
      BY <2>3 DEF InDir, is_file_exist
    <3>2. ino = 0 \/ ino \in Imap(disk)
      BY <1>0, <2>2, <3>1, LookupIn
    <3> QED BY <1>1, <3>2
  <2>5. ino \in Files(disk) /\ ino \in Nat
    BY <1>0, <1>1, <2>4, Sorts, Consts DEF Files
  <2>6. ino % INODES_PER_SECTOR = ino
    <3> HIDE DEF ino
    <3> QED BY <2>1, <2>5, Consts
  <2>7. a \in 1 .. n - 1 /\ \A k \in 1 .. n - 1 : k # a => b[k].valid = fd_array_slist[k].valid
    <3>0. n \in Nat \ {0}
      BY Consts
    <3>1. fd_array_slist \in SlistType(n) /\ SlistShape(fd_array_slist, n)
      BY <1>0
    <3> HIDE DEF n
    <3>2. a \in 0 .. n - 1 /\ (a # 0 => \A k \in 1 .. n - 1 : k # a => b[k].valid = fd_array_slist[k].valid)
      BY <3>0, <3>1, AllocShape
    <3>3. a # 0
      BY <1>1, <3>0, <3>2
    <3> QED BY <3>0, <3>2, <3>3
  <2>8. fd_array_slist' = b /\ fd_array' = [fd_array EXCEPT ![a - 1] = new]
    BY <1>1
  <2>9. new.ino = ino
    BY <2>6
  <2> HIDE DEF new, ino, a, b
  <2>10. ASSUME NEW fd \in Fds, fd_array_slist'[fd + 1].valid = 1
         PROVE  fd_array'[fd].ino \in Files(disk')
    <3>0. fd \in Nat /\ fd + 1 \in 1 .. n - 1 /\ FD_ARRAY_SIZE \in Nat
      BY Consts DEF Fds
    <3>1. CASE fd = a - 1
      <4>1. fd_array'[fd] = new
        BY <1>0, <2>8, <3>1
      <4> QED BY <1>2, <2>5, <2>9, <4>1
    <3>2. CASE fd # a - 1
      <4>1. fd + 1 # a
        BY <2>7, <3>0, <3>2
      <4>2. fd_array_slist[fd + 1].valid = 1
        BY <2>7, <2>8, <2>10, <3>0, <4>1
      <4>3. fd_array'[fd] = fd_array[fd]
        BY <1>0, <2>8, <3>2
      <4> QED BY <1>2, <2>2, <4>2, <4>3 DEF OpenFiles, IsOpen
    <3> QED BY <3>1, <3>2
  <2> QED BY <2>10 DEF OpenFiles, IsOpen
<1> QED BY <1>2, <1>3, <1>4, SameWhole

LEMMA FwriteWhole ==
  ASSUME Base, Whole, Fwrite
  PROVE  Whole'
<1>0. /\ disk \in DiskType /\ mem \in MemType /\ fd_array \in [Fds -> FdType]
      /\ expected \in [Inos -> FileType]
  BY DEF Base, Typed
<1>1. PICK fd \in Fds, n \in Sizes, x \in Values :
        LET r == fwrite(mem, disk, fd_array[fd], n, x)
            o == fd_array[fd].offset
        IN  /\ IsOpen(fd) /\ fd_array[fd].access # "O_RD"
            /\ o + n <= MaxOffset /\ Inode(disk, fd_array[fd].ino).size + n <= MaxSize
            /\ disk' = WrittenAll(disk, r.w) /\ mem' = r.m /\ events' = events \cup r.events
            /\ fd_array' = [fd_array EXCEPT ![fd].offset = @ + r.n, ![fd].size = @ + r.n]
            /\ expected' = [expected EXCEPT ![fd_array[fd].ino] =
                 [p \in Offsets |-> IF p \in o .. o + r.n - 1 THEN x ELSE @[p]]]
  BY Zenon DEF Fwrite
<1>2. Call("fwrite") /\ mounted' = mounted /\ fd_array_slist' = fd_array_slist
  BY DEF Fwrite
<1>3. mounted /\ Sync(mem, disk)
  BY <1>2, CallReady DEF Call
<1> DEFINE r == fwrite(mem, disk, fd_array[fd], n, x)
           o == fd_array[fd].offset
           ino == fd_array[fd].ino
           f == WrittenAll(disk, r.w)
<1>4. o \in Nat /\ ino \in InGroup /\ n \in Nat \ {0}
  BY <1>0, FileAssumption DEF FdType
<1>5. ino \in Inos
  BY <1>4, Consts DEF InGroup, Inos
<1>6. f \in DiskType /\ \E g : FwriteEnds(mem, disk, r, f, g, ino, o, n, x)
  BY <1>0, <1>3, <1>4, <1>5, FwriteDone
<1>7. PICK g : FwriteEnds(mem, disk, r, f, g, ino, o, n, x)
  BY <1>6
<1>8. r.n \in Nat
  BY <1>4, <1>7 DEF FwriteEnds
<1>9. /\ disk' = f /\ mem' = r.m /\ events' = events \cup r.events /\ IsOpen(fd) /\ o + n <= MaxOffset
      /\ fd_array' = [fd_array EXCEPT ![fd].offset = @ + r.n, ![fd].size = @ + r.n]
      /\ expected' = [expected EXCEPT ![ino] =
           [p \in Offsets |-> IF p \in o .. o + r.n - 1 THEN x ELSE @[p]]]
  BY <1>1, Zenon
<1> HIDE DEF r, f
<1>10. \A k \in Fds : fd_array'[k].ino = fd_array[k].ino
  <2> DEFINE z == r.n
  <2>1. fd_array' = [fd_array EXCEPT ![fd].offset = @ + z, ![fd].size = @ + z]
    BY <1>9
  <2> HIDE DEF z
  <2> DEFINE a == [fd_array EXCEPT ![fd].offset = @ + z]
  <2>2. fd_array' = [a EXCEPT ![fd].size = @ + z]
    BY <2>1
  <2>3. DOMAIN a = Fds /\ \A k \in Fds : a[k].ino = fd_array[k].ino
    BY <1>0 DEF FdType
  <2>4. a[fd] = [fd_array[fd] EXCEPT !.offset = @ + z] /\ fd_array[fd] \in FdType
    BY <1>0
  <2> HIDE DEF a
  <2>5. "size" # "ino"
    OBVIOUS
  <2>6. \A k \in Fds : k # fd => fd_array'[k] = a[k]
    BY <2>2, <2>3
  <2>7. fd_array'[fd] = [a[fd] EXCEPT !.size = @ + z]
    BY <2>2, <2>3
  <2>8. fd_array'[fd].ino = a[fd].ino
    BY <2>4, <2>7 DEF FdType
  <2> QED BY <2>3, <2>6, <2>8
<1>11. expected' \in [Inos -> FileType] /\ Appended(expected, expected', ino, o, r.n, x)
  <2> DEFINE z == r.n
             file == [p \in Offsets |-> IF p \in o .. o + z - 1 THEN x ELSE expected[ino][p]]
  <2>1. z \in Nat /\ expected' = [expected EXCEPT ![ino] = file]
    BY <1>0, <1>5, <1>8, <1>9
  <2>2. file \in FileType
    BY <1>0, <1>5 DEF FileType
  <2>3. \A q \in Offsets : file[q] = IF q \in o .. o + z - 1 THEN x ELSE expected[ino][q]
    OBVIOUS
  <2> HIDE DEF file, z, ino, o
  <2>4. expected' \in [Inos -> FileType] /\ expected'[ino] = file
        /\ \A j \in Inos : j # ino => expected'[j] = expected[j]
    BY <1>0, <1>5, <2>1, <2>2
  <2> QED BY <2>3, <2>4 DEF Appended, z
<1>12. ASSUME Sound(mem, disk, expected), Calm'
       PROVE  /\ Sound(mem', disk', expected') /\ Files(disk) \subseteq Files(disk')
              /\ events' \subseteq {"remade"} /\ SizesRight(disk, expected) =>
                   SizesRight(disk', expected')
  <2>1. Calm /\ r.events \subseteq Tolerable
    BY <1>9, <1>12 DEF Calm
  <2>2. ino \in Files(disk)
    BY <1>9, <2>1 DEF Whole, OpenFiles
  <2>3. r.events \subseteq {"seek"} /\ (events' \subseteq {"remade"} => r.events = {})
    <3>1. r.events \in {{}, {"lost"}, FwriteEvents(disk, ino, o)}
      BY <1>7 DEF FwriteEnds
    <3>2. FwriteEvents(disk, ino, o) \subseteq {"beyond", "seek"}
      BY DEF FwriteEvents
    <3>3. r.events \subseteq {"lost", "beyond", "seek"}
      BY <3>1, <3>2
    <3> QED BY <1>9, <2>1, <3>3 DEF Tolerable
  <2> DEFINE ex == expected
             ey == expected'
  <2>4. /\ ex \in [Inos -> [Offsets -> Values \cup {Junk}]] /\ ey \in [Inos -> [Offsets -> Values \cup {Junk}]]
        /\ Appended(ex, ey, ino, o, r.n, x) /\ Sound(mem, disk, ex)
    BY <1>0, <1>11, <1>12 DEF FileType
  <2>5. o + n <= MaxOffset
    BY <1>9
  <2> HIDE DEF ex, ey, ino, o
  <2>6. /\ Sound(r.m, f, ey) /\ Files(f) = Files(disk)
        /\ r.events = {} /\ SizesRight(disk, ex) => SizesRight(f, ey)
    BY <1>0, <1>4, <1>6, <1>7, <2>2, <2>3, <2>4, <2>5, FwriteSound
  <2> QED BY <1>9, <2>3, <2>6 DEF ex, ey
<1>13. events \subseteq events'
  BY <1>9
<1> QED BY <1>2, <1>3, <1>10, <1>12, <1>13, DoneWhole

LEMMA NextWhole ==
  ASSUME Base, Whole, [Next]_vars
  PROVE  Whole'
<1>0. /\ disk \in DiskType /\ mem \in MemType /\ fd_array \in [Fds -> FdType]
      /\ expected \in [Inos -> FileType]
  BY DEF Base, Typed
<1>1. ASSUME NEW name, Call(name)
      PROVE  mounted /\ Sync(mem, disk)
  BY <1>1, CallReady DEF Call
<1>2. CASE UNCHANGED vars
  <2>1. /\ disk' = disk /\ mem' = mem /\ mounted' = mounted /\ expected' = expected
        /\ events' = events /\ fd_array_slist' = fd_array_slist /\ fd_array' = fd_array
    BY <1>2 DEF vars, fdVars
  <2>2. Calm' => OpenFiles'
    BY <2>1 DEF Whole, Calm, OpenFiles, IsOpen
  <2> QED BY <2>1, <2>2, SameWhole
<1>3. ASSUME NEW r, Done(r), mounted,
             Sound(mem, disk, expected) => CallSound(disk, r, expected, expected')
      PROVE  Whole'
  <2>1. /\ disk' = WrittenAll(disk, r.w) /\ mem' = r.m /\ events' = events \cup r.events
        /\ mounted' = mounted /\ fd_array_slist' = fd_array_slist /\ fd_array' = fd_array
    BY <1>3 DEF Done, fdVars
  <2>2. ASSUME Sound(mem, disk, expected), Calm'
        PROVE  /\ Sound(mem', disk', expected') /\ Files(disk) \subseteq Files(disk')
               /\ SizesRight(disk, expected) => SizesRight(disk', expected')
    <3>1. r.events \subseteq Tolerable
      BY <2>1, <2>2 DEF Calm
    <3> QED BY <1>3, <2>1, <2>2, <3>1 DEF CallSound, StaysSound
  <2> QED BY <1>3, <2>1, <2>2, DoneWhole
<1>4. CASE Mkdir
  <2>1. PICK s \in Names : Done(mkdir(mem, disk, s))
    BY <1>4 DEF Mkdir
  <2>2. Call("mkdir") /\ expected' = expected
    BY <1>4 DEF Mkdir
  <2> QED BY <1>0, <1>1, <1>3, <2>1, <2>2, MkdirKeeps
<1>5. CASE Rmdir
  <2>1. PICK s \in Names : Done(rmdir(mem, disk, s))
    BY <1>5 DEF Rmdir
  <2>2. Call("rmdir") /\ expected' = expected
    BY <1>5 DEF Rmdir
  <2> QED BY <1>0, <1>1, <1>3, <2>1, <2>2, RmdirKeeps
<1>6. CASE Touch
  <2>1. PICK s \in Names :
          LET r == touch(mem, disk, s)
          IN  /\ Done(r)
              /\ expected' = [i \in Inos |-> IF i \in r.m.imap \ mem.imap THEN BlankFile
                                             ELSE expected[i]]
    BY <1>6 DEF Touch
  <2>2. Call("touch")
    BY <1>6 DEF Touch
  <2> DEFINE r == touch(mem, disk, s)
  <2>3. Sound(mem, disk, expected) => CallSound(disk, r, expected, expected')
    BY <1>0, <1>1, <2>1, <2>2, TouchKeeps
  <2>4. Done(r)
    BY <2>1
  <2> HIDE DEF r
  <2> QED BY <1>1, <1>3, <2>2, <2>3, <2>4
<1>7. CASE CdFather
  <2>1. Done(cd_father(mem, disk)) /\ Call("cd") /\ expected' = expected
    BY <1>7 DEF CdFather
  <2> QED BY <1>0, <1>1, <1>3, <2>1, CdKeeps
<1>8. ASSUME NEW ino, Done(cd(mem, disk, ino)), Call("cd"), expected' = expected,
             Sound(mem, disk, expected) => ino \in {-1, Astray} \cup Imap(disk)
      PROVE  Whole'
  BY <1>0, <1>1, <1>3, <1>8, CdKeeps
<1>9. CASE CdName
  <2>1. PICK s \in Names : Done(cd(mem, disk, Lookup(mem.current_dir, s, -1)))
    BY <1>9 DEF CdName
  <2> DEFINE ino == Lookup(mem.current_dir, s, -1)
  <2>2. ASSUME Sound(mem, disk, expected) PROVE ino \in {-1, Astray} \cup Imap(disk)
    <3>1. PICK i : InDir(mem, disk, i)
      BY <2>2 DEF Sound
    <3>2. i \in Dirs(disk) /\ ino = Lookup(ReadDir(disk, DirBlock(disk, i)), s, -1)
      BY <3>1 DEF InDir
    <3>3. ino = -1 \/ ino \in Imap(disk)
      BY <1>0, <2>2, <3>2, LookupIn DEF Sound
    <3> QED BY <3>3
  <2>3. Call("cd") /\ expected' = expected
    BY <1>9 DEF CdName
  <2> QED BY <1>8, <2>1, <2>2, <2>3
<1>10. CASE CdPath
  <2>1. PICK n \in 0 .. 2 : \E path \in [1 .. n -> Names] : Done(cd(mem, disk, parse_path(disk, path)))
    BY <1>10 DEF CdPath
  <2>2. PICK path \in [1 .. n -> Names] : Done(cd(mem, disk, parse_path(disk, path)))
    BY <2>1
  <2>3. path \in Seq(Names)
    BY <2>1, <2>2
  <2>4. ASSUME Sound(mem, disk, expected) PROVE parse_path(disk, path) \in {-1, Astray} \cup Imap(disk)
    BY <1>0, <2>3, <2>4, PathIn DEF Sound
  <2>5. Call("cd") /\ expected' = expected
    BY <1>10 DEF CdPath
  <2> QED BY <1>8, <2>2, <2>4, <2>5
<1>11. CASE Fopen
  BY <1>11, FopenWhole
<1>12. CASE Fclose
  <2>1. PICK fd \in Fds :
          fd_array_slist' = slist_free(fd_array_slist, fd + 1, FD_ARRAY_SIZE + 1)
    BY <1>12 DEF Fclose
  <2>2. /\ disk' = disk /\ mem' = mem /\ mounted' = mounted /\ expected' = expected
        /\ events' = events /\ fd_array' = fd_array
    BY <1>12 DEF Fclose
  <2> DEFINE n == FD_ARRAY_SIZE + 1
             a == fd_array_slist
             b == slist_free(a, fd + 1, n)
             t == fd + 1
  <2>3. n \in Nat \ {0} /\ a \in SlistType(n) /\ SlistShape(a, n) /\ fd + 1 \in Int
        /\ \A k \in Fds : k + 1 \in 1 .. n - 1
    BY Consts DEF Base, Typed, Fds
  <2>4. fd_array_slist' = b
    BY <2>1
  <2> HIDE DEF n, a
  <2>5. \A i \in 1 .. n - 1 : b[i].valid = IF i = t THEN 0 ELSE a[i].valid
    BY <2>3, FreeShape
  <2> HIDE DEF b, t
  <2>6. ASSUME Calm', NEW k \in Fds, fd_array_slist'[k + 1].valid = 1
        PROVE  fd_array'[k].ino \in Files(disk')
    <3>1. a[k + 1].valid = 1
      <4>1. b[k + 1].valid = 1 /\ k + 1 \in 1 .. n - 1
        BY <2>3, <2>4, <2>6
      <4> QED BY <2>5, <4>1
    <3>2. OpenFiles
      BY <2>2, <2>6 DEF Whole, Calm
    <3> QED BY <2>2, <3>1, <3>2 DEF OpenFiles, IsOpen, a
  <2> QED BY <2>2, <2>6, SameWhole DEF OpenFiles, IsOpen
<1>13. ASSUME NEW fd \in Fds, NEW o, fd_array' = [fd_array EXCEPT ![fd].offset = o],
              disk' = disk, mem' = mem, mounted' = mounted, expected' = expected, events' = events,
              fd_array_slist' = fd_array_slist
       PROVE  Whole'
  <2>1. \A k \in Fds : fd_array'[k].ino = fd_array[k].ino
    BY <1>0, <1>13 DEF FdType
  <2>2. ASSUME Calm' PROVE OpenFiles'
    <3>1. OpenFiles
      BY <1>13, <2>2 DEF Whole, Calm
    <3> QED BY <1>13, <2>1, <3>1 DEF OpenFiles, IsOpen
  <2> QED BY <1>13, <2>2, SameWhole
<1>14. CASE Fseek
  <2>1. PICK fd \in Fds, o \in Offsets : fd_array' = [fd_array EXCEPT ![fd].offset = o]
    BY <1>14 DEF Fseek
  <2> QED BY <1>13, <1>14, <2>1 DEF Fseek
<1>15. CASE Fread
  <2>1. PICK fd \in Fds, n \in Sizes :
          LET rest == fd_array[fd].size - fd_array[fd].offset
              total == IF rest >= 0 /\ rest < n THEN rest ELSE n
          IN  fd_array' = [fd_array EXCEPT ![fd].offset = @ + total]
    BY <1>15 DEF Fread
  <2> DEFINE rest == fd_array[fd].size - fd_array[fd].offset
             total == IF rest >= 0 /\ rest < n THEN rest ELSE n
  <2> HIDE DEF total
  <2>2. fd_array' = [fd_array EXCEPT ![fd].offset = fd_array[fd].offset + total]
    BY <1>0, <2>1 DEF total
  <2> QED BY <1>13, <1>15, <2>2 DEF Fread
<1>16. CASE Fwrite
  BY <1>16, FwriteWhole
<1>17. CASE Mkfs
  <2>1. disk' \in DiskType /\ Fresh(disk') /\ mounted' = FALSE
    BY <1>0, <1>17, MkfsDone DEF Mkfs
  <2>2. TreeOn(disk') /\ SpaceOn(disk') /\ Contents(disk', expected') /\ SizesRight(disk', expected')
    BY <2>1, FreshWhole
  <2>3. ASSUME Calm' PROVE OpenFiles'
    <3>1. "alias" \notin events'
      BY <2>3 DEF Calm, Tolerable
    <3>2. \A fd \in Fds : ~ IsOpen(fd)
      BY <1>17, <3>1 DEF Mkfs
    <3>3. fd_array_slist' = fd_array_slist
      BY <1>17 DEF Mkfs, fdVars
    <3> QED BY <3>2, <3>3 DEF OpenFiles, IsOpen
  <2> QED BY <2>1, <2>2, <2>3 DEF Whole
<1>18. CASE Mount
  <2>1. disk' = disk /\ fd_array_slist' = fd_array_slist /\ fd_array' = fd_array /\ expected' = expected
    BY <1>18 DEF Mount, fdVars
  <2>2. Calm => OpenFiles'
    BY <2>1 DEF Whole, OpenFiles, IsOpen
  <2>3. CASE mem' = mount(disk) /\ events' = events
    BY <2>1, <2>2, <2>3, BootWhole
  <2>4. CASE events' = events \cup {"lost"}
    BY <2>4 DEF Whole, Calm, Tolerable
  <2> QED BY <1>18, <2>3, <2>4 DEF Mount
<1>19. CASE Unmounted
  <2>1. "lost" \in events'
    BY <1>19 DEF Unmounted
  <2> QED BY <2>1 DEF Whole, Calm, Tolerable
<1>20. CASE PowerFailure
  <2>1. CASE CutShort(<<>>, {})
    <3>1. WrittenAll(disk, <<>>) = disk
      BY WriteNone
    <3>2. /\ disk' = disk /\ expected' = expected /\ fd_array_slist' = slist_init(FD_ARRAY_SIZE + 1)
          /\ \/ mem' = mount(disk) /\ events' = events
             \/ events' = events \cup {"lost"}
      BY <2>1, <3>1 DEF CutShort
    <3>3. OpenFiles'
      BY <3>2, NoneOpen DEF OpenFiles, IsOpen
    <3>4. CASE mem' = mount(disk) /\ events' = events
      BY <3>2, <3>3, <3>4, BootWhole
    <3>5. CASE events' = events \cup {"lost"}
      BY <3>5 DEF Whole, Calm, Tolerable
    <3> QED BY <3>2, <3>4, <3>5
  <2>2. ASSUME NEW w, NEW event, event \in {"torn", "torn_rmdir"}, CutShort(w, {event})
        PROVE  Whole'
    <3>1. event \in events' \/ "lost" \in events'
      BY <2>2 DEF CutShort
    <3> QED BY <2>2, <3>1 DEF Whole, Calm, Tolerable
  <2> QED BY <1>20, <2>1, <2>2 DEF PowerFailure
<1> QED BY <1>2, <1>4, <1>5, <1>6, <1>7, <1>9, <1>10, <1>11, <1>12, <1>14, <1>15, <1>16, <1>17,
           <1>18, <1>19, <1>20 DEF Next

\* The whole inductive invariant: what always holds, and what holds as long as
\* nothing happened that kernel/fs/fs.c does not cope with.
THEOREM FsWhole == Spec => [](Base /\ Whole)
<1>1. Init => Base /\ Whole
  BY InitBase, InitWhole
<1>2. Base /\ Whole /\ [Next]_vars => (Base /\ Whole)'
  BY NextBase, NextWhole
<1> QED BY <1>1, <1>2, PTL DEF Spec

LEMMA WholeTree ==
  ASSUME Base, Whole
  PROVE  TreeOK /\ BlocksOK
<1> SUFFICES ASSUME Unharmed
             PROVE  TreeOK /\ BlocksOK
  BY DEF TreeOK, BlocksOK
<1>1. TreeOn(disk) /\ SpaceOn(disk) /\ disk \in DiskType
  BY DEF Whole, Calm, Tolerable, Unharmed, Base, Typed
<1>2. TreeOK
  BY <1>1, TreeIsOK DEF TreeOK
<1>3. BlocksOK
  BY <1>1, SpaceBlocks DEF BlocksOK
<1> QED BY <1>2, <1>3

LEMMA WholeCache ==
  ASSUME Base, Whole
  PROVE  CacheOK
<1> SUFFICES ASSUME Running, mounted
             PROVE  /\ mem.super_block = disk.super[0] /\ mem.imap = Imap(disk)
                    /\ mem.smap_index < SMAP_SECTORS => mem.smap = disk.smap[mem.smap_index]
                    /\ Unharmed => /\ mem.current_dir_pointer \in DirBlocks(disk)
                                   /\ mem.current_dir = ReadDir(disk, mem.current_dir_pointer)
  BY DEF CacheOK
<1>1. Sync(mem, disk)
  BY DEF Base, Synced
<1>2. ASSUME Unharmed
      PROVE  /\ mem.current_dir_pointer \in DirBlocks(disk)
             /\ mem.current_dir = ReadDir(disk, mem.current_dir_pointer)
  <2>1. PICK i : InDir(mem, disk, i)
    BY <1>2 DEF Whole, Calm, Tolerable, Unharmed
  <2> QED BY <2>1 DEF InDir, DirBlocks
<1> QED BY <1>1, <1>2 DEF Sync, Imap

LEMMA WholeFiles ==
  ASSUME Base, Whole
  PROVE  FilesOK
<1>0. disk \in DiskType
  BY DEF Base, Typed
<1>1. ASSUME Unharmed, NEW i \in Files(disk), NEW o \in Offsets, expected[i][o] # Junk
      PROVE  disk.darray[offset_to_pointer(Inode(disk, i), o)].bytes[(o % SECTOR_SIZE) + 1]
               = expected[i][o]
  <2>1. Stands(disk, i, o, expected[i][o])
    BY <1>1 DEF Whole, Calm, Tolerable, Unharmed, Contents
  <2>2. offset_to_pointer(Inode(disk, i), o) = Inode(disk, i).pointers[o \div SECTOR_SIZE]
    <3>1. offset_to_pointer(Inode(disk, i), o) = PointerAt(Inode(disk, i), o \div SECTOR_SIZE)
      BY PointerIs
    <3> QED BY <2>1, <3>1 DEF PointerAt, Stands
  <2> QED BY <2>1, <2>2 DEF Stands, DataAt
<1>2. ASSUME mounted, events \subseteq {"remade"}, NEW i \in Files(disk)
      PROVE  Inode(disk, i).size = Cardinality({o \in Offsets : expected[i][o] # Junk})
  <2> DEFINE n == Inode(disk, i).size
  <2>1. SizesRight(disk, expected)
    BY <1>2 DEF Whole, Calm, Tolerable
  <2>2. {o \in Offsets : expected[i][o] # Junk} = 0 .. n - 1
    BY <2>1 DEF SizesRight, WrittenTo
  <2>3. Inode(disk, i) \in InodeType
    BY <1>0, Sorts, InodeIn
  <2>4. n \in Nat
    BY <2>3 DEF InodeType
  <2> HIDE DEF n
  <2>5. Cardinality(0 .. n - 1) = n
    <3>1. 0 \in Int /\ n - 1 \in Int
      BY <2>4
    <3>2. Cardinality(0 .. n - 1) = IF 0 > n - 1 THEN 0 ELSE (n - 1) - 0 + 1
      BY <3>1, FS_Interval
    <3> QED BY <2>4, <3>2
  <2> QED BY <2>2, <2>5 DEF n
<1> QED BY <1>1, <1>2 DEF FilesOK

\* For every disk and every sequence of calls: the directories on the disk form
\* a tree and imap is what it contains, whatever mkdir, touch, rmdir and cd have
\* left in memory for one another (kernel/fs/fs.c).
THEOREM FsTree == Spec => []TreeOK
<1>1. Base /\ Whole => TreeOK
  BY WholeTree
<1> QED BY <1>1, FsWhole, PTL

\* For every disk: a data block is in one file or directory, once, or free in
\* smap, and the super block counts the inodes and the blocks, though only one
\* sector of smap is in memory (darray_alloc, darray_free, fwrite).
THEOREM FsBlocks == Spec => []BlocksOK
<1>1. Base /\ Whole => BlocksOK
  BY WholeTree
<1> QED BY <1>1, FsWhole, PTL

\* For every disk: the kernel's copies of the super block, imap and smap are
\* what is on the disk after each call, and the current directory is a
\* directory of the tree and as it is on the disk.
THEOREM FsCache == Spec => []CacheOK
<1>1. Base /\ Whole => CacheOK
  BY WholeCache
<1> QED BY <1>1, FsWhole, PTL

\* For every sector size and all calls of fwrite: a file contains what has been
\* written to it, through any descriptors, and its size is right if it was only
\* appended to (fwrite, kernel/fs/fs.c).
THEOREM FsFiles == Spec => []FilesOK
<1>1. Base /\ Whole => FilesOK
  BY WholeFiles
<1> QED BY <1>1, FsWhole, PTL

=============================================================================
