---------------------------- MODULE MemoryProofs ----------------------------
(***************************************************************************)
(* Virtual memory for any number of tasks, frames, page tables and slots:  *)
(* the TLB maps only what the page tables do, the shell and io_proc never  *)
(* wait for a page, and, as long as no two faults that need a frame        *)
(* overlap, frames and slots have one page each and no page loses its      *)
(* contents on the way to the swap area and back.                          *)
(*                                                                         *)
(* The proofs see the page tables through IsMapped and Pte: the lemmas of  *)
(* the first part say how each step changes these.                         *)
(***************************************************************************)
EXTENDS Memory, SlistOpsProofs

Walked(p, v) == page_dir[p][v[1]].valid = 1
IsMapped(p, v) == Walked(p, v) /\ Pte(p, v).valid = 1
IsPresent(p, v) == IsMapped(p, v) /\ Pte(p, v).present = 1

\* A page that has been swapped out.
Away(p, v) == IsMapped(p, v) /\ Pte(p, v).present = 0

\* The frames without "frame -1".
RealFrames == 0 .. PM_SLIST_SIZE - 2

-----------------------------------------------------------------------------
\* The conjuncts of TypeOK, and what else is needed of the same variables.

SchedTypes ==
  /\ current_running \in Pids /\ panic \in 0 .. 1 /\ removed \subseteq Tasks
  /\ boosted \subseteq Tasks
  /\ in \in [Pids -> Sems \cup {"ready", "none"}]

ListTypes ==
  /\ pid_list \in SlistType(MAX_TASK_NUM) /\ SlistShape(pid_list, MAX_TASK_NUM)
  /\ pm_slist \in SlistType(PM_SLIST_SIZE) /\ SlistShape(pm_slist, PM_SLIST_SIZE)
  /\ pt_pool_slist \in SlistType(PT_SLIST_SIZE) /\ SlistShape(pt_pool_slist, PT_SLIST_SIZE)
  /\ swap_area_slist \in SlistType(SWAP_AREA_SIZE) /\ SlistShape(swap_area_slist, SWAP_AREA_SIZE)

Pde0 == [valid : 0 .. 1, pool_num : Pool]
DirType == [Pids -> [0 .. PDE_NUMBER - 1 -> Pde0]]
PoolType == [Pool -> [0 .. PTE_NUMBER - 1 -> Pte0]]
OwnerType == [pid : Pids, vpn : Pages]

TableTypes ==
  pm_owner \in [Frames -> OwnerType] /\ page_dir \in DirType /\ page_table_pool \in PoolType

Entry == [pid : Tasks, vpn : Pages, frame : Frames, valid : 0 .. 1]

TlbTypes == tlb \subseteq Entry /\ IsFiniteSet(tlb) /\ Cardinality(tlb) <= TLB_ENTRY_NUMBER

RequestType == [type : {"READ", "WRITE"}, frame : Frames, slot : Slots]

IoType == [pc : {"init", "down", "fetch", "fill", "drain", "up"},
           req : RequestType, indexbuf : Values]

IoTypes == sem \in [Sems -> Int] /\ io_task \in RequestType /\ io \in IoType

DataTypes ==
  /\ mem \in [Frames -> Values] /\ swap \in [Slots -> Values]
  /\ expected \in [Users -> [Pages -> Values]] /\ raced \in BOOLEAN

FaultType == [at : {"user", "walk", "out", "frame", "in", "write"}, vpn : Pages,
              refill : 0 .. 1, victim : Pids, frame : Frames, slot : Slots]

FaultTypes == fault \in [Pids -> FaultType]

Types == /\ SchedTypes /\ ListTypes /\ TableTypes /\ TlbTypes /\ IoTypes /\ DataTypes
         /\ FaultTypes

\* They imply TypeOK.
LEMMA TypesImply == Types => TypeOK
BY DEF Types, SchedTypes, ListTypes, TableTypes, TlbTypes, IoTypes, DataTypes, FaultTypes,
       TypeOK, DirType, PoolType, OwnerType, Pde0, Entry, RequestType, IoType, FaultType

\* What the assumption says of the sets of the model.
LEMMA Constants ==
  /\ Stack \in Pages /\ Shell \in Tasks /\ IoProc \in Tasks /\ Shell # IoProc
  /\ 0 \notin Tasks /\ Pids = Tasks \cup {0} /\ Users \subseteq Tasks
  /\ 0 \in Pids /\ 0 \in Pool /\ 0 \in Slots
  /\ RealFrames \subseteq Frames /\ Frames = RealFrames \cup {-1} /\ 0 \in Frames
  /\ Frames \subseteq Int /\ RealFrames \subseteq Nat /\ Slots \subseteq Nat
  /\ MAX_TASK_NUM \in Nat \ {0} /\ PM_SLIST_SIZE \in Nat \ {0} /\ PT_SLIST_SIZE \in Nat \ {0}
  /\ SWAP_AREA_SIZE \in Nat \ {0}
<1>1. PDE_NUMBER - 1 \in 0 .. PDE_NUMBER - 1 /\ PTE_NUMBER - 1 \in 0 .. PTE_NUMBER - 1
  BY MemoryAssumption
<1> QED BY <1>1, MemoryAssumption DEF Stack, Pages, Shell, IoProc, Tasks, Pids, Users, Pool,
          Slots, Frames, RealFrames

\* A page is the pair of its parts.
LEMMA PagesPairs ==
  ASSUME NEW v \in Pages
  PROVE  /\ v[1] \in 0 .. PDE_NUMBER - 1 /\ v[2] \in 0 .. PTE_NUMBER - 1
         /\ \A w \in Pages : v[1] = w[1] /\ v[2] = w[2] => v = w
BY DEF Pages

\* The contents of an empty machine.
LEMMA BootTypes ==
  /\ BootValue \in Values /\ Idle \in FaultType /\ NoRequest \in RequestType
  /\ EmptyPde \in Pde0 /\ EmptyPte \in Pte0
  /\ Idle.at = "user" /\ Idle.vpn = Stack
<1>1. BootValue \in Values
  BY MemoryAssumption DEF BootValue
<1>2. Idle \in FaultType /\ Idle.at = "user" /\ Idle.vpn = Stack
  BY Constants DEF Idle, FaultType
<1>3. NoRequest \in RequestType
  BY Constants DEF NoRequest, RequestType
<1>4. EmptyPde \in Pde0 /\ EmptyPte \in Pte0
  BY Constants DEF EmptyPde, EmptyPte, Pde0, Pte0
<1> QED BY <1>1, <1>2, <1>3, <1>4

-----------------------------------------------------------------------------
\* Free lists and scheduling.

\* The list l becomes m when r is taken from it, or r = 0 because it is empty.
Allocated(l, m, len, r) ==
  /\ m \in SlistType(len) /\ SlistShape(m, len) /\ r \in 0 .. len - 1
  /\ r = 0 <=> slist_is_insufficient(l)
  /\ r = 0 => m = l /\ \A i \in 1 .. len - 1 : l[i].valid = 1
  /\ r # 0 => /\ l[r].valid = 0
              /\ \A i \in 1 .. len - 1 : m[i].valid = IF i = r THEN 1 ELSE l[i].valid

\* The list l becomes m when x is given back.
Freed(l, m, len, x) ==
  /\ m \in SlistType(len) /\ SlistShape(m, len)
  /\ \A i \in 1 .. len - 1 : m[i].valid = IF i = x THEN 0 ELSE l[i].valid
  /\ x \in 1 .. len - 1 /\ l[x].valid = 1 => ~ slist_is_insufficient(m)

\* What slist_alloc does to a list of the right shape.
LEMMA ListAlloc ==
  ASSUME NEW len \in Nat \ {0}, NEW l \in SlistType(len), SlistShape(l, len),
         NEW m, m = slist_alloc(l), NEW r, r = slist_alloc_ret(l)
  PROVE  Allocated(l, m, len, r)
<1>1. r = 0 <=> slist_is_insufficient(l)
  BY DEF slist_alloc_ret, slist_is_insufficient
<1> QED BY <1>1, AllocShape, Zenon DEF Allocated

\* What slist_free does to it.
LEMMA ListFree ==
  ASSUME NEW len \in Nat \ {0}, NEW l \in SlistType(len), SlistShape(l, len), NEW x \in Int,
         NEW m, m = slist_free(l, x, len)
  PROVE  Freed(l, m, len, x)
<1>1. ASSUME x \in 1 .. len - 1, l[x].valid = 1 PROVE ~ slist_is_insufficient(m)
  <2>1. slist_is_valid(l, x, len)
    BY <1>1 DEF slist_is_valid
  <2>2. m = [l EXCEPT ![0].cursor = x, ![x] = [cursor |-> l[0].cursor, valid |-> 0]]
    BY <2>1 DEF slist_free
  <2>3. 0 \in 0 .. len - 1 /\ x \in 0 .. len - 1 /\ x # 0
    BY <1>1
  <2>4. m[0].cursor = x
    BY <2>2, <2>3 DEF SlistType, SlistNode
  <2> QED BY <2>3, <2>4 DEF slist_is_insufficient
<1>2. /\ m \in SlistType(len) /\ SlistShape(m, len)
      /\ \A i \in 1 .. len - 1 : m[i].valid = IF i = x THEN 0 ELSE l[i].valid
  <2>1. LET b == slist_free(l, x, len)
        IN  /\ b \in SlistType(len) /\ SlistShape(b, len)
            /\ \A i \in 1 .. len - 1 : b[i].valid = IF i = x THEN 0 ELSE l[i].valid
    BY FreeShape, Zenon
  <2> QED BY <2>1, Zenon
<1> QED BY <1>1, <1>2 DEF Freed

\* scheduler() selects a task of the ready queue, or the kernel stops.
LEMMA SwitchStep ==
  ASSUME SchedTypes, removed' \subseteq Tasks, NEW b, b \subseteq Tasks, SwitchTask(b),
         in' \in [Pids -> Sems \cup {"ready", "none"}]
  PROVE  /\ SchedTypes'
         /\ \/ /\ panic' = panic /\ current_running' \in Tasks
               /\ in'[current_running'] = "ready" /\ current_running' \notin removed'
            \/ panic' = 1 /\ current_running' = current_running
<1> DEFINE ready == InQueue("ready", in', removed')
<1>1. ready = {p \in Tasks : in'[p] = "ready" /\ p \notin removed'}
  BY DEF InQueue
<1>2. CASE ready = {}
  <2>1. panic' = 1 /\ boosted' = b /\ current_running' = current_running
    BY <1>2 DEF SwitchTask
  <2> QED BY <2>1 DEF SchedTypes
<1>3. CASE ready # {}
  <2>1. /\ current_running' \in IF ready \cap b # {} THEN ready \cap b ELSE ready
        /\ boosted' = b \ {current_running'} /\ panic' = panic
    BY <1>3 DEF SwitchTask
  <2>2. current_running' \in ready
    BY <2>1
  <2>3. current_running' \in Tasks
    BY <1>1, <2>2
  <2> QED BY <1>1, <2>1, <2>2, <2>3, Constants DEF SchedTypes
<1> QED BY <1>2, <1>3

\* What do_semaphore_down(s) does after w have been woken.
Downed(s, w) ==
  /\ SchedTypes'
  /\ \A p \in Tasks : in'[p] = IF p = Current /\ sem[s] < 1 THEN s
                               ELSE IF p \in w THEN "ready" ELSE in[p]
  /\ \/ panic' = 0 /\ current_running' = Current /\ ~ (sem[s] < 1)
     \/ /\ panic' = 0 /\ current_running' \in Tasks
        /\ in'[current_running'] = "ready" /\ current_running' \notin removed'
     \/ panic' = 1 /\ current_running' = Current

\* SemDown is that.
LEMMA DownStep ==
  ASSUME SchedTypes, IoTypes, Current \in Tasks, panic = 0, NEW s \in Sems,
         NEW w, w \subseteq Tasks, removed' \subseteq Tasks, SemDown(s, w)
  PROVE  Downed(s, w)
<1> DEFINE c == Current
           m == InAfter(w)
<1>1. sem[s] \in Int /\ c \in Tasks /\ c \in Pids
  BY Constants DEF IoTypes
<1>2. /\ m \in [Pids -> Sems \cup {"ready", "none"}]
      /\ \A p \in Tasks : m[p] = IF p \in w THEN "ready" ELSE in[p]
  BY Constants DEF InAfter, SchedTypes
<1> HIDE DEF c, m
<1>3. CASE sem[s] < 1
  <2>1. in' = [m EXCEPT ![c] = s] /\ SwitchTask(boosted \cup w)
    BY <1>1, <1>3 DEF SemDown, c, m
  <2>2. in' \in [Pids -> Sems \cup {"ready", "none"}]
    BY <1>1, <1>2, <2>1
  <2>3. boosted \cup w \subseteq Tasks
    BY DEF SchedTypes
  <2>4. /\ SchedTypes'
        /\ \/ /\ panic' = panic /\ current_running' \in Tasks
              /\ in'[current_running'] = "ready" /\ current_running' \notin removed'
           \/ panic' = 1 /\ current_running' = current_running
    BY <2>1, <2>2, <2>3, SwitchStep
  <2>5. \A p \in Tasks : in'[p] = IF p = c THEN s ELSE m[p]
    BY <1>2, <2>1, Constants
  <2> QED BY <1>2, <1>3, <2>4, <2>5 DEF Downed, Current, c
<1>4. CASE ~ (sem[s] < 1)
  <2>1. /\ in' = m /\ boosted' = boosted \cup w
        /\ current_running' = current_running /\ panic' = panic
    BY <1>1, <1>4 DEF SemDown, m
  <2>2. SchedTypes'
    BY <1>2, <2>1 DEF SchedTypes
  <2> QED BY <1>2, <1>4, <2>1, <2>2 DEF Downed, Current, c
<1> QED BY <1>3, <1>4

\* The tasks that do_semaphore_up wakes wait for it.
LEMMA WokenTasks ==
  ASSUME NEW s, NEW r, NEW w \in Woken(s, r)
  PROVE  w \subseteq Tasks /\ \A p \in w : in[p] = s /\ p \notin r
BY DEF Woken, InQueue

-----------------------------------------------------------------------------
\* Page tables.

\* A page table belongs to one entry of one page directory, of a task that
\* has been started, and is not free.
Tables ==
  /\ \A p \in Pids, d \in 0 .. PDE_NUMBER - 1 : page_dir[p][d].valid = 1 =>
       /\ p \in Tasks /\ pid_list[p].valid = 1
       /\ pt_pool_slist[page_dir[p][d].pool_num + 1].valid = 1
  /\ \A p, q \in Pids, d, e \in 0 .. PDE_NUMBER - 1 :
       /\ page_dir[p][d].valid = 1 /\ page_dir[q][e].valid = 1
       /\ page_dir[p][d].pool_num = page_dir[q][e].pool_num
       => p = q /\ d = e

\* The same pages are mapped, in the same way.
SameMap ==
  \A p \in Pids, v \in Pages :
    /\ Walked(p, v) => Walked(p, v)'
    /\ IsMapped(p, v)' <=> IsMapped(p, v)
    /\ IsMapped(p, v) => Pte(p, v)' = Pte(p, v)

\* The page w of q has the entry pte, and the others are as they were.
SetMap(q, w, pte) ==
  \A p \in Pids, v \in Pages :
    /\ Walked(p, v) => Walked(p, v)'
    /\ IsMapped(p, v)' <=> IsMapped(p, v) \/ (p = q /\ v = w)
    /\ IsMapped(p, v)' => Pte(p, v)' = IF p = q /\ v = w THEN pte ELSE Pte(p, v)

\* Nothing happens to the tables.
LEMMA SameTables ==
  ASSUME Tables, UNCHANGED <<page_dir, page_table_pool, pt_pool_slist>>,
         \A p \in Tasks : pid_list[p].valid = 1 => pid_list'[p].valid = 1
  PROVE  Tables' /\ SameMap
BY DEF Tables, SameMap, Walked, IsMapped, Pte

\* An entry has the type of an entry.
LEMMA PteType ==
  ASSUME TableTypes, NEW p \in Pids, NEW v \in Pages
  PROVE  /\ page_dir[p][v[1]].pool_num \in Pool /\ Pte(p, v) \in Pte0
         /\ Pte(p, v).valid \in 0 .. 1 /\ Pte(p, v).present \in 0 .. 1
         /\ Pte(p, v).addr \in Frames \cup Slots
<1>1. page_dir[p] \in [0 .. PDE_NUMBER - 1 -> Pde0]
  BY DEF TableTypes, DirType
<1>2. page_dir[p][v[1]] \in Pde0
  BY <1>1, PagesPairs
<1>3. page_dir[p][v[1]].pool_num \in Pool
  BY <1>2 DEF Pde0
<1>4. page_table_pool[page_dir[p][v[1]].pool_num] \in [0 .. PTE_NUMBER - 1 -> Pte0]
  BY <1>3 DEF TableTypes, PoolType
<1>5. Pte(p, v) \in Pte0
  BY <1>4, PagesPairs DEF Pte
<1> QED BY <1>3, <1>5 DEF Pte0

\* One entry of a table is written.
LEMMA WritePte ==
  ASSUME TableTypes, Tables, NEW q \in Tasks, NEW w \in Pages, Walked(q, w),
         NEW pte \in Pte0, pte.valid = 1, NEW n, n = page_dir[q][w[1]].pool_num,
         page_table_pool' = [page_table_pool EXCEPT ![n][w[2]] = pte],
         UNCHANGED <<page_dir, pt_pool_slist, pid_list>>
  PROVE  page_table_pool' \in PoolType /\ Tables' /\ SetMap(q, w, pte)
<1>1. q \in Pids /\ n \in Pool /\ w[1] \in 0 .. PDE_NUMBER - 1 /\ w[2] \in 0 .. PTE_NUMBER - 1
  BY Constants, PteType, PagesPairs
<1>2. page_table_pool \in [Pool -> [0 .. PTE_NUMBER - 1 -> Pte0]]
  BY DEF TableTypes, PoolType
<1>3. page_table_pool' \in PoolType
  BY <1>1, <1>2 DEF PoolType
<1>4. Tables'
  BY DEF Tables
<1>5. \A m \in Pool, t \in 0 .. PTE_NUMBER - 1 :
        page_table_pool'[m][t] = IF m = n /\ t = w[2] THEN pte ELSE page_table_pool[m][t]
  BY <1>1, <1>2
<1>6. ASSUME NEW p \in Pids, NEW v \in Pages
      PROVE  /\ Walked(p, v)' <=> Walked(p, v)
             /\ Walked(p, v) => Pte(p, v)' = IF p = q /\ v = w THEN pte ELSE Pte(p, v)
  <2>1. Walked(p, v)' <=> Walked(p, v)
    BY DEF Walked
  <2>2. ASSUME Walked(p, v)
        PROVE  Pte(p, v)' = IF p = q /\ v = w THEN pte ELSE Pte(p, v)
    <3> DEFINE m == page_dir[p][v[1]].pool_num
    <3>1. m \in Pool /\ v[1] \in 0 .. PDE_NUMBER - 1 /\ v[2] \in 0 .. PTE_NUMBER - 1
      BY PteType, PagesPairs
    <3>2. m = n <=> p = q /\ v[1] = w[1]
      BY <1>1, <2>2, <3>1 DEF Tables, Walked
    <3>3. v = w <=> v[1] = w[1] /\ v[2] = w[2]
      BY PagesPairs
    <3>4. Pte(p, v) = page_table_pool[m][v[2]] /\ Pte(p, v)' = page_table_pool'[m][v[2]]
      BY DEF Pte
    <3> HIDE DEF m
    <3> QED BY <1>5, <3>1, <3>2, <3>3, <3>4
  <2> QED BY <2>1, <2>2
<1>7. SetMap(q, w, pte)
  BY <1>1, <1>6 DEF SetMap, IsMapped
<1> QED BY <1>3, <1>4, <1>7

\* The record that describes a page.
PteOf(a, b) == [valid |-> 1, present |-> a, addr |-> b]

\* Such an entry is one of a page table.
LEMMA PteRecord ==
  ASSUME NEW a \in 0 .. 1, NEW b \in Frames \cup Slots
  PROVE  /\ PteOf(a, b) \in Pte0 /\ PteOf(a, b).valid = 1
         /\ PteOf(a, b).present = a /\ PteOf(a, b).addr = b
         /\ \A e \in Pte0 : e.valid = 1 => [[e EXCEPT !.present = a] EXCEPT !.addr = b] = PteOf(a, b)
<1> DEFINE A == Frames \cup Slots
           v == 1
<1>1. v \in 0 .. 1 /\ b \in A
  OBVIOUS
<1> HIDE DEF A, v
<1>2. [valid |-> v, present |-> a, addr |-> b] \in [valid : 0 .. 1, present : 0 .. 1, addr : A]
  BY <1>1
<1>3. ASSUME NEW e \in [valid : 0 .. 1, present : 0 .. 1, addr : A], e.valid = v
      PROVE  [[e EXCEPT !.present = a] EXCEPT !.addr = b] = [valid |-> v, present |-> a, addr |-> b]
  <2> DEFINE g == [valid |-> v, present |-> a, addr |-> e.addr]
  <2>1. [e EXCEPT !.present = a] = g
    BY <1>3
  <2>2. [g EXCEPT !.addr = b] = [valid |-> v, present |-> a, addr |-> b]
    OBVIOUS
  <2> QED BY <2>1, <2>2
<1> QED BY <1>2, <1>3 DEF Pte0, PteOf, A, v

\* swap_out and swap_in write two fields of the entry of a page.
LEMMA WriteFields ==
  ASSUME TableTypes, Tables, NEW q \in Tasks, NEW w \in Pages, IsMapped(q, w),
         NEW a \in 0 .. 1, NEW b \in Frames \cup Slots, NEW n, n = page_dir[q][w[1]].pool_num,
         page_table_pool' = [page_table_pool EXCEPT ![n][w[2]].present = a, ![n][w[2]].addr = b],
         UNCHANGED <<page_dir, pt_pool_slist, pid_list>>
  PROVE  page_table_pool' \in PoolType /\ Tables' /\ SetMap(q, w, PteOf(a, b))
<1> DEFINE t == w[2]
           old == page_table_pool
<1>1. PteOf(a, b) \in Pte0 /\ PteOf(a, b).valid = 1
  BY PteRecord
<1>2. Walked(q, w) /\ old[n][t] \in Pte0 /\ old[n][t].valid = 1
  BY PteType, Constants DEF IsMapped, Pte
<1>3. n \in Pool /\ t \in 0 .. PTE_NUMBER - 1 /\ old \in [Pool -> [0 .. PTE_NUMBER - 1 -> Pte0]]
  BY PteType, PagesPairs, Constants DEF TableTypes, PoolType
<1>4. \A e \in Pte0 : e.valid = 1 => [[e EXCEPT !.present = a] EXCEPT !.addr = b] = PteOf(a, b)
  BY PteRecord, Zenon
<1> HIDE DEF t, old
<1>5. [old EXCEPT ![n][t].present = a, ![n][t].addr = b]
        = [old EXCEPT ![n][t] = [[old[n][t] EXCEPT !.present = a] EXCEPT !.addr = b]]
  BY <1>3
<1>6. page_table_pool' = [page_table_pool EXCEPT ![n][w[2]] = PteOf(a, b)]
  BY <1>2, <1>4, <1>5 DEF t, old
<1> QED BY <1>1, <1>2, <1>6, WritePte

\* Initialising a table makes all its entries invalid.
LEMMA InitTable ==
  ASSUME NEW pt \in [0 .. PTE_NUMBER - 1 -> Pte0]
  PROVE  /\ page_table_init(pt) \in [0 .. PTE_NUMBER - 1 -> Pte0]
         /\ \A t \in 0 .. PTE_NUMBER - 1 : page_table_init(pt)[t].valid = 0
BY DEF page_table_init, Pte0

\* TLB_exception_helper takes a new page table for an entry of a directory.
LEMMA NewTable ==
  ASSUME TableTypes, ListTypes, Tables, NEW q \in Tasks, pid_list[q].valid = 1,
         NEW d \in 0 .. PDE_NUMBER - 1, page_dir[q][d].valid = 0,
         NEW r, r = pt_pool_alloc, r # -1,
         pt_pool_slist' = slist_alloc(pt_pool_slist),
         page_dir' = [page_dir EXCEPT ![q][d] = [valid |-> 1, pool_num |-> r]],
         page_table_pool' = [page_table_pool EXCEPT ![r] = page_table_init(@)],
         UNCHANGED pid_list
  PROVE  /\ page_dir' \in DirType /\ page_table_pool' \in PoolType
         /\ pt_pool_slist' \in SlistType(PT_SLIST_SIZE) /\ SlistShape(pt_pool_slist', PT_SLIST_SIZE)
         /\ Tables' /\ SameMap /\ \A v \in Pages : v[1] = d => Walked(q, v)'
<1>1. Allocated(pt_pool_slist, pt_pool_slist', PT_SLIST_SIZE, r + 1)
  <2> DEFINE x == slist_alloc_ret(pt_pool_slist)
  <2>1. Allocated(pt_pool_slist, pt_pool_slist', PT_SLIST_SIZE, x)
    BY ListAlloc, Constants DEF ListTypes
  <2>2. r = x - 1
    BY DEF pt_pool_alloc
  <2>3. x \in Int
    BY <2>1, Constants DEF Allocated
  <2> HIDE DEF x
  <2>4. r + 1 = x
    BY <2>2, <2>3
  <2> QED BY <2>1, <2>4
<1>2. r \in Pool /\ r + 1 # 0
  <2>1. r \in Int
    <3>1. slist_alloc_ret(pt_pool_slist) \in 0 .. PT_SLIST_SIZE - 1
      BY AllocShape, Constants, Zenon DEF ListTypes
    <3> QED BY <3>1, Constants DEF pt_pool_alloc
  <2>2. r + 1 \in 0 .. PT_SLIST_SIZE - 1
    BY <1>1 DEF Allocated
  <2> QED BY <2>1, <2>2, Constants DEF Pool
<1>3. /\ pt_pool_slist[r + 1].valid = 0 /\ pt_pool_slist'[r + 1].valid = 1
      /\ \A n \in Pool : pt_pool_slist[n + 1].valid = 1 => pt_pool_slist'[n + 1].valid = 1
  BY <1>1, <1>2, MemoryAssumption DEF Allocated, Pool
<1>4. /\ page_dir \in [Pids -> [0 .. PDE_NUMBER - 1 -> Pde0]] /\ q \in Pids
      /\ page_table_pool \in [Pool -> [0 .. PTE_NUMBER - 1 -> Pte0]]
  BY Constants DEF TableTypes, DirType, PoolType
<1> DEFINE new == [valid |-> 1, pool_num |-> r]
           pt == page_table_init(page_table_pool[r])
<1>5. new \in Pde0 /\ new.valid = 1 /\ new.pool_num = r
  BY <1>2 DEF Pde0
<1>6. pt \in [0 .. PTE_NUMBER - 1 -> Pte0] /\ \A t \in 0 .. PTE_NUMBER - 1 : pt[t].valid = 0
  BY <1>2, <1>4, InitTable
<1>7. page_table_pool' = [page_table_pool EXCEPT ![r] = pt] /\ page_dir' = [page_dir EXCEPT ![q][d] = new]
  OBVIOUS
<1> HIDE DEF new, pt
<1>8. /\ page_dir' \in DirType
      /\ \A p \in Pids, e \in 0 .. PDE_NUMBER - 1 :
           page_dir'[p][e] = IF p = q /\ e = d THEN new ELSE page_dir[p][e]
  <2> DEFINE D == 0 .. PDE_NUMBER - 1
  <2> HIDE DEF D
  <2>1. page_dir \in [Pids -> [D -> Pde0]] /\ d \in D
    BY <1>4 DEF D
  <2>2. /\ page_dir' \in [Pids -> [D -> Pde0]]
        /\ \A p \in Pids, e \in D :
             page_dir'[p][e] = IF p = q /\ e = d THEN new ELSE page_dir[p][e]
    BY <1>4, <1>5, <1>7, <2>1
  <2> QED BY <2>2 DEF DirType, D
<1>9. /\ page_table_pool' \in PoolType
      /\ \A n \in Pool : page_table_pool'[n] = IF n = r THEN pt ELSE page_table_pool[n]
  BY <1>2, <1>4, <1>6, <1>7 DEF PoolType
<1>10. \A p \in Pids, e \in 0 .. PDE_NUMBER - 1 :
         page_dir[p][e].pool_num \in Pool /\ (page_dir[p][e].valid = 1 => page_dir[p][e].pool_num # r)
  <2>1. ASSUME NEW p \in Pids, NEW e \in 0 .. PDE_NUMBER - 1 PROVE page_dir[p][e].pool_num \in Pool
    <3>1. page_dir[p] \in [0 .. PDE_NUMBER - 1 -> Pde0]
      BY <1>4
    <3>2. page_dir[p][e] \in Pde0
      BY <3>1
    <3> QED BY <3>2 DEF Pde0
  <2> QED BY <1>3, <2>1 DEF Tables
<1>11. Tables'
  <2>1. ASSUME NEW p \in Pids, NEW e \in 0 .. PDE_NUMBER - 1, page_dir'[p][e].valid = 1
        PROVE  /\ p \in Tasks /\ pid_list'[p].valid = 1
               /\ pt_pool_slist'[page_dir'[p][e].pool_num + 1].valid = 1
    <3>1. CASE p = q /\ e = d
      BY <1>3, <1>5, <1>8, <3>1
    <3>2. CASE ~ (p = q /\ e = d)
      BY <1>3, <1>8, <1>10, <2>1, <3>2 DEF Tables
    <3> QED BY <3>1, <3>2
  <2>2. ASSUME NEW p \in Pids, NEW p2 \in Pids, NEW e \in 0 .. PDE_NUMBER - 1,
               NEW e2 \in 0 .. PDE_NUMBER - 1,
               page_dir'[p][e].valid = 1 /\ page_dir'[p2][e2].valid = 1,
               page_dir'[p][e].pool_num = page_dir'[p2][e2].pool_num
        PROVE  p = p2 /\ e = e2
    <3>1. CASE p = q /\ e = d
      BY <1>5, <1>8, <1>10, <2>2, <3>1
    <3>2. CASE ~ (p = q /\ e = d) /\ p2 = q /\ e2 = d
      BY <1>5, <1>8, <1>10, <2>2, <3>2
    <3>3. CASE ~ (p = q /\ e = d) /\ ~ (p2 = q /\ e2 = d)
      BY <1>8, <2>2, <3>3 DEF Tables
    <3> QED BY <3>1, <3>2, <3>3
  <2> QED BY <2>1, <2>2 DEF Tables
<1>12. ASSUME NEW p \in Pids, NEW v \in Pages
       PROVE  /\ Walked(p, v) => Walked(p, v)' /\ Pte(p, v)' = Pte(p, v)
              /\ Walked(p, v)' => Walked(p, v) \/ Pte(p, v)'.valid = 0
              /\ p = q /\ v[1] = d => Walked(p, v)'
  <2>1. v[1] \in 0 .. PDE_NUMBER - 1 /\ v[2] \in 0 .. PTE_NUMBER - 1
    BY PagesPairs
  <2>2. CASE p = q /\ v[1] = d
    <3>1. page_dir'[p][v[1]] = new /\ ~ Walked(p, v)
      BY <1>8, <2>1, <2>2 DEF Walked
    <3>1a. page_table_pool'[r] = pt
      BY <1>2, <1>9
    <3>2. page_table_pool'[r][v[2]].valid = 0
      BY <1>6, <2>1, <3>1a
    <3> QED BY <1>5, <3>1, <3>2 DEF Walked, Pte
  <2>3. CASE ~ (p = q /\ v[1] = d)
    <3>1. page_dir'[p][v[1]] = page_dir[p][v[1]]
      BY <1>8, <2>1, <2>3
    <3>2. Walked(p, v) => page_table_pool'[page_dir[p][v[1]].pool_num]
                            = page_table_pool[page_dir[p][v[1]].pool_num]
      BY <1>9, <1>10, <2>1 DEF Walked
    <3> QED BY <2>3, <3>1, <3>2 DEF Walked, Pte
  <2> QED BY <2>2, <2>3
<1>13. SameMap /\ \A v \in Pages : v[1] = d => Walked(q, v)'
  <2>1. \A p \in Pids, v \in Pages :
          /\ Walked(p, v) => Walked(p, v)'
          /\ IsMapped(p, v)' <=> IsMapped(p, v)
          /\ IsMapped(p, v) => Pte(p, v)' = Pte(p, v)
    BY <1>12 DEF IsMapped
  <2> QED BY <1>4, <1>12, <2>1 DEF SameMap
<1> QED BY <1>1, <1>8, <1>9, <1>11, <1>13 DEF Allocated

\* Initialising a directory makes all its entries invalid.
LEMMA DirInit ==
  ASSUME NEW pd \in [0 .. PDE_NUMBER - 1 -> Pde0]
  PROVE  /\ page_dir_init(pd) \in [0 .. PDE_NUMBER - 1 -> Pde0]
         /\ \A d \in 0 .. PDE_NUMBER - 1 : page_dir_init(pd)[d].valid = 0
BY DEF page_dir_init, Pde0

\* init_pcb initialises the page directory of a task that maps nothing.
LEMMA NewDir ==
  ASSUME TableTypes, Tables, NEW q \in Tasks, pid_list[q].valid = 0,
         \A p \in Tasks : pid_list[p].valid = 1 => pid_list'[p].valid = 1,
         page_dir' = [page_dir EXCEPT ![q] = page_dir_init(@)],
         UNCHANGED <<page_table_pool, pt_pool_slist>>
  PROVE  page_dir' \in DirType /\ Tables' /\ SameMap
<1> DEFINE new == page_dir_init(page_dir[q])
<1>1. page_dir \in [Pids -> [0 .. PDE_NUMBER - 1 -> Pde0]] /\ q \in Pids
  BY Constants DEF TableTypes, DirType
<1>2. page_dir[q] \in [0 .. PDE_NUMBER - 1 -> Pde0]
  BY <1>1
<1>3. /\ new \in [0 .. PDE_NUMBER - 1 -> Pde0]
      /\ \A d \in 0 .. PDE_NUMBER - 1 : new[d].valid = 0
  BY <1>2, DirInit
<1>4. page_dir' = [page_dir EXCEPT ![q] = new]
  OBVIOUS
<1> HIDE DEF new
<1>5. page_dir' \in DirType /\ \A p \in Pids : page_dir'[p] = IF p = q THEN new ELSE page_dir[p]
  BY <1>1, <1>3, <1>4 DEF DirType
<1>6. \A d \in 0 .. PDE_NUMBER - 1 : page_dir[q][d].valid # 1
  BY <1>1 DEF Tables
<1>7. Tables'
  <2>1. \A p \in Pids, d \in 0 .. PDE_NUMBER - 1 :
          page_dir'[p][d].valid = 1 => page_dir[p][d].valid = 1 /\ page_dir'[p] = page_dir[p]
    <3>1. ASSUME NEW p \in Pids, NEW d \in 0 .. PDE_NUMBER - 1, page_dir'[p][d].valid = 1
          PROVE  page_dir'[p] = page_dir[p]
      <4>1. new[d].valid # 1
        BY <1>3
      <4> QED BY <1>5, <3>1, <4>1
    <3> QED BY <3>1
  <2> QED BY <2>1 DEF Tables
<1>8. ASSUME NEW p \in Pids, NEW v \in Pages
      PROVE  /\ Walked(p, v)' <=> Walked(p, v)
             /\ Walked(p, v) => Pte(p, v)' = Pte(p, v)
  <2>1. v[1] \in 0 .. PDE_NUMBER - 1
    BY PagesPairs
  <2>2. CASE p = q
    <3>1. page_dir'[p] = new /\ new[v[1]].valid = 0 /\ page_dir[p][v[1]].valid # 1
      BY <1>3, <1>5, <1>6, <2>1, <2>2
    <3> QED BY <3>1 DEF Walked
  <2>3. CASE p # q
    <3>1. page_dir'[p] = page_dir[p]
      BY <1>5, <2>3
    <3> QED BY <3>1 DEF Walked, Pte
  <2> QED BY <2>2, <2>3
<1>9. SameMap
  BY <1>8 DEF SameMap, IsMapped
<1> QED BY <1>5, <1>7, <1>9

-----------------------------------------------------------------------------
\* The invariant behind TypeOK and TlbOK.

\* Only tasks that have been started are in queues or run.
Alive ==
  /\ \A p \in Tasks : in[p] # "none" => pid_list[p].valid = 1
  /\ Current # 0 => in[Current] # "none"

\* A frame that has been given out has an owner, and the owner's page table
\* describes the page it is said to hold.  The frames that swap_in takes get
\* theirs only when it is done, but by then every frame has had one before.
Owners ==
  /\ \A f \in Frames : pm_owner[f].pid # 0 => IsMapped(pm_owner[f].pid, pm_owner[f].vpn)
  /\ \A f \in RealFrames : pm_slist[f + 1].valid = 1 => pm_owner[f].pid # 0
  /\ \/ \A f \in RealFrames : pm_owner[f].pid # 0
     \/ /\ \A p \in Tasks, v \in Pages : ~ Away(p, v)
        /\ \A p \in Tasks : fault[p].at \in {"user", "walk", "write"}

\* Where a task can be in TLB_exception_helper, and what it then knows of its
\* page: at "out", "frame" and "in" nobody else makes it present.
FaultOK(p) ==
  LET a == fault[p].at
      v == fault[p].vpn
  IN  /\ a \in {"walk", "frame", "write"} => p = Current
      /\ a = "walk" /\ panic = 0 => Walked(p, v)
      /\ a \in {"out", "frame"} => Walked(p, v) /\ ~ IsPresent(p, v)
      /\ a = "in" => Away(p, v)
      /\ a = "write" => IsPresent(p, v)

Faults == fault[0].at = "user" /\ \A p \in Tasks : FaultOK(p)

\* TlbOK in these terms.
TlbInv ==
  \A e \in tlb : e.valid = 1 => IsPresent(e.pid, e.vpn) /\ Pte(e.pid, e.vpn).addr = e.frame

\* The address of a page is a frame or a slot.
Placed ==
  \A p \in Tasks, v \in Pages : /\ IsPresent(p, v) => Pte(p, v).addr \in Frames
                                /\ Away(p, v) => Pte(p, v).addr \in Slots

Inv == Types /\ Alive /\ Tables /\ Placed /\ Owners /\ Faults /\ TlbInv

\* The sets of the properties in these terms.
LEMMA MappedPairs ==
  /\ Mapped = {x \in Tasks \X Pages : IsMapped(x[1], x[2])}
  /\ Present = {x \in Tasks \X Pages : IsPresent(x[1], x[2])}
  /\ Mapped \ Present = {x \in Tasks \X Pages : IsMapped(x[1], x[2]) /\ Pte(x[1], x[2]).present # 1}
BY DEF Mapped, Present, IsMapped, IsPresent, Walked

\* TlbOK follows.
LEMMA TlbParts == Types /\ TlbInv => TlbOK
<1> SUFFICES ASSUME Types, TlbInv, NEW e \in tlb, e.valid = 1
             PROVE  <<e.pid, e.vpn>> \in Present /\ Pte(e.pid, e.vpn).addr = e.frame
  BY DEF TlbOK
<1>1. e.pid \in Tasks /\ e.vpn \in Pages
  BY DEF Types, TlbTypes, Entry
<1>2. IsPresent(e.pid, e.vpn) /\ Pte(e.pid, e.vpn).addr = e.frame
  BY DEF TlbInv
<1> DEFINE x == <<e.pid, e.vpn>>
<1>3. x \in Tasks \X Pages /\ x[1] = e.pid /\ x[2] = e.vpn
  BY <1>1
<1> HIDE DEF x
<1>4. x \in Present
  BY <1>2, <1>3, MappedPairs
<1> QED BY <1>2, <1>4 DEF x

\* In user mode nobody is between the points where a task can be interrupted.
LEMMA UserFaults ==
  ASSUME Types, Faults, fault[Current].at = "user"
  PROVE  \A p \in Tasks : fault[p].at \in {"user", "out", "in"}
<1>1. \A p \in Tasks : fault[p] \in FaultType
  BY Constants DEF Types, FaultTypes
<1>2. \A p \in Tasks : fault[p].at \in {"user", "walk", "out", "frame", "in", "write"}
  BY <1>1 DEF FaultType
<1> QED BY <1>2 DEF Faults, FaultOK

\* A step that changes neither the map nor who owns a frame.
LEMMA KeepOwners ==
  ASSUME Owners, TableTypes, SameMap, UNCHANGED <<pm_owner, pm_slist>>,
         \A p \in Tasks : fault[p].at \in {"user", "walk", "write"} =>
                            fault'[p].at \in {"user", "walk", "write"}
  PROVE  Owners'
<1>1. \A f \in Frames : pm_owner[f].pid \in Pids /\ pm_owner[f].vpn \in Pages
  BY DEF TableTypes, OwnerType
<1>2. \A p \in Pids, v \in Pages : (IsMapped(p, v) => IsMapped(p, v)') /\ (Away(p, v)' => Away(p, v))
  BY DEF SameMap, Away
<1>3. \A f \in Frames : pm_owner[f].pid # 0 => IsMapped(pm_owner[f].pid, pm_owner[f].vpn)'
  BY <1>1, <1>2 DEF Owners
<1>4. (\A p \in Tasks, v \in Pages : ~ Away(p, v)) => (\A p \in Tasks, v \in Pages : ~ Away(p, v)')
  BY <1>2, Constants
<1>5. /\ \A f \in Frames : pm_owner'[f].pid # 0 => IsMapped(pm_owner[f].pid, pm_owner[f].vpn)'
      /\ \A f \in RealFrames : pm_slist'[f + 1].valid = 1 => pm_owner'[f].pid # 0
  BY <1>3 DEF Owners
<1> QED BY <1>4, <1>5 DEF Owners

\* A step that does not change the map.
LEMMA KeepPlaced ==
  ASSUME Placed, SameMap
  PROVE  Placed'
BY Constants DEF Placed, SameMap, IsPresent, Away

\* A page goes to a frame or to a slot.
LEMMA SetPlaced ==
  ASSUME Placed, NEW q \in Tasks, NEW w \in Pages, NEW a \in 0 .. 1, NEW b \in Frames \cup Slots,
         SetMap(q, w, PteOf(a, b)), a = 1 => b \in Frames, a = 0 => b \in Slots
  PROVE  Placed'
<1>1. PteOf(a, b).present = a /\ PteOf(a, b).addr = b
  BY PteRecord
<1>2. ASSUME NEW p \in Tasks, NEW v \in Pages, IsMapped(p, v)'
      PROVE  (IsPresent(p, v) => Pte(p, v).addr \in Frames)' /\ (Away(p, v) => Pte(p, v).addr \in Slots)'
  <2>1. CASE p = q /\ v = w
    <3>1. Pte(p, v)' = PteOf(a, b)
      BY <1>2, <2>1, Constants DEF SetMap
    <3> QED BY <1>1, <3>1 DEF IsPresent, Away
  <2>2. CASE ~ (p = q /\ v = w)
    <3>1. Pte(p, v)' = Pte(p, v) /\ IsMapped(p, v)
      BY <1>2, <2>2, Constants DEF SetMap
    <3> QED BY <3>1 DEF Placed, IsPresent, Away
  <2> QED BY <2>1, <2>2
<1> QED BY <1>2 DEF Placed, IsPresent, Away

\* A step that changes neither the map nor the TLB.
LEMMA KeepTlb ==
  ASSUME TlbInv, TlbTypes, SameMap, UNCHANGED tlb
  PROVE  TlbInv'
<1>1. \A e \in tlb : e.pid \in Pids /\ e.vpn \in Pages
  BY Constants DEF TlbTypes, Entry
<1>2. \A p \in Pids, v \in Pages : IsPresent(p, v) => IsPresent(p, v)' /\ Pte(p, v)' = Pte(p, v)
  BY DEF SameMap, IsPresent
<1> QED BY <1>1, <1>2 DEF TlbInv

\* Nothing of p's is mapped or swapped in by the step.
Keeps(p) ==
  \A v \in Pages : /\ Walked(p, v) => Walked(p, v)'
                   /\ IsPresent(p, v)' => IsPresent(p, v)
                   /\ Away(p, v) => Away(p, v)'

\* A step that leaves the map alone keeps what p knows of its page.
LEMMA SameKeeps ==
  ASSUME SameMap
  PROVE  \A p \in Pids : Keeps(p) /\ \A v \in Pages : IsPresent(p, v) => IsPresent(p, v)'
BY DEF SameMap, Keeps, IsPresent, Away

\* The fault of a task that the step does not advance.
LEMMA KeepFault ==
  ASSUME NEW p \in Tasks, FaultOK(p), fault'[p] = fault[p], fault[p].vpn \in Pages, Keeps(p),
         fault[p].at \in {"walk", "frame", "write"} => current_running' = current_running,
         fault[p].at = "write" => \A v \in Pages : IsPresent(p, v) => IsPresent(p, v)',
         fault[p].at = "walk" => (panic' = 0 => panic = 0)
  PROVE  FaultOK(p)'
<1> DEFINE v == fault[p].vpn
<1>1. fault'[p].vpn = v /\ fault'[p].at = fault[p].at /\ v \in Pages
  OBVIOUS
<1>2. /\ Walked(p, v) => Walked(p, v)'
      /\ IsPresent(p, v)' => IsPresent(p, v)
      /\ Away(p, v) => Away(p, v)'
  BY <1>1 DEF Keeps
<1> QED BY <1>1, <1>2 DEF FaultOK, Current

\* The faults of all tasks.
LEMMA KeepFaults ==
  ASSUME Faults, FaultTypes, UNCHANGED fault, SameMap,
         current_running' = current_running \/ \A p \in Tasks : fault[p].at \in {"user", "out", "in"},
         panic' = 0 => panic = 0
  PROVE  Faults'
<1>1. \A p \in Tasks : fault[p].vpn \in Pages
  BY Constants DEF FaultTypes, FaultType
<1>2. ASSUME NEW p \in Tasks PROVE FaultOK(p)'
  <2>1. Keeps(p) /\ \A v \in Pages : IsPresent(p, v) => IsPresent(p, v)'
    BY SameKeeps, Constants
  <2> QED BY <1>1, <2>1, KeepFault DEF Faults
<1> QED BY <1>2 DEF Faults

-----------------------------------------------------------------------------
\* The steps that leave the page tables, the frames and the TLB alone.

\* Such a step keeps the invariant if it keeps the types and `in`.
LEMMA QuietStep ==
  ASSUME Inv, Types', UNCHANGED <<tableVars, tlb, fault>>,
         \A p \in Tasks : pid_list[p].valid = 1 => pid_list'[p].valid = 1,
         current_running' = current_running \/ fault[Current].at = "user",
         panic' = 0 => panic = 0, Alive'
  PROVE  Inv'
<1>1. Tables' /\ SameMap
  BY SameTables DEF Inv, tableVars
<1>2. Owners'
  BY <1>1, KeepOwners DEF Inv, Types, tableVars
<1>3. TlbInv'
  BY <1>1, KeepTlb DEF Inv, Types
<1>4. Faults'
  BY <1>1, UserFaults, KeepFaults DEF Inv, Types
<1>5. Placed'
  BY <1>1, KeepPlaced DEF Inv
<1> QED BY <1>1, <1>2, <1>3, <1>4, <1>5 DEF Inv

\* The queues change, but nobody leaves or enters them altogether.
LEMMA AliveStep ==
  ASSUME Inv, UNCHANGED pid_list, \A p \in Tasks : in'[p] = "none" <=> in[p] = "none",
         current_running' = current_running \/ in'[current_running'] = "ready"
  PROVE  Alive'
BY Constants DEF Inv, Alive, Current, Types, SchedTypes

\* The timer interrupt.
LEMMA TickInv == Inv /\ Tick => Inv'
<1> SUFFICES ASSUME Inv, Tick PROVE Inv'
  OBVIOUS
<1>1. /\ UNCHANGED <<in, removed, pid_list, sem, io_task, tableVars, tlb, dataVars, io, fault, raced>>
      /\ SwitchTask(boosted) /\ panic = 0 /\ fault[Current].at = "user"
  BY DEF Tick, UserMode
<1>2. /\ SchedTypes'
      /\ \/ /\ panic' = panic /\ current_running' \in Tasks
            /\ in'[current_running'] = "ready" /\ current_running' \notin removed'
         \/ panic' = 1 /\ current_running' = current_running
  BY <1>1, SwitchStep DEF Inv, Types, SchedTypes
<1>3. Types'
  BY <1>1, <1>2 DEF Inv, Types, ListTypes, TableTypes, TlbTypes, IoTypes, DataTypes, FaultTypes,
                    tableVars, dataVars
<1>4. Alive'
  BY <1>1, <1>2, AliveStep
<1> QED BY <1>1, <1>2, <1>3, <1>4, QuietStep

\* A task writes to a page.
LEMMA StoreInv ==
  ASSUME Inv, NEW v \in Pages, NEW x \in Values, Store(v, x)
  PROVE  Inv'
<1>1. /\ UNCHANGED <<schedVars, pid_list, sem, io_task, tableVars, tlb, swap, io, fault, raced>>
      /\ Current \in Users /\ expected' = [expected EXCEPT ![Current][v] = x]
  BY DEF Store
<1>2. PICK e \in Hit(Current, v) : mem' = [mem EXCEPT ![e.frame] = x]
  BY DEF Store
<1>3. mem' \in [Frames -> Values]
  BY <1>2 DEF Inv, Types, DataTypes
<1>4. expected' \in [Users -> [Pages -> Values]]
  BY <1>1 DEF Inv, Types, DataTypes
<1>5. Types'
  BY <1>1, <1>3, <1>4 DEF Inv, Types, SchedTypes, ListTypes, TableTypes, TlbTypes, IoTypes,
                          DataTypes, FaultTypes, tableVars, schedVars
<1>6. Alive'
  BY <1>1 DEF Inv, Alive, Current, schedVars
<1> QED BY <1>1, <1>5, <1>6, QuietStep DEF schedVars

\* io_proc's steps and the calls of the file system change neither tables nor
\* queues, but for the two calls for semaphores.
LEMMA IoQuiet ==
  ASSUME Inv, UNCHANGED <<schedVars, pid_list, tableVars, tlb, expected, fault>>,
         IoTypes', mem' \in [Frames -> Values], swap' \in [Slots -> Values], raced' \in BOOLEAN
  PROVE  Inv'
<1>1. Types'
  BY DEF Inv, Types, SchedTypes, ListTypes, TableTypes, TlbTypes, DataTypes, FaultTypes,
         tableVars, schedVars
<1>2. Alive'
  BY DEF Inv, Alive, Current, schedVars
<1> QED BY <1>1, <1>2, QuietStep DEF schedVars

\* The steps of io_proc that call no semaphore, and the file system.
LEMMA IoQuietInv == Inv /\ (IoInit \/ IoFetch \/ IoFill \/ IoDrain \/ FsCall) => Inv'
<1> SUFFICES ASSUME Inv, IoInit \/ IoFetch \/ IoFill \/ IoDrain \/ FsCall PROVE Inv'
  OBVIOUS
<1>1. /\ sem \in [Sems -> Int] /\ io_task \in RequestType /\ io \in IoType
      /\ io.req \in RequestType /\ io.indexbuf \in Values
      /\ mem \in [Frames -> Values] /\ swap \in [Slots -> Values] /\ raced \in BOOLEAN
  BY DEF Inv, Types, IoTypes, DataTypes, IoType
<1>2. io.req.frame \in Frames /\ io.req.slot \in Slots
  BY <1>1 DEF RequestType
<1>3. CASE IoInit
  <2>1. io' \in IoType /\ sem' \in [Sems -> Int]
    BY <1>1, <1>3 DEF IoInit, IoType
  <2>2. UNCHANGED <<schedVars, io_task, pid_list, tableVars, tlb, mem, swap, expected, fault, raced>>
    BY <1>3 DEF IoInit, dataVars
  <2> QED BY <1>1, <2>1, <2>2, IoQuiet DEF IoTypes
<1>4. CASE IoFetch
  <2>1. io' \in IoType
    BY <1>1, <1>4 DEF IoFetch, IoType
  <2>2. UNCHANGED <<schedVars, sem, io_task, pid_list, tableVars, tlb, mem, swap, expected, fault, raced>>
    BY <1>4 DEF IoFetch, dataVars
  <2> QED BY <1>1, <2>1, <2>2, IoQuiet DEF IoTypes
<1>5. CASE IoFill
  <2>1. mem[io.req.frame] \in Values /\ swap[io.req.slot] \in Values
    BY <1>1, <1>2
  <2>2. io' \in IoType
    BY <1>1, <1>5, <2>1 DEF IoFill, IoType
  <2>3. UNCHANGED <<schedVars, sem, io_task, pid_list, tableVars, tlb, mem, swap, expected, fault, raced>>
    BY <1>5 DEF IoFill, dataVars
  <2> QED BY <1>1, <2>2, <2>3, IoQuiet DEF IoTypes
<1>6. CASE IoDrain
  <2>1. io' \in IoType
    BY <1>1, <1>6, BootTypes DEF IoDrain, IoType
  <2>2. UNCHANGED <<schedVars, sem, io_task, pid_list, tableVars, tlb, expected, fault, raced>>
    BY <1>6 DEF IoDrain
  <2>3. mem' \in [Frames -> Values] /\ swap' \in [Slots -> Values]
    BY <1>1, <1>2, <1>6 DEF IoDrain
  <2> QED BY <1>1, <2>1, <2>2, <2>3, IoQuiet DEF IoTypes
<1>7. CASE FsCall
  <2>1. io' \in IoType
    BY <1>1, <1>7, MemoryAssumption DEF FsCall, IoType
  <2>2. /\ UNCHANGED <<schedVars, sem, io_task, pid_list, tableVars, tlb, mem, swap, expected, fault>>
        /\ raced' = TRUE
    BY <1>7 DEF FsCall, dataVars
  <2> QED BY <1>1, <2>1, <2>2, IoQuiet DEF IoTypes
<1> QED BY <1>3, <1>4, <1>5, <1>6, <1>7

\* io_proc waits for a request.
LEMMA IoDownInv == Inv /\ IoDown => Inv'
<1> SUFFICES ASSUME Inv, IoDown PROVE Inv'
  OBVIOUS
<1> DEFINE none == {}
           s == "io_tasks"
<1>1. /\ UNCHANGED <<removed, io_task, pid_list, tableVars, tlb, dataVars, fault, raced>>
      /\ SemDown(s, none) /\ sem' = [sem EXCEPT ![s] = @ - 1]
      /\ io' = [io EXCEPT !.pc = "fetch"]
      /\ panic = 0 /\ Current = IoProc /\ fault[Current].at = "user"
  BY DEF IoDown, Executes, Running, UserMode
<1>2. s \in Sems /\ s # "none" /\ none \subseteq Tasks /\ \A p : p \notin none
  BY DEF Sems
<1> HIDE DEF none, s
<1>3. Downed(s, none)
  BY <1>1, <1>2, Constants, DownStep DEF Inv, Types, SchedTypes
<1>4. IoTypes'
  BY <1>1, <1>2 DEF Inv, Types, IoTypes, IoType
<1>5. Types'
  BY <1>1, <1>3, <1>4 DEF Inv, Types, ListTypes, TableTypes, TlbTypes, DataTypes, FaultTypes,
                          tableVars, dataVars, Downed
<1>6. in[IoProc] # "none"
  BY <1>1, Constants DEF Inv, Alive
<1>7. \A p \in Tasks : in'[p] = "none" <=> in[p] = "none"
  BY <1>1, <1>2, <1>3, <1>6 DEF Downed
<1>8. current_running' = current_running \/ in'[current_running'] = "ready"
  BY <1>3 DEF Downed, Current
<1>9. Alive'
  BY <1>1, <1>7, <1>8, AliveStep
<1> QED BY <1>1, <1>5, <1>9, QuietStep

\* do_semaphore_up leaves the woken task in the ready queue.
LEMMA InAfterStep ==
  ASSUME SchedTypes, NEW w, w \subseteq Tasks, in' = InAfter(w)
  PROVE  /\ in' \in [Pids -> Sems \cup {"ready", "none"}]
         /\ \A p \in Tasks : in'[p] = IF p \in w THEN "ready" ELSE in[p]
BY Constants DEF InAfter, SchedTypes

\* io_proc wakes the task that waits.
LEMMA IoUpInv == Inv /\ IoUp => Inv'
<1> SUFFICES ASSUME Inv, IoUp PROVE Inv'
  OBVIOUS
<1> DEFINE s == "io_done"
<1>1. /\ UNCHANGED <<current_running, removed, panic, io_task, pid_list, tableVars, tlb, dataVars,
                     fault, raced>>
      /\ sem' = [sem EXCEPT ![s] = @ + 1] /\ io' = [io EXCEPT !.pc = "down"]
  BY DEF IoUp
<1>2. PICK w \in Woken(s, removed) : in' = InAfter(w) /\ boosted' = boosted \cup w
  BY DEF IoUp
<1>3. s \in Sems /\ s # "none"
  BY DEF Sems
<1> HIDE DEF s
<1>4. w \subseteq Tasks /\ \A p \in w : in[p] = s /\ p \notin removed
  BY WokenTasks
<1>5. /\ in' \in [Pids -> Sems \cup {"ready", "none"}]
      /\ \A p \in Tasks : in'[p] = IF p \in w THEN "ready" ELSE in[p]
  BY <1>2, <1>4, InAfterStep DEF Inv, Types
<1>6. IoTypes'
  BY <1>1, <1>3 DEF Inv, Types, IoTypes, IoType
<1>7. SchedTypes'
  BY <1>1, <1>2, <1>4, <1>5 DEF Inv, Types, SchedTypes
<1>8. Types'
  BY <1>1, <1>6, <1>7 DEF Inv, Types, ListTypes, TableTypes, TlbTypes, DataTypes, FaultTypes,
                          tableVars, dataVars
<1>9. \A p \in Tasks : in'[p] = "none" <=> in[p] = "none"
  BY <1>3, <1>4, <1>5
<1>10. Alive'
  BY <1>1, <1>9, AliveStep
<1> QED BY <1>1, <1>8, <1>10, QuietStep

\* The shell gives a pid that was free and starts a task with it.
LEMMA SpawnList ==
  ASSUME Inv, Spawn
  PROVE  /\ Allocated(pid_list, pid_list', MAX_TASK_NUM, slist_alloc_ret(pid_list))
         /\ slist_alloc_ret(pid_list) \in Tasks /\ pid_list[slist_alloc_ret(pid_list)].valid = 0
         /\ \A p \in Tasks : pid_list[p].valid = 1 => pid_list'[p].valid = 1
         /\ pid_list'[slist_alloc_ret(pid_list)].valid = 1
<1> DEFINE r == slist_alloc_ret(pid_list)
<1>1. pid_list' = slist_alloc(pid_list) /\ ~ slist_is_insufficient(pid_list)
  BY DEF Spawn
<1>2. Allocated(pid_list, pid_list', MAX_TASK_NUM, r)
  BY <1>1, ListAlloc, Constants DEF Inv, Types, ListTypes
<1>3. r \in Tasks /\ pid_list[r].valid = 0
  BY <1>1, <1>2, MemoryAssumption DEF Allocated, Tasks
<1>4. \A i \in Tasks : pid_list'[i].valid = IF i = r THEN 1 ELSE pid_list[i].valid
  BY <1>2, <1>3, Constants DEF Allocated, Tasks
<1> HIDE DEF r
<1>5. \A p \in Tasks : pid_list[p].valid = 1 => pid_list'[p].valid = 1
  BY <1>4
<1>6. pid_list'[r].valid = 1
  BY <1>3, <1>4
<1> QED BY <1>2, <1>3, <1>5, <1>6 DEF r

\* The shell starts a task.
LEMMA SpawnInv == Inv /\ Spawn => Inv'
<1> SUFFICES ASSUME Inv, Spawn PROVE Inv'
  OBVIOUS
<1>1. PICK r : r = slist_alloc_ret(pid_list)
  OBVIOUS
<1>2. /\ in' = [in EXCEPT ![r] = "ready"]
      /\ page_dir' = [page_dir EXCEPT ![r] = page_dir_init(@)]
      /\ UNCHANGED <<current_running, boosted, removed, panic, sem, io_task, pm_slist, pm_owner,
                     pt_pool_slist, page_table_pool, swap_area_slist, tlb, dataVars, io, fault,
                     raced>>
  BY <1>1 DEF Spawn
<1>3. /\ pid_list' \in SlistType(MAX_TASK_NUM) /\ SlistShape(pid_list', MAX_TASK_NUM)
      /\ r \in Tasks /\ pid_list[r].valid = 0 /\ pid_list'[r].valid = 1
      /\ \A p \in Tasks : pid_list[p].valid = 1 => pid_list'[p].valid = 1
  BY <1>1, SpawnList DEF Allocated
<1>4. page_dir' \in DirType /\ Tables' /\ SameMap
  BY <1>2, <1>3, NewDir DEF Inv, Types
<1>5. /\ in' \in [Pids -> Sems \cup {"ready", "none"}]
      /\ \A p \in Pids : in'[p] = IF p = r THEN "ready" ELSE in[p]
  BY <1>2, <1>3, Constants DEF Inv, Types, SchedTypes
<1>6. Types'
  BY <1>2, <1>3, <1>4, <1>5 DEF Inv, Types, SchedTypes, ListTypes, TableTypes, TlbTypes, IoTypes,
                                DataTypes, FaultTypes, dataVars
<1>7. Alive'
  BY <1>2, <1>3, <1>5, Constants DEF Inv, Types, SchedTypes, Alive, Current
<1>8. Owners'
  BY <1>2, <1>4, KeepOwners DEF Inv, Types
<1>9. TlbInv'
  BY <1>2, <1>4, KeepTlb DEF Inv, Types
<1>10. Faults'
  BY <1>2, <1>4, KeepFaults DEF Inv, Types
<1>11. Placed'
  BY <1>4, KeepPlaced DEF Inv
<1> QED BY <1>4, <1>6, <1>7, <1>8, <1>9, <1>10, <1>11 DEF Inv

\* A step of the running task's fault.
LEMMA FaultStep ==
  ASSUME Inv, NEW c \in Tasks, c = Current, NEW r \in FaultType,
         fault' = [fault EXCEPT ![c] = r], \A p \in Tasks : p # c => Keeps(p), FaultOK(c)'
  PROVE  Faults'
<1>1. fault \in [Pids -> FaultType] /\ c \in Pids /\ c # 0
  BY Constants DEF Inv, Types, FaultTypes
<1>2. fault'[0] = fault[0] /\ \A p \in Tasks : p # c => fault'[p] = fault[p]
  BY <1>1, Constants
<1>3. ASSUME NEW p \in Tasks, p # c PROVE FaultOK(p)'
  <2>1. fault[p].vpn \in Pages
    BY <1>1, Constants DEF FaultType
  <2>2. fault[p].at \notin {"walk", "frame", "write"} /\ FaultOK(p)
    BY <1>3 DEF Inv, Faults, FaultOK
  <2> QED BY <1>2, <1>3, <2>1, <2>2, KeepFault
<1> QED BY <1>2, <1>3 DEF Inv, Faults

\* TLB_exception in terms of the map: the running task p has touched the page
\* v, and its fault becomes r.
Look(p, v, r) ==
  /\ p \in Tasks /\ p \in Pids /\ p = Current /\ v \in Pages /\ panic = 0 /\ fault[p].at = "user"
  /\ v \in IF p \in Users THEN Touches(p) ELSE {Stack}
  /\ r \in FaultType /\ r.at = "walk" /\ r.vpn = v /\ fault' = [fault EXCEPT ![p] = r]
  /\ page_dir' \in DirType /\ page_table_pool' \in PoolType /\ panic' \in 0 .. 1
  /\ pt_pool_slist' \in SlistType(PT_SLIST_SIZE) /\ SlistShape(pt_pool_slist', PT_SLIST_SIZE)
  /\ Tables' /\ SameMap /\ (panic' = 0 => Walked(p, v)')
  /\ UNCHANGED <<current_running, in, boosted, removed, pid_list, sem, io_task, pm_slist, pm_owner,
                 swap_area_slist, tlb, dataVars, io, raced>>

\* TLB_exception_helper looks the address up, and takes a page table if there
\* is none.
LEMMA LookCases ==
  ASSUME Inv, NEW v \in Pages, TlbException(v)
  PROVE  \E p, r : Look(p, v, r)
<1>1. PICK p \in Tasks : p = Current
  BY DEF TlbException
<1>2. PICK k : k = IF \E e \in tlb : e.pid = p /\ e.vpn = v THEN 0 ELSE 1
  OBVIOUS
<1>3. PICK r : r = [Idle EXCEPT !.at = "walk", !.vpn = v, !.refill = k]
  OBVIOUS
<1>4. /\ UNCHANGED <<current_running, in, boosted, removed, pid_list, sem, io_task, pm_slist, pm_owner,
                     swap_area_slist, tlb, dataVars, io, raced>>
      /\ fault' = [fault EXCEPT ![p] = r] /\ panic = 0
  BY <1>1, <1>2, <1>3 DEF TlbException, UserMode
<1>5. r \in FaultType /\ r.at = "walk" /\ r.vpn = v
  <2>1. k \in 0 .. 1
    BY <1>2
  <2> QED BY <1>3, <2>1, BootTypes DEF FaultType
<1>6. p \in Pids /\ v[1] \in 0 .. PDE_NUMBER - 1 /\ pid_list[p].valid = 1
  BY <1>1, PagesPairs, Constants DEF Inv, Alive
<1>7. /\ page_dir' \in DirType /\ page_table_pool' \in PoolType /\ panic' \in 0 .. 1
      /\ pt_pool_slist' \in SlistType(PT_SLIST_SIZE) /\ SlistShape(pt_pool_slist', PT_SLIST_SIZE)
      /\ Tables' /\ SameMap /\ (panic' = 0 => Walked(p, v)')
  <2>1. CASE page_dir[p][v[1]].valid = 1 /\ UNCHANGED <<panic, pt_pool_slist, page_dir, page_table_pool>>
    <3>1. Tables' /\ SameMap
      BY <1>4, <2>1, SameTables DEF Inv
    <3> QED BY <2>1, <3>1 DEF Inv, Types, ListTypes, TableTypes, SchedTypes, Walked
  <2>2. CASE /\ page_dir[p][v[1]].valid = 0 /\ pt_pool_alloc # -1
             /\ pt_pool_slist' = slist_alloc(pt_pool_slist)
             /\ page_dir' = [page_dir EXCEPT ![p][v[1]] = [valid |-> 1, pool_num |-> pt_pool_alloc]]
             /\ page_table_pool' = [page_table_pool EXCEPT ![pt_pool_alloc] = page_table_init(@)]
             /\ UNCHANGED panic
    <3> DEFINE d == v[1]
    <3>1. PICK n : n = pt_pool_alloc
      OBVIOUS
    <3>2. /\ page_dir[p][d].valid = 0 /\ n # -1
          /\ pt_pool_slist' = slist_alloc(pt_pool_slist)
          /\ page_dir' = [page_dir EXCEPT ![p][d] = [valid |-> 1, pool_num |-> n]]
          /\ page_table_pool' = [page_table_pool EXCEPT ![n] = page_table_init(@)]
      BY <2>2, <3>1
    <3>3. d \in 0 .. PDE_NUMBER - 1 /\ v[1] = d
      BY <1>6
    <3> HIDE DEF d
    <3>4. /\ page_dir' \in DirType /\ page_table_pool' \in PoolType
          /\ pt_pool_slist' \in SlistType(PT_SLIST_SIZE) /\ SlistShape(pt_pool_slist', PT_SLIST_SIZE)
          /\ Tables' /\ SameMap /\ \A w \in Pages : w[1] = d => Walked(p, w)'
      BY <1>4, <1>6, <3>1, <3>2, <3>3, NewTable DEF Inv, Types
    <3> QED BY <2>2, <3>3, <3>4 DEF Inv, Types, SchedTypes
  <2>3. CASE panic' = 1 /\ UNCHANGED <<pt_pool_slist, page_dir, page_table_pool>>
    <3>1. Tables' /\ SameMap
      BY <1>4, <2>3, SameTables DEF Inv
    <3> QED BY <2>3, <3>1 DEF Inv, Types, ListTypes, TableTypes
  <2> QED BY <1>1, <2>1, <2>2, <2>3 DEF TlbException
<1>8. fault[p].at = "user" /\ v \in IF p \in Users THEN Touches(p) ELSE {Stack}
  BY <1>1 DEF TlbException, UserMode
<1>9. Look(p, v, r)
  BY <1>1, <1>4, <1>5, <1>6, <1>7, <1>8 DEF Look
<1> QED BY <1>9

\* The lookup keeps the invariant.
LEMMA TlbExceptionInv ==
  ASSUME Inv, NEW v \in Pages, TlbException(v)
  PROVE  Inv'
<1>1. PICK p, r : Look(p, v, r)
  BY LookCases
<1>4. /\ UNCHANGED <<current_running, in, boosted, removed, pid_list, sem, io_task, pm_slist, pm_owner,
                     swap_area_slist, tlb, dataVars, io, raced>>
      /\ fault' = [fault EXCEPT ![p] = r] /\ panic = 0 /\ p \in Tasks /\ p = Current
  BY <1>1 DEF Look
<1>5. r \in FaultType /\ r.at = "walk" /\ r.vpn = v /\ p \in Pids
  BY <1>1 DEF Look
<1>7. /\ page_dir' \in DirType /\ page_table_pool' \in PoolType /\ panic' \in 0 .. 1
      /\ pt_pool_slist' \in SlistType(PT_SLIST_SIZE) /\ SlistShape(pt_pool_slist', PT_SLIST_SIZE)
      /\ Tables' /\ SameMap /\ (panic' = 0 => Walked(p, v)')
  BY <1>1 DEF Look
<1>8. fault' \in [Pids -> FaultType] /\ fault'[p] = r
     /\ \A q \in Tasks : q # p => fault'[q] = fault[q]
  BY <1>4, <1>5, Constants DEF Inv, Types, FaultTypes
<1>9. Types'
  BY <1>4, <1>7, <1>8 DEF Inv, Types, SchedTypes, ListTypes, TableTypes, TlbTypes, IoTypes,
                          DataTypes, FaultTypes, dataVars
<1>10. Alive'
  BY <1>4 DEF Inv, Alive, Current
<1>11. Owners'
  <2>1. \A q \in Tasks : fault[q].at \in {"user", "walk", "write"} =>
                           fault'[q].at \in {"user", "walk", "write"}
    BY <1>5, <1>8
  <2> QED BY <1>4, <1>7, <2>1, KeepOwners DEF Inv, Types
<1>12. TlbInv'
  BY <1>4, <1>7, KeepTlb DEF Inv, Types
<1>13. FaultOK(p)'
  BY <1>4, <1>5, <1>7, <1>8 DEF FaultOK, Current
<1>14. Faults'
  BY <1>4, <1>5, <1>7, <1>13, SameKeeps, Constants, FaultStep
<1>15. Placed'
  BY <1>7, KeepPlaced DEF Inv
<1> QED BY <1>7, <1>9, <1>10, <1>11, <1>12, <1>14, <1>15 DEF Inv

\* The running task is in the middle of a fault.
LEMMA Faulting ==
  ASSUME Inv, NEW a, At(a), a # "user"
  PROVE  /\ Current \in Tasks /\ Current \in Pids /\ panic = 0
         /\ fault[Current] \in FaultType /\ fault[Current].at = a
         /\ Vpn = fault[Current].vpn /\ Vpn \in Pages /\ FaultOK(Current)
         /\ a = "walk" => Walked(Current, Vpn)
<1>1. panic = 0 /\ fault[Current].at = a /\ Vpn = fault[Current].vpn
  BY DEF At, Vpn
<1>2. Current \in Tasks /\ Current \in Pids
  BY <1>1, Constants DEF Inv, Types, SchedTypes, Faults, Current
<1>3. fault[Current] \in FaultType /\ fault[Current].vpn \in Pages
  BY <1>2 DEF Inv, Types, FaultTypes, FaultType
<1> QED BY <1>1, <1>2, <1>3 DEF Inv, Faults, FaultOK

\* The record of a fault that moves on.
LEMMA FaultMoves ==
  ASSUME NEW r \in FaultType, NEW a \in {"user", "walk", "out", "frame", "in", "write"}
  PROVE  LET s == [r EXCEPT !.at = a]
         IN  s \in FaultType /\ s.at = a /\ s.vpn = r.vpn /\ s.frame = r.frame /\ s.slot = r.slot
             /\ s.victim = r.victim /\ s.refill = r.refill
BY DEF FaultType

\* A page gets an entry: nothing else is mapped or swapped in.
LEMMA SetKeeps ==
  ASSUME NEW q \in Tasks, NEW w \in Pages, NEW pte, SetMap(q, w, pte)
  PROVE  \A p \in Tasks : p # q => Keeps(p)
BY Constants DEF SetMap, Keeps, IsPresent, Away

\* The TLB after a page that is not in memory has got an entry.
LEMMA SetTlb ==
  ASSUME Inv, NEW q \in Tasks, NEW w \in Pages, NEW pte, SetMap(q, w, pte), ~ IsPresent(q, w),
         UNCHANGED tlb
  PROVE  TlbInv'
<1>1. \A e \in tlb : e.pid \in Pids /\ e.vpn \in Pages
  BY Constants DEF Inv, Types, TlbTypes, Entry
<1>2. ASSUME NEW e \in tlb, e.valid = 1
      PROVE  IsPresent(e.pid, e.vpn)' /\ Pte(e.pid, e.vpn)'.addr = e.frame
  <2>1. IsPresent(e.pid, e.vpn) /\ Pte(e.pid, e.vpn).addr = e.frame
    BY <1>2 DEF Inv, TlbInv
  <2>2. Pte(e.pid, e.vpn)' = Pte(e.pid, e.vpn) /\ IsMapped(e.pid, e.vpn)'
    BY <1>1, <2>1 DEF SetMap, IsPresent
  <2> QED BY <2>1, <2>2 DEF IsPresent
<1> QED BY <1>2 DEF TlbInv

\* A frame gets a new owner, whose page has just got an entry.
LEMMA SetOwners ==
  ASSUME Inv, NEW q \in Tasks, NEW w \in Pages, NEW pte, SetMap(q, w, pte), NEW f \in Frames,
         pm_owner' = [pm_owner EXCEPT ![f] = [pid |-> q, vpn |-> w]]
  PROVE  /\ pm_owner' \in [Frames -> OwnerType]
         /\ (\A g \in Frames : pm_owner[g].pid # 0 => IsMapped(pm_owner[g].pid, pm_owner[g].vpn))'
         /\ \A g \in Frames : (pm_owner[g].pid # 0 \/ g = f) => pm_owner'[g].pid # 0
<1> DEFINE o == [pid |-> q, vpn |-> w]
<1>1. o \in OwnerType /\ o.pid = q /\ o.vpn = w /\ q # 0
  BY Constants DEF OwnerType
<1>2. pm_owner \in [Frames -> OwnerType] /\ pm_owner' = [pm_owner EXCEPT ![f] = o]
  BY DEF Inv, Types, TableTypes
<1> HIDE DEF o
<1>3. /\ pm_owner' \in [Frames -> OwnerType]
      /\ \A g \in Frames : pm_owner'[g] = IF g = f THEN o ELSE pm_owner[g]
  BY <1>1, <1>2
<1>4. ASSUME NEW g \in Frames, pm_owner'[g].pid # 0
      PROVE  IsMapped(pm_owner[g].pid, pm_owner[g].vpn)'
  <2>1. PICK p \in Pids, v \in Pages : p = pm_owner'[g].pid /\ v = pm_owner'[g].vpn
    BY <1>3 DEF OwnerType
  <2>2. IsMapped(p, v) \/ (p = q /\ v = w)
    BY <1>1, <1>3, <1>4, <2>1 DEF Inv, Owners
  <2>3. IsMapped(p, v)'
    BY <2>2 DEF SetMap
  <2> QED BY <2>1, <2>3
<1>5. \A g \in Frames : (pm_owner[g].pid # 0 \/ g = f) => pm_owner'[g].pid # 0
  BY <1>1, <1>3
<1> QED BY <1>3, <1>4, <1>5

\* The rest of swap_out changes no table.
LEMMA RejoinInv == Inv /\ Rejoin => Inv'
<1> SUFFICES ASSUME Inv, Rejoin PROVE Inv'
  OBVIOUS
<1>1. PICK c : c = Current
  OBVIOUS
<1> DEFINE r == [fault[c] EXCEPT !.at = "frame"]
<1>2. /\ UNCHANGED <<current_running, in, boosted, panic, pid_list, sem, io_task, tableVars, tlb,
                     dataVars, io, raced>>
      /\ At("out") /\ removed' = removed \ {fault[c].victim}
      /\ fault' = [fault EXCEPT ![c] = r]
  BY <1>1 DEF Rejoin
<1>3. /\ c \in Tasks /\ c \in Pids /\ fault[c] \in FaultType /\ fault[c].at = "out"
      /\ FaultOK(c)
  BY <1>1, <1>2, Faulting
<1>4. r \in FaultType /\ r.at = "frame" /\ r.vpn = fault[c].vpn
  BY <1>3, FaultMoves
<1> HIDE DEF r
<1>5. fault' \in [Pids -> FaultType] /\ fault'[c] = r
      /\ \A p \in Tasks : p # c => fault'[p] = fault[p]
  BY <1>2, <1>3, <1>4, Constants DEF Inv, Types, FaultTypes
<1>6. Types'
  BY <1>2, <1>5 DEF Inv, Types, SchedTypes, ListTypes, TableTypes, TlbTypes, IoTypes,
                    DataTypes, FaultTypes, tableVars, dataVars
<1>7. Alive'
  BY <1>2 DEF Inv, Alive, Current
<1>8. Tables' /\ SameMap
  BY <1>2, SameTables DEF Inv, tableVars
<1>9. Owners'
  <2>1. \A p \in Tasks : fault[p].at \in {"user", "walk", "write"} =>
                           fault'[p].at \in {"user", "walk", "write"}
    BY <1>3, <1>5
  <2> QED BY <1>2, <1>8, <2>1, KeepOwners DEF Inv, Types, tableVars
<1>10. TlbInv'
  BY <1>2, <1>8, KeepTlb DEF Inv, Types
<1>11. FaultOK(c)'
  <2>1. fault[c].vpn \in Pages /\ Keeps(c)
    BY <1>3, <1>8, SameKeeps DEF FaultType
  <2>2. PICK v \in Pages : v = fault[c].vpn
    BY <2>1
  <2>3. Walked(c, v)' /\ ~ IsPresent(c, v)'
    BY <1>3, <2>1, <2>2 DEF FaultOK, Keeps
  <2>4. c = Current'
    BY <1>1, <1>2 DEF Current
  <2> QED BY <1>4, <1>5, <2>2, <2>3, <2>4 DEF FaultOK
<1>12. Faults'
  BY <1>1, <1>2, <1>3, <1>4, <1>8, <1>11, SameKeeps, Constants, FaultStep
<1>13. Placed'
  BY <1>8, KeepPlaced DEF Inv
<1> QED BY <1>6, <1>7, <1>8, <1>9, <1>10, <1>12, <1>13 DEF Inv

\* The rest of swap_in makes the page present.
LEMMA PageInMap ==
  ASSUME Inv, PageIn
  PROVE  /\ Current \in Tasks /\ Vpn \in Pages /\ fault[Current].frame \in Frames
         /\ Away(Current, Vpn) /\ fault[Current] \in FaultType /\ fault[Current].at = "in"
         /\ Vpn = fault[Current].vpn
         /\ page_table_pool' \in PoolType /\ Tables'
         /\ SetMap(Current, Vpn, PteOf(1, fault[Current].frame))
         /\ Freed(swap_area_slist, swap_area_slist', SWAP_AREA_SIZE, fault[Current].slot)
         /\ pm_owner' = [pm_owner EXCEPT ![fault[Current].frame] = [pid |-> Current, vpn |-> Vpn]]
<1>1. PICK c : c = Current
  OBVIOUS
<1>2. PICK f, s, n : f = fault[c].frame /\ s = fault[c].slot /\ n = page_dir[c][Vpn[1]].pool_num
  OBVIOUS
<1>3. /\ At("in") /\ swap_area_slist' = slist_free(swap_area_slist, s, SWAP_AREA_SIZE)
      /\ page_table_pool' = [page_table_pool EXCEPT ![n][Vpn[2]].present = 1, ![n][Vpn[2]].addr = f]
      /\ pm_owner' = [pm_owner EXCEPT ![f] = [pid |-> c, vpn |-> Vpn]]
      /\ UNCHANGED <<pid_list, pt_pool_slist, page_dir>>
  BY <1>1, <1>2 DEF PageIn, swap_area_free, Owned
<1>4. /\ c \in Tasks /\ Vpn \in Pages /\ fault[c] \in FaultType /\ fault[c].at = "in"
      /\ Vpn = fault[c].vpn /\ Away(c, Vpn)
  BY <1>1, <1>3, Faulting DEF FaultOK
<1>5. f \in Frames /\ s \in Slots /\ f \in Frames \cup Slots /\ s \in Int
  <2>1. f \in Frames /\ s \in Slots
    BY <1>2, <1>4 DEF FaultType
  <2> QED BY <2>1, Constants
<1>6. /\ page_table_pool' \in PoolType /\ Tables'
      /\ SetMap(c, Vpn, PteOf(1, f))
  <2>1. PICK v \in Pages : v = Vpn
    BY <1>4
  <2>2. /\ page_table_pool' \in PoolType /\ Tables'
        /\ SetMap(c, v, PteOf(1, f))
    <3> DEFINE one == 1
    <3>1. one \in 0 .. 1
      OBVIOUS
    <3>2. page_table_pool' = [page_table_pool EXCEPT ![n][v[2]].present = one, ![n][v[2]].addr = f]
      BY <1>3, <2>1
    <3>3. n = page_dir[c][v[1]].pool_num
      BY <1>2, <2>1
    <3> HIDE DEF one
    <3>4. TableTypes /\ Tables /\ IsMapped(c, v) /\ c \in Tasks
      BY <1>4, <2>1 DEF Inv, Types, Away
    <3>5. page_table_pool' \in PoolType /\ Tables' /\ SetMap(c, v, PteOf(one, f))
      BY <1>3, <1>5, <3>1, <3>2, <3>3, <3>4, WriteFields
    <3> QED BY <3>5 DEF one
  <2> QED BY <2>1, <2>2
<1>7. Freed(swap_area_slist, swap_area_slist', SWAP_AREA_SIZE, s)
  BY <1>3, <1>5, ListFree, Constants DEF Inv, Types, ListTypes
<1> QED BY <1>1, <1>2, <1>3, <1>4, <1>5, <1>6, <1>7

\* The rest of swap_in.
LEMMA PageInInv == Inv /\ PageIn => Inv'
<1> SUFFICES ASSUME Inv, PageIn PROVE Inv'
  OBVIOUS
<1>1. PICK c, v, f : c = Current /\ v = Vpn /\ f = fault[c].frame
  OBVIOUS
<1> DEFINE r == [fault[c] EXCEPT !.at = "write"]
           pte == PteOf(1, f)
<1>2. /\ UNCHANGED <<schedVars, pid_list, sem, io_task, pm_slist, pt_pool_slist, page_dir,
                     tlb, dataVars, io, raced>>
      /\ fault' = [fault EXCEPT ![c] = r]
  BY <1>1 DEF PageIn
<1>3. /\ c \in Tasks /\ v \in Pages /\ f \in Frames /\ Away(c, v) /\ fault[c] \in FaultType
      /\ fault[c].at = "in" /\ v = fault[c].vpn
      /\ page_table_pool' \in PoolType /\ Tables' /\ SetMap(c, v, pte)
      /\ Freed(swap_area_slist, swap_area_slist', SWAP_AREA_SIZE, fault[c].slot)
      /\ pm_owner' = [pm_owner EXCEPT ![f] = [pid |-> c, vpn |-> v]]
  BY <1>1, PageInMap
<1>4. pte.present = 1
  BY DEF PteOf
<1>5. r \in FaultType /\ r.at = "write" /\ r.vpn = v
  BY <1>3, FaultMoves
<1> HIDE DEF r, pte
<1>6. fault' \in [Pids -> FaultType] /\ fault'[c] = r
  BY <1>2, <1>3, <1>5, Constants DEF Inv, Types, FaultTypes
<1>7. /\ pm_owner' \in [Frames -> OwnerType]
      /\ (\A g \in Frames : pm_owner[g].pid # 0 => IsMapped(pm_owner[g].pid, pm_owner[g].vpn))'
      /\ \A g \in Frames : (pm_owner[g].pid # 0 \/ g = f) => pm_owner'[g].pid # 0
  BY <1>3, SetOwners
<1>8. Types'
  BY <1>2, <1>3, <1>6, <1>7 DEF Inv, Types, SchedTypes, ListTypes, TableTypes, TlbTypes, IoTypes,
                    DataTypes, FaultTypes, schedVars, dataVars, Freed
<1>9. Alive'
  BY <1>2 DEF Inv, Alive, Current, schedVars
<1>10. Owners'
  <2>1. \A g \in RealFrames : pm_owner[g].pid # 0
    BY <1>3 DEF Inv, Owners
  <2>2. \A g \in RealFrames : pm_owner'[g].pid # 0
    BY <1>7, <2>1, Constants
  <2> QED BY <1>7, <2>2 DEF Owners
<1>11. TlbInv'
  <2>1. ~ IsPresent(c, v)
    BY <1>3 DEF Away, IsPresent
  <2> QED BY <1>2, <1>3, <2>1, SetTlb
<1>12. FaultOK(c)'
  <2>1. IsPresent(c, v)'
    BY <1>3, <1>4, Constants DEF SetMap, IsPresent
  <2> QED BY <1>1, <1>2, <1>5, <1>6, <2>1 DEF FaultOK, Current, schedVars
<1>13. Faults'
  <2>1. \A p \in Tasks : p # c => Keeps(p)
    BY <1>3, SetKeeps
  <2> QED BY <1>1, <1>2, <1>3, <1>5, <1>12, <2>1, FaultStep
<1>14. Placed'
  BY <1>3, SetPlaced DEF Inv, pte
<1> QED BY <1>3, <1>8, <1>9, <1>10, <1>11, <1>13, <1>14 DEF Inv

\* The page of the fault is present when the entry is written.
LEMMA WriteReady ==
  ASSUME Inv, TlbWrite
  PROVE  /\ Current \in Tasks /\ Vpn \in Pages /\ panic = 0 /\ IsPresent(Current, Vpn)
         /\ fault[Current].at \in {"walk", "write"}
<1>1. CASE At("write")
  BY <1>1, Faulting DEF FaultOK
<1>2. CASE At("walk") /\ ~ NeedsFrame
  <2>1. /\ Current \in Tasks /\ Current \in Pids /\ Vpn \in Pages /\ panic = 0
        /\ Walked(Current, Vpn) /\ fault[Current].at = "walk"
    BY <1>2, Faulting
  <2>2. Pte(Current, Vpn).valid = 1 /\ Pte(Current, Vpn).present = 1
    BY <1>2, <2>1, PteType DEF NeedsFrame, Inv, Types
  <2> QED BY <2>1, <2>2 DEF IsPresent, IsMapped
<1> QED BY <1>1, <1>2 DEF TlbWrite

\* One entry is written over at most one other.
LEMMA WriteTlb ==
  ASSUME Inv, TlbWrite
  PROVE  /\ TlbTypes'
         /\ \A x \in tlb' : x \in tlb \/ x = [pid |-> Current, vpn |-> Vpn,
                                             frame |-> Pte(Current, Vpn).addr, valid |-> 1]
         /\ [pid |-> Current, vpn |-> Vpn, frame |-> Pte(Current, Vpn).addr, valid |-> 1] \in tlb'
<1>1. PICK e : e = [pid |-> Current, vpn |-> Vpn, frame |-> Pte(Current, Vpn).addr, valid |-> 1]
  OBVIOUS
<1> DEFINE old == {x \in tlb : x.pid = Current /\ x.vpn = Vpn}
           N == TLB_ENTRY_NUMBER
<1>2. e \in Entry
  <2>1. /\ Current \in Tasks /\ Vpn \in Pages /\ IsPresent(Current, Vpn)
    BY WriteReady
  <2>2. Pte(Current, Vpn).addr \in Frames
    BY <2>1 DEF Inv, Placed
  <2> QED BY <1>1, <2>1, <2>2 DEF Entry
<1>3. /\ tlb \subseteq Entry /\ IsFiniteSet(tlb) /\ Cardinality(tlb) <= N
      /\ N \in Nat /\ Cardinality(tlb) \in Nat
  BY FS_CardinalityType, MemoryAssumption DEF Inv, Types, TlbTypes
<1>4. ASSUME NEW x \in SUBSET tlb, tlb' = (tlb \ x) \cup {e}, Cardinality(tlb \ x) < N
      PROVE  TlbTypes' /\ (\A y \in tlb' : y \in tlb \/ y = e) /\ e \in tlb'
  <2> DEFINE rest == tlb \ x
  <2>1. rest \subseteq tlb /\ rest \in SUBSET tlb
    OBVIOUS
  <2>2. IsFiniteSet(rest) /\ Cardinality(rest) \in Nat
    BY <1>3, <2>1, FS_Subset, FS_CardinalityType
  <2>3. tlb' = rest \cup {e} /\ Cardinality(rest) < N
    BY <1>4
  <2> HIDE DEF rest
  <2>4. IsFiniteSet(rest \cup {e})
        /\ Cardinality(rest \cup {e}) = IF e \in rest THEN Cardinality(rest) ELSE Cardinality(rest) + 1
    BY <2>2, FS_AddElement
  <2>5. Cardinality(rest \cup {e}) <= N
    BY <1>3, <2>2, <2>3, <2>4
  <2> QED BY <1>2, <1>3, <2>1, <2>3, <2>4, <2>5 DEF TlbTypes
<1>5. CASE tlb' = (tlb \ old) \cup {e} /\ old # {}
  <2> DEFINE rest == tlb \ old
  <2>1. rest \in SUBSET tlb /\ rest # tlb /\ old \in SUBSET tlb
    BY <1>5
  <2> HIDE DEF old
  <2>2. IsFiniteSet(rest) /\ Cardinality(rest) \in Nat /\ Cardinality(rest) <= Cardinality(tlb)
        /\ Cardinality(tlb) # Cardinality(rest)
    BY <1>3, <2>1, FS_Subset, FS_CardinalityType
  <2>3. Cardinality(rest) < N
    BY <1>3, <2>2
  <2> QED BY <1>1, <1>4, <1>5, <2>1, <2>3
<1>6. CASE \E x \in SUBSET tlb : Cardinality(tlb \ x) < N /\ tlb' = (tlb \ x) \cup {e}
  BY <1>1, <1>4, <1>6
<1>7. \/ tlb' = (tlb \ old) \cup {e} /\ old # {}
      \/ \E x \in SUBSET tlb : Cardinality(tlb \ x) < N /\ tlb' = (tlb \ x) \cup {e}
  BY <1>1 DEF TlbWrite
<1> QED BY <1>5, <1>6, <1>7

\* The end of a fault.
LEMMA TlbWriteInv == Inv /\ TlbWrite => Inv'
<1> SUFFICES ASSUME Inv, TlbWrite PROVE Inv'
  OBVIOUS
<1>1. PICK c, v : c = Current /\ v = Vpn
  OBVIOUS
<1>2. /\ UNCHANGED <<schedVars, pid_list, sem, io_task, tableVars, dataVars, io, raced>>
      /\ fault' = [fault EXCEPT ![c] = Idle]
  BY <1>1 DEF TlbWrite
<1>3. c \in Tasks /\ v \in Pages /\ IsPresent(c, v) /\ c \in Pids
  BY <1>1, WriteReady, Constants
<1>4. PICK e : e = [pid |-> c, vpn |-> v, frame |-> Pte(c, v).addr, valid |-> 1]
  OBVIOUS
<1>5. TlbTypes' /\ \A x \in tlb' : x \in tlb \/ x = e
  BY <1>1, <1>4, WriteTlb
<1>6. fault' \in [Pids -> FaultType] /\ fault'[c] = Idle
      /\ \A p \in Tasks : p # c => fault'[p] = fault[p]
  BY <1>2, <1>3, BootTypes, Constants DEF Inv, Types, FaultTypes
<1>7. Types'
  BY <1>2, <1>5, <1>6 DEF Inv, Types, SchedTypes, ListTypes, TableTypes, IoTypes,
                    DataTypes, FaultTypes, schedVars, tableVars, dataVars
<1>8. Alive'
  BY <1>2 DEF Inv, Alive, Current, schedVars
<1>9. Tables' /\ SameMap
  BY <1>2, SameTables DEF Inv, tableVars
<1>10. Owners'
  <2>1. \A p \in Tasks : fault[p].at \in {"user", "walk", "write"} =>
                           fault'[p].at \in {"user", "walk", "write"}
    BY <1>6, BootTypes
  <2> QED BY <1>2, <1>9, <2>1, KeepOwners DEF Inv, Types, tableVars
<1>11. TlbInv'
  <2>1. ASSUME NEW x \in tlb', x.valid = 1
        PROVE  IsPresent(x.pid, x.vpn) /\ Pte(x.pid, x.vpn).addr = x.frame
    <3>1. CASE x \in tlb
      BY <2>1, <3>1 DEF Inv, TlbInv
    <3>2. CASE x = e
      <4>1. x.pid = c /\ x.vpn = v /\ x.frame = Pte(c, v).addr
        BY <1>4, <3>2
      <4> QED BY <1>3, <4>1
    <3> QED BY <1>5, <3>1, <3>2
  <2> QED BY <1>2, <2>1 DEF TlbInv, IsPresent, IsMapped, Walked, Pte, tableVars
<1>12. FaultOK(c)'
  BY <1>6, BootTypes DEF FaultOK
<1>13. Faults'
  BY <1>1, <1>2, <1>3, <1>9, <1>12, SameKeeps, BootTypes, Constants, FaultStep
<1>14. Placed'
  BY <1>9, KeepPlaced DEF Inv
<1> QED BY <1>7, <1>8, <1>9, <1>10, <1>11, <1>13, <1>14 DEF Inv

\* What a request to io_proc changes, whether or not it blocks the caller.
LEMMA RequestStep ==
  ASSUME Inv, Current \in Tasks, panic = 0, NEW type \in {"READ", "WRITE"}, NEW f \in Frames,
         NEW s \in Slots, removed' \subseteq Tasks, Request(type, f, s)
  PROVE  /\ SchedTypes' /\ sem' \in [Sems -> Int] /\ io_task' \in RequestType
         /\ io_task' = [type |-> type, frame |-> f, slot |-> s]
         /\ sem'["io_tasks"] = sem["io_tasks"] + 1 /\ sem'["io_done"] = sem["io_done"] - 1
         /\ \E w \in Woken("io_tasks", removed') : Downed("io_done", w)
         /\ \A p \in Tasks : in'[p] = "none" <=> in[p] = "none"
         /\ current_running' = current_running \/ in'[current_running'] = "ready"
<1> DEFINE a == "io_tasks"
           b == "io_done"
<1>1. /\ io_task' = [type |-> type, frame |-> f, slot |-> s]
      /\ sem' = [sem EXCEPT ![a] = @ + 1, ![b] = @ - 1]
  BY DEF Request
<1>2. PICK w \in Woken(a, removed') : SemDown(b, w)
  BY DEF Request
<1>3. a \in Sems /\ b \in Sems /\ a # b /\ a # "none" /\ b # "none"
  BY DEF Sems
<1> HIDE DEF a, b
<1>4. w \subseteq Tasks /\ \A p \in w : in[p] = a
  BY <1>2, WokenTasks
<1>5. Downed(b, w)
  BY <1>2, <1>3, <1>4, DownStep DEF Inv, Types
<1>6. io_task' \in RequestType
  BY <1>1 DEF RequestType
<1>7. sem \in [Sems -> Int]
  BY DEF Inv, Types, IoTypes
<1>8. sem' \in [Sems -> Int] /\ sem'[a] = sem[a] + 1 /\ sem'[b] = sem[b] - 1
  BY <1>1, <1>3, <1>7
<1>9. in[Current] # "none"
  BY Constants DEF Inv, Alive
<1>10. \A p \in Tasks : in'[p] = "none" <=> in[p] = "none"
  BY <1>3, <1>4, <1>5, <1>9 DEF Downed
<1>11. current_running' = current_running \/ in'[current_running'] = "ready"
  BY <1>5 DEF Downed, Current
<1>12. \E u \in Woken(a, removed') : Downed(b, u)
  BY <1>2, <1>5
<1> QED BY <1>1, <1>5, <1>6, <1>8, <1>10, <1>11, <1>12 DEF Downed, a, b

\* The fault of c becomes t.
Becomes(c, t) == t \in FaultType /\ fault' = [fault EXCEPT ![c] = t] /\ t.vpn = fault[c].vpn

\* The fault of c when it waits for its page, and when it waits for the page of
\* q to be written.
WaitIn(c, f, s) == [fault EXCEPT ![c].at = "in", ![c].frame = f, ![c].slot = s]
WaitOut(c, q, s) == [fault EXCEPT ![c].at = "out", ![c].victim = q, ![c].slot = s]

\* The first of these is a step of the fault of c.
LEMMA FaultIn ==
  ASSUME NEW c \in Tasks, fault \in [Pids -> FaultType], NEW f \in Frames, NEW s \in Slots,
         fault' = WaitIn(c, f, s)
  PROVE  \E t : Becomes(c, t) /\ t.at = "in" /\ t.frame = f /\ t.slot = s
<1> DEFINE t == [fault[c] EXCEPT !.at = "in", !.frame = f, !.slot = s]
<1>1. c \in Pids /\ fault[c] \in FaultType
  BY Constants
<1>2. t \in FaultType /\ t.vpn = fault[c].vpn /\ t.at = "in" /\ t.frame = f /\ t.slot = s
  BY <1>1 DEF FaultType
<1>3. fault' = [fault EXCEPT ![c] = t]
  BY <1>1 DEF WaitIn
<1>4. Becomes(c, t)
  BY <1>2, <1>3 DEF Becomes
<1> QED BY <1>2, <1>4

\* So is the second.
LEMMA FaultOut ==
  ASSUME NEW c \in Tasks, fault \in [Pids -> FaultType], NEW q \in Pids, NEW s \in Slots,
         fault' = WaitOut(c, q, s)
  PROVE  \E t : Becomes(c, t) /\ t.at = "out" /\ t.victim = q /\ t.slot = s
<1> DEFINE t == [fault[c] EXCEPT !.at = "out", !.victim = q, !.slot = s]
<1>1. c \in Pids /\ fault[c] \in FaultType
  BY Constants
<1>2. t \in FaultType /\ t.vpn = fault[c].vpn /\ t.at = "out" /\ t.victim = q /\ t.slot = s
  BY <1>1 DEF FaultType
<1>3. fault' = [fault EXCEPT ![c] = t]
  BY <1>1 DEF WaitOut
<1>4. Becomes(c, t)
  BY <1>2, <1>3 DEF Becomes
<1> QED BY <1>2, <1>4

\* TakeFrame in terms of the map: the running task c gets the frame f for its
\* page v ...
Take(c, v, f) ==
  /\ c \in Tasks /\ v \in Pages /\ f \in Frames
  /\ c = Current /\ v = fault[c].vpn /\ panic = 0
  /\ fault[c].at \in {"walk", "frame"} /\ (f = -1 => fault[c].at = "frame")
  /\ Walked(c, v) /\ ~ IsPresent(c, v)
  /\ pm_slist' = slist_alloc(pm_slist) /\ f + 1 = slist_alloc_ret(pm_slist)
  /\ Allocated(pm_slist, pm_slist', PM_SLIST_SIZE, f + 1)
  /\ raced' = (raced \/ InTransit)
  /\ UNCHANGED <<removed, pid_list, pt_pool_slist, page_dir, swap_area_slist, tlb, mem, swap, io>>

\* ... which is new ...
TakeNew(c, v, f) ==
  /\ ~ IsMapped(c, v) /\ SetMap(c, v, PteOf(1, f))
  /\ page_table_pool' \in PoolType /\ Tables'
  /\ pm_owner' = [pm_owner EXCEPT ![f] = [pid |-> c, vpn |-> v]]
  /\ expected' = IF c \in Users THEN [expected EXCEPT ![c][v] = mem[f]] ELSE expected
  /\ fault' = [fault EXCEPT ![c].at = "write"]
  /\ UNCHANGED <<current_running, in, boosted, panic, sem, io_task>>

\* ... or in slot s, and the fault becomes t.
TakeOld(c, v, f, s, t) ==
  /\ Away(c, v) /\ SameMap /\ Tables' /\ s \in Slots /\ t \in FaultType
  /\ s = IF fault[c].at = "walk" THEN Pte(c, v).addr ELSE fault[c].slot
  /\ Request("READ", f, s)
  /\ fault' = [fault EXCEPT ![c] = t] /\ t.vpn = v /\ t.at = "in" /\ t.frame = f /\ t.slot = s
  /\ UNCHANGED <<pm_owner, page_table_pool, expected>>

\* What pm_alloc returns.
LEMMA AllocFrame ==
  ASSUME ListTypes, pm_slist' = slist_alloc(pm_slist)
  PROVE  /\ pm_alloc \in Frames /\ pm_alloc + 1 = slist_alloc_ret(pm_slist)
         /\ Allocated(pm_slist, pm_slist', PM_SLIST_SIZE, pm_alloc + 1)
         /\ pm_alloc = -1 => slist_is_insufficient(pm_slist)
<1> DEFINE x == slist_alloc_ret(pm_slist)
           n == PM_SLIST_SIZE
<1>1. Allocated(pm_slist, pm_slist', n, x)
  BY ListAlloc, Constants DEF ListTypes
<1>2. x \in 0 .. n - 1 /\ pm_alloc = x - 1 /\ n \in Nat
  BY <1>1, Constants DEF Allocated, pm_alloc
<1> HIDE DEF x, n
<1>3. pm_alloc \in -1 .. n - 2 /\ pm_alloc + 1 = x
  BY <1>2
<1>4. pm_alloc = -1 => x = 0
  BY <1>2
<1> QED BY <1>1, <1>3, <1>4 DEF Allocated, Frames, n, x

\* TakeFrame is one of these two.
LEMMA TakeCases ==
  ASSUME Inv, TakeFrame
  PROVE  \E c, v, f : /\ Take(c, v, f)
                      /\ TakeNew(c, v, f) \/ \E s, t : TakeOld(c, v, f, s, t)
<1>1. PICK c, v, f : c = Current /\ v = Vpn /\ f = pm_alloc
  OBVIOUS
<1>2. PICK s : s = IF At("walk") THEN Address ELSE fault[c].slot
  OBVIOUS
<1>3. /\ pm_slist' = slist_alloc(pm_slist) /\ raced' = (raced \/ InTransit)
      /\ UNCHANGED <<removed, pid_list, pt_pool_slist, page_dir, swap_area_slist, tlb, mem, swap, io>>
  BY DEF TakeFrame
<1>4. /\ c \in Tasks /\ c \in Pids /\ v \in Pages /\ panic = 0 /\ fault[c] \in FaultType
      /\ v = fault[c].vpn /\ fault[c].at \in {"walk", "frame"}
      /\ Walked(c, v) /\ ~ IsPresent(c, v)
      /\ fault[c].at = "walk" => ~ slist_is_insufficient(pm_slist)
  <2>1. CASE At("walk") /\ NeedsFrame /\ ~ slist_is_insufficient(pm_slist)
    <3>1. /\ c \in Tasks /\ c \in Pids /\ v \in Pages /\ panic = 0 /\ fault[c] \in FaultType
          /\ v = fault[c].vpn /\ fault[c].at = "walk" /\ Walked(c, v)
      BY <1>1, <2>1, Faulting
    <3>2. ~ IsPresent(c, v)
      BY <1>1, <2>1 DEF NeedsFrame, IsPresent, IsMapped
    <3> QED BY <2>1, <3>1, <3>2
  <2>2. CASE At("frame")
    <3>1. /\ c \in Tasks /\ c \in Pids /\ v \in Pages /\ panic = 0 /\ fault[c] \in FaultType
          /\ v = fault[c].vpn /\ fault[c].at = "frame" /\ FaultOK(c)
      BY <1>1, <2>2, Faulting
    <3> QED BY <3>1 DEF FaultOK
  <2> QED BY <2>1, <2>2 DEF TakeFrame
<1>5. f \in Frames /\ Allocated(pm_slist, pm_slist', PM_SLIST_SIZE, f + 1)
      /\ (f = -1 => slist_is_insufficient(pm_slist)) /\ f + 1 = slist_alloc_ret(pm_slist)
  BY <1>1, <1>3, AllocFrame DEF Inv, Types
<1>6. Take(c, v, f)
  BY <1>1, <1>3, <1>4, <1>5 DEF Take
<1>7. PICK n : n = page_dir[c][v[1]].pool_num
  OBVIOUS
<1>8. \/ /\ Pte(c, v).valid = 0
         /\ pm_owner' = [pm_owner EXCEPT ![f] = [pid |-> c, vpn |-> v]]
         /\ page_table_pool' = [page_table_pool EXCEPT
              ![n][v[2]] = [valid |-> 1, present |-> 1, addr |-> f]]
         /\ expected' = IF c \in Users THEN [expected EXCEPT ![c][v] = mem[f]] ELSE expected
         /\ fault' = [fault EXCEPT ![c].at = "write"]
         /\ UNCHANGED <<current_running, in, boosted, panic, sem, io_task>>
      \/ /\ Pte(c, v).valid = 1
         /\ swap_in(f, s)
         /\ UNCHANGED <<pm_owner, page_table_pool, expected>>
  BY <1>1, <1>2, <1>7 DEF TakeFrame
<1>9. ASSUME Pte(c, v).valid = 0,
             pm_owner' = [pm_owner EXCEPT ![f] = [pid |-> c, vpn |-> v]],
             page_table_pool' = [page_table_pool EXCEPT
               ![n][v[2]] = [valid |-> 1, present |-> 1, addr |-> f]],
             expected' = IF c \in Users THEN [expected EXCEPT ![c][v] = mem[f]] ELSE expected,
             fault' = [fault EXCEPT ![c].at = "write"],
             UNCHANGED <<current_running, in, boosted, panic, sem, io_task>>
      PROVE  TakeNew(c, v, f)
  <2> DEFINE one == 1
  <2>1. one \in 0 .. 1 /\ f \in Frames \cup Slots
    BY <1>5
  <2>2. PteOf(one, f) \in Pte0 /\ PteOf(one, f).valid = 1
    <3> HIDE DEF one
    <3> QED BY <2>1, PteRecord
  <2>3. page_table_pool' = [page_table_pool EXCEPT ![n][v[2]] = PteOf(one, f)]
    BY <1>9 DEF PteOf
  <2> HIDE DEF one
  <2>4. TableTypes /\ Tables
    BY DEF Inv, Types
  <2>5. page_table_pool' \in PoolType /\ Tables' /\ SetMap(c, v, PteOf(one, f))
    BY <1>3, <1>4, <1>7, <2>2, <2>3, <2>4, WritePte
  <2>6. ~ IsMapped(c, v)
    BY <1>9 DEF IsMapped
  <2> QED BY <1>9, <2>5, <2>6 DEF TakeNew, one
<1>10. ASSUME Pte(c, v).valid = 1, swap_in(f, s),
              UNCHANGED <<pm_owner, page_table_pool, expected>>
       PROVE  \E t : TakeOld(c, v, f, s, t)
  <2>1. Away(c, v)
    BY <1>4, <1>10, PteType DEF Inv, Types, Away, IsPresent, IsMapped
  <2>2. s = IF fault[c].at = "walk" THEN Pte(c, v).addr ELSE fault[c].slot
    BY <1>1, <1>2, <1>4, <1>10 DEF At, Address
  <2>3. s \in Slots
    BY <1>4, <2>1, <2>2 DEF Inv, Placed, FaultType
  <2>4. Tables' /\ SameMap
    BY <1>3, <1>10, SameTables DEF Inv
  <2>5. Request("READ", f, s) /\ fault' = WaitIn(c, f, s)
    BY <1>1, <1>10 DEF swap_in, WaitIn
  <2>6. fault \in [Pids -> FaultType]
    BY DEF Inv, Types, FaultTypes
  <2>7. PICK t : Becomes(c, t) /\ t.at = "in" /\ t.frame = f /\ t.slot = s
    BY <1>4, <1>5, <2>3, <2>5, <2>6, FaultIn
  <2> QED BY <1>4, <1>10, <2>1, <2>2, <2>3, <2>4, <2>5, <2>7 DEF TakeOld, Becomes
<1> QED BY <1>6, <1>8, <1>9, <1>10

\* The fault of the running task waits for io_proc.
LEMMA WaitingFault ==
  ASSUME Inv, NEW c \in Tasks, NEW t, Becomes(c, t)
  PROVE  /\ FaultTypes' /\ fault'[c] = t
         /\ \A p \in Pids : p # c => fault'[p] = fault[p]
BY Constants DEF Inv, Types, FaultTypes, Becomes

\* A new page is mapped.
LEMMA TakeNewInv ==
  ASSUME Inv, NEW c, NEW v, NEW f, Take(c, v, f), TakeNew(c, v, f)
  PROVE  Inv'
<1> DEFINE pte == PteOf(1, f)
           r == [fault[c] EXCEPT !.at = "write"]
<1>1. /\ c \in Tasks /\ c \in Pids /\ v \in Pages /\ f \in Frames /\ c = Current /\ v = fault[c].vpn
      /\ panic = 0 /\ fault[c].at \in {"walk", "frame"} /\ ~ IsPresent(c, v)
      /\ Allocated(pm_slist, pm_slist', PM_SLIST_SIZE, f + 1)
      /\ raced' = (raced \/ InTransit)
  BY Constants DEF Take
<1>2. /\ UNCHANGED <<removed, pid_list, pt_pool_slist, page_dir, swap_area_slist, tlb, mem, swap, io>>
      /\ UNCHANGED <<current_running, in, boosted, panic, sem, io_task>>
  BY DEF Take, TakeNew
<1>3. /\ ~ IsMapped(c, v) /\ SetMap(c, v, pte)
      /\ page_table_pool' \in PoolType /\ Tables'
      /\ pm_owner' = [pm_owner EXCEPT ![f] = [pid |-> c, vpn |-> v]]
      /\ fault' = [fault EXCEPT ![c] = r]
  BY DEF TakeNew
<1>4. fault[c] \in FaultType
  BY <1>1 DEF Inv, Types, FaultTypes
<1>5. r \in FaultType /\ r.at = "write" /\ r.vpn = v
  BY <1>1, <1>4, FaultMoves
<1>6. pte.present = 1
  BY DEF PteOf
<1> HIDE DEF r, pte
<1>7. fault' \in [Pids -> FaultType] /\ fault'[c] = r /\ \A p \in Tasks : p # c => fault'[p] = fault[p]
  BY <1>1, <1>3, <1>5, Constants DEF Inv, Types, FaultTypes
<1>8. /\ pm_owner' \in [Frames -> OwnerType]
      /\ (\A g \in Frames : pm_owner[g].pid # 0 => IsMapped(pm_owner[g].pid, pm_owner[g].vpn))'
      /\ \A g \in Frames : (pm_owner[g].pid # 0 \/ g = f) => pm_owner'[g].pid # 0
  BY <1>1, <1>3, SetOwners
<1>9. expected' \in [Users -> [Pages -> Values]] /\ raced' \in BOOLEAN
  <2>1. mem[f] \in Values /\ expected \in [Users -> [Pages -> Values]]
    BY <1>1 DEF Inv, Types, DataTypes
  <2>2. expected' = IF c \in Users THEN [expected EXCEPT ![c][v] = mem[f]] ELSE expected
    BY DEF TakeNew
  <2>3. expected' \in [Users -> [Pages -> Values]]
    BY <1>1, <2>1, <2>2
  <2> QED BY <1>1, <2>3 DEF InTransit, Inv, Types, DataTypes
<1>10. Types'
  BY <1>1, <1>2, <1>3, <1>7, <1>8, <1>9 DEF Inv, Types, SchedTypes, ListTypes, TableTypes, TlbTypes,
        IoTypes, DataTypes, FaultTypes, Allocated
<1>11. Alive'
  BY <1>2 DEF Inv, Alive, Current
<1>12. Owners'
  <2>1. ASSUME NEW g \in RealFrames, pm_slist'[g + 1].valid = 1 PROVE pm_owner'[g].pid # 0
    <3>1. g \in Frames /\ g + 1 \in 1 .. PM_SLIST_SIZE - 1
      BY Constants DEF RealFrames
    <3>2. CASE g = f
      BY <1>8, <3>1, <3>2
    <3>3. CASE g # f
      <4>1. g + 1 # f + 1
        BY <1>1, <3>1, <3>3, Constants
      <4>2. pm_slist[g + 1].valid = 1
        BY <1>1, <2>1, <3>1, <4>1 DEF Allocated
      <4> QED BY <1>8, <3>1, <4>2 DEF Inv, Owners
    <3> QED BY <3>2, <3>3
  <2>2. CASE \A g \in RealFrames : pm_owner[g].pid # 0
    BY <1>8, <2>1, <2>2, Constants DEF Owners
  <2>3. CASE /\ \A p \in Tasks, u \in Pages : ~ Away(p, u)
             /\ \A p \in Tasks : fault[p].at \in {"user", "walk", "write"}
    <3>1. \A p \in Tasks, u \in Pages : ~ Away(p, u)'
      BY <1>3, <1>6, <2>3, Constants DEF SetMap, Away
    <3>2. \A p \in Tasks : fault'[p].at \in {"user", "walk", "write"}
      BY <1>5, <1>7, <2>3
    <3> QED BY <1>8, <2>1, <3>1, <3>2 DEF Owners
  <2> QED BY <2>2, <2>3 DEF Inv, Owners
<1>13. TlbInv'
  BY <1>1, <1>2, <1>3, SetTlb
<1>14. FaultOK(c)'
  <2>1. IsPresent(c, v)'
    BY <1>1, <1>3, <1>6, Constants DEF SetMap, IsPresent
  <2> QED BY <1>1, <1>2, <1>5, <1>7, <2>1 DEF FaultOK, Current
<1>15. Faults'
  <2>1. \A p \in Tasks : p # c => Keeps(p)
    BY <1>1, <1>3, SetKeeps
  <2> QED BY <1>1, <1>3, <1>5, <1>14, <2>1, FaultStep
<1>16. Placed'
  BY <1>1, <1>3, SetPlaced DEF Inv, pte
<1> QED BY <1>3, <1>10, <1>11, <1>12, <1>13, <1>15, <1>16 DEF Inv

\* An old page is asked for.
LEMMA TakeOldInv ==
  ASSUME Inv, NEW c, NEW v, NEW f, NEW s, NEW t, Take(c, v, f), TakeOld(c, v, f, s, t)
  PROVE  Inv'
<1>1. /\ c \in Tasks /\ c \in Pids /\ v \in Pages /\ f \in Frames /\ c = Current /\ v = fault[c].vpn
      /\ panic = 0 /\ fault[c].at \in {"walk", "frame"}
      /\ Allocated(pm_slist, pm_slist', PM_SLIST_SIZE, f + 1)
      /\ raced' = (raced \/ InTransit)
      /\ UNCHANGED <<removed, pid_list, pt_pool_slist, page_dir, swap_area_slist, tlb, mem, swap, io>>
  BY Constants DEF Take
<1>2. /\ Away(c, v) /\ SameMap /\ Tables' /\ s \in Slots
      /\ Request("READ", f, s) /\ Becomes(c, t) /\ t \in FaultType /\ t.vpn = v /\ t.at = "in"
      /\ UNCHANGED <<pm_owner, page_table_pool, expected>>
  BY <1>1 DEF TakeOld, Becomes
<1>3. FaultTypes' /\ fault'[c] = t /\ \A p \in Pids : p # c => fault'[p] = fault[p]
  BY <1>1, <1>2, WaitingFault
<1>4. /\ SchedTypes' /\ sem' \in [Sems -> Int] /\ io_task' \in RequestType
      /\ \A p \in Tasks : in'[p] = "none" <=> in[p] = "none"
      /\ current_running' = current_running \/ in'[current_running'] = "ready"
  <2>1. removed' \subseteq Tasks /\ Current \in Tasks
    BY <1>1 DEF Inv, Types, SchedTypes
  <2> DEFINE type == "READ"
  <2>2. type \in {"READ", "WRITE"} /\ Request(type, f, s)
    BY <1>2
  <2> HIDE DEF type
  <2> QED BY <1>1, <1>2, <2>1, <2>2, RequestStep
<1>5. Types'
  BY <1>1, <1>2, <1>3, <1>4 DEF Inv, Types, ListTypes, TableTypes, TlbTypes, IoTypes, DataTypes,
        Allocated, InTransit
<1>6. Alive'
  BY <1>1, <1>4, AliveStep
<1>7. Owners'
  <2>1. \A g \in RealFrames : pm_owner'[g].pid # 0
    BY <1>1, <1>2 DEF Inv, Owners
  <2>2. ASSUME NEW g \in Frames, pm_owner[g].pid # 0
        PROVE  IsMapped(pm_owner[g].pid, pm_owner[g].vpn)'
    <3>1. PICK p \in Pids, u \in Pages : p = pm_owner[g].pid /\ u = pm_owner[g].vpn
      BY DEF Inv, Types, TableTypes, OwnerType
    <3>2. IsMapped(p, u)'
      BY <1>2, <2>2, <3>1 DEF SameMap, Inv, Owners
    <3>3. p = pm_owner'[g].pid /\ u = pm_owner'[g].vpn
      BY <1>2, <3>1
    <3> QED BY <3>2, <3>3
  <2> QED BY <1>2, <2>1, <2>2 DEF Owners
<1>8. TlbInv'
  BY <1>1, <1>2, KeepTlb DEF Inv, Types
<1>9. FaultOK(c)'
  <2>1. Away(c, v)'
    BY <1>1, <1>2, SameKeeps DEF Keeps
  <2> QED BY <1>2, <1>3, <2>1 DEF FaultOK
<1>10. Faults'
  BY <1>1, <1>2, <1>9, SameKeeps, Constants, FaultStep DEF Becomes
<1>11. Placed'
  BY <1>2, KeepPlaced DEF Inv
<1> QED BY <1>2, <1>5, <1>6, <1>7, <1>8, <1>10, <1>11 DEF Inv

\* Either way the invariant holds.
LEMMA TakeFrameInv == Inv /\ TakeFrame => Inv'
BY TakeCases, TakeNewInv, TakeOldInv

\* SwapOut in terms of the map: the running task c writes the page w of q, in
\* frame f, to slot s to make room for its page v, and its fault becomes t.
Swap(c, v, f, q, w, s, t) ==
  /\ c \in Tasks /\ v \in Pages /\ f \in RealFrames /\ f > 1 /\ q \in Tasks /\ w \in Pages
  /\ s \in Slots /\ c = Current /\ v = fault[c].vpn /\ panic = 0 /\ fault[c].at = "walk"
  /\ Walked(c, v) /\ ~ IsPresent(c, v) /\ IsMapped(q, w) /\ slist_is_insufficient(pm_slist)
  /\ pm_owner[f].pid = q /\ pm_owner[f].vpn = w
  /\ \A g \in RealFrames : pm_slist[g + 1].valid = 1 /\ pm_owner[g].pid # 0
  /\ Freed(pm_slist, pm_slist', PM_SLIST_SIZE, f + 1)
  /\ Allocated(swap_area_slist, swap_area_slist', SWAP_AREA_SIZE, s)
  /\ removed' = removed \cup ({q} \ {c}) /\ q \notin removed
  /\ page_table_pool' \in PoolType /\ Tables' /\ SetMap(q, w, PteOf(0, s))
  /\ tlb' = set_TLB_invalid(q, w)
  /\ Request("WRITE", f, s)
  /\ Becomes(c, t) /\ t.at = "out" /\ t.victim = q
  /\ t.slot = IF IsMapped(c, v) THEN Pte(c, v).addr ELSE 0
  /\ raced' = (raced \/ InTransit)
  /\ UNCHANGED <<pid_list, pm_owner, pt_pool_slist, page_dir, dataVars, io>>

\* swap_scheduler chooses one of the frames that may be taken.
LEMMA ChosenFrame ==
  ASSUME NEW t \in 0 .. PM_SLIST_SIZE - 1
  PROVE  swap_scheduler(t) \in RealFrames /\ swap_scheduler(t) > 1
<1> DEFINE m == PM_SLIST_SIZE - 3
<1>1. m \in Nat \ {0} /\ t \in Int
  BY MemoryAssumption
<1>2. t % m \in 0 .. m - 1
  <2> HIDE DEF m
  <2> QED BY <1>1
<1>3. 2 + (t % m) \in 2 .. PM_SLIST_SIZE - 2
  <2>1. PICK k : k = t % m
    OBVIOUS
  <2>2. k \in 0 .. PM_SLIST_SIZE - 4
    BY <1>2, <2>1, MemoryAssumption
  <2>3. 2 + k \in 2 .. PM_SLIST_SIZE - 2
    BY <2>2, MemoryAssumption
  <2> QED BY <2>1, <2>3
<1>4. \A x \in 2 .. PM_SLIST_SIZE - 2 : x \in RealFrames /\ x > 1
  BY MemoryAssumption DEF RealFrames
<1> QED BY <1>3, <1>4 DEF swap_scheduler

\* The slot of the page that the fault is about.
LEMMA AddressIs ==
  ASSUME Inv, NEW c \in Tasks, NEW v \in Pages, c = Current, v = Vpn, Walked(c, v), ~ IsPresent(c, v)
  PROVE  Address \in Slots /\ Address = IF IsMapped(c, v) THEN Pte(c, v).addr ELSE 0
<1>1. c \in Pids /\ Pte(c, v).valid \in 0 .. 1 /\ Pte(c, v).present \in 0 .. 1
  BY PteType, Constants DEF Inv, Types
<1>2. IsMapped(c, v) => Pte(c, v).addr \in Slots
  BY <1>1 DEF IsPresent, IsMapped, Away, Inv, Placed
<1>3. Address = IF Pte(c, v).valid = 1 THEN Pte(c, v).addr ELSE 0
  BY DEF Address
<1> QED BY <1>2, <1>3, Constants DEF IsMapped

\* Evict is such a step, or the kernel stops.
LEMMA EvictCases ==
  ASSUME Inv, Evict
  PROVE  \/ \E c, v, f, q, w, s, t : Swap(c, v, f, q, w, s, t)
         \/ panic' = 1 /\ UNCHANGED <<current_running, in, boosted, removed, sem, io_task, pm_slist,
              swap_area_slist, page_table_pool, tlb, fault, raced, pid_list, pm_owner,
              pt_pool_slist, page_dir, dataVars, io>>
<1>1. PICK k \in 0 .. PM_SLIST_SIZE - 1 :
        IF pm_owner[swap_scheduler(k)].pid \in removed
        THEN /\ panic' = 1
             /\ UNCHANGED <<current_running, in, boosted, removed, sem, io_task, pm_slist,
                            swap_area_slist, page_table_pool, tlb, fault, raced>>
        ELSE SwapOut(swap_scheduler(k))
  BY DEF Evict
<1>2. /\ At("walk") /\ NeedsFrame /\ slist_is_insufficient(pm_slist)
      /\ UNCHANGED <<pid_list, pm_owner, pt_pool_slist, page_dir, dataVars, io>>
  BY DEF Evict
<1>3. CASE pm_owner[swap_scheduler(k)].pid \in removed
  BY <1>1, <1>2, <1>3
<1>4. CASE pm_owner[swap_scheduler(k)].pid \notin removed
  <2>1. PICK f : f = swap_scheduler(k)
    OBVIOUS
  <2>2. f \in RealFrames /\ f > 1 /\ f \in Frames /\ f \in Int
    BY <2>1, ChosenFrame, Constants
  <2>3. PICK c, v, q, w, s : /\ c = Current /\ v = Vpn /\ q = pm_owner[f].pid
                             /\ w = pm_owner[f].vpn /\ s = swap_area_alloc
    OBVIOUS
  <2>4. /\ c \in Tasks /\ c \in Pids /\ v \in Pages /\ panic = 0 /\ fault[c] \in FaultType
        /\ v = fault[c].vpn /\ fault[c].at = "walk" /\ Walked(c, v)
    BY <1>2, <2>3, Faulting
  <2>5. ~ IsPresent(c, v)
    BY <1>2, <2>3 DEF NeedsFrame, IsPresent, IsMapped
  <2>6. \A g \in RealFrames : pm_slist[g + 1].valid = 1 /\ pm_owner[g].pid # 0
    <3>1. Allocated(pm_slist, slist_alloc(pm_slist), PM_SLIST_SIZE, slist_alloc_ret(pm_slist))
      BY ListAlloc, Constants DEF Inv, Types, ListTypes
    <3>2. \A i \in 1 .. PM_SLIST_SIZE - 1 : pm_slist[i].valid = 1
      BY <1>2, <3>1 DEF Allocated
    <3>3. \A g \in RealFrames : g + 1 \in 1 .. PM_SLIST_SIZE - 1
      BY Constants DEF RealFrames
    <3> QED BY <3>2, <3>3 DEF Inv, Owners
  <2>7. q \in Tasks /\ w \in Pages /\ IsMapped(q, w) /\ q \in Pids
    <3>1. q \in Pids /\ w \in Pages
      BY <2>2, <2>3 DEF Inv, Types, TableTypes, OwnerType
    <3>2. q # 0
      BY <2>2, <2>3, <2>6
    <3> QED BY <2>2, <2>3, <3>1, <3>2, Constants DEF Inv, Owners
  <2>8. PICK n : n = page_dir[q][w[1]].pool_num
    OBVIOUS
  <2>9. /\ removed' = removed \cup ({q} \ {c})
        /\ pm_slist' = slist_free(pm_slist, f + 1, PM_SLIST_SIZE)
        /\ swap_area_slist' = slist_alloc(swap_area_slist)
        /\ page_table_pool' = [page_table_pool EXCEPT ![n][w[2]].present = 0, ![n][w[2]].addr = s]
        /\ tlb' = set_TLB_invalid(q, w)
        /\ Request("WRITE", f, s)
        /\ fault' = WaitOut(c, q, Address)
        /\ raced' = (raced \/ InTransit)
    BY <1>1, <1>4, <2>1, <2>3, <2>8 DEF SwapOut, Withdrawn, pm_free, WaitOut
  <2>10. Allocated(swap_area_slist, swap_area_slist', SWAP_AREA_SIZE, s)
    BY <2>3, <2>9, ListAlloc, Constants DEF Inv, Types, ListTypes, swap_area_alloc
  <2>11. s \in Slots
    BY <2>10 DEF Allocated, Slots
  <2>12. Freed(pm_slist, pm_slist', PM_SLIST_SIZE, f + 1)
    BY <2>2, <2>9, ListFree, Constants DEF Inv, Types, ListTypes
  <2>13. page_table_pool' \in PoolType /\ Tables' /\ SetMap(q, w, PteOf(0, s))
    <3> DEFINE zero == 0
    <3>1. zero \in 0 .. 1 /\ s \in Frames \cup Slots
      BY <2>11
    <3>2. page_table_pool' = [page_table_pool EXCEPT ![n][w[2]].present = zero, ![n][w[2]].addr = s]
      BY <2>9
    <3> HIDE DEF zero
    <3>3. TableTypes /\ Tables
      BY DEF Inv, Types
    <3>4. page_table_pool' \in PoolType /\ Tables' /\ SetMap(q, w, PteOf(zero, s))
      BY <1>2, <2>7, <2>8, <3>1, <3>2, <3>3, WriteFields
    <3> QED BY <3>4 DEF zero
  <2>14. Address \in Slots /\ Address = IF IsMapped(c, v) THEN Pte(c, v).addr ELSE 0
    BY <2>3, <2>4, <2>5, AddressIs
  <2>15. PICK a \in Slots : a = Address
    BY <2>14
  <2>16. fault \in [Pids -> FaultType] /\ fault' = WaitOut(c, q, a)
    BY <2>9, <2>15 DEF Inv, Types, FaultTypes
  <2>17. PICK t : Becomes(c, t) /\ t.at = "out" /\ t.victim = q /\ t.slot = a
    BY <2>4, <2>7, <2>15, <2>16, FaultOut
  <2>18. q \notin removed
    BY <1>4, <2>1, <2>3
  <2>19. Swap(c, v, f, q, w, s, t)
    BY <1>2, <2>2, <2>3, <2>4, <2>5, <2>6, <2>7, <2>9, <2>10, <2>11, <2>12, <2>13, <2>14, <2>15,
       <2>17, <2>18 DEF Swap
  <2> QED BY <2>19
<1> QED BY <1>3, <1>4

\* swap_out marks the entry of the page in the TLB.
LEMMA SwapTlb ==
  ASSUME Inv, NEW q \in Tasks, NEW w \in Pages, NEW pte, SetMap(q, w, pte),
         tlb' = set_TLB_invalid(q, w)
  PROVE  TlbTypes' /\ TlbInv'
<1> DEFINE Mark(e) == IF e.pid = q /\ e.vpn = w THEN [e EXCEPT !.valid = 0, !.frame = 0] ELSE e
<1>1. tlb' = {Mark(e) : e \in tlb}
  BY DEF set_TLB_invalid
<1>2. tlb \subseteq Entry /\ IsFiniteSet(tlb) /\ Cardinality(tlb) <= TLB_ENTRY_NUMBER
  BY DEF Inv, Types, TlbTypes
<1>3. ASSUME NEW e \in tlb
      PROVE  /\ Mark(e) \in Entry /\ Mark(e).pid = e.pid /\ Mark(e).vpn = e.vpn
             /\ Mark(e).valid = 1 => Mark(e) = e /\ ~ (e.pid = q /\ e.vpn = w)
  <2>1. e \in Entry
    BY <1>2
  <2>2. CASE e.pid = q /\ e.vpn = w
    <3> DEFINE z == 0
               g == [e EXCEPT !.valid = z, !.frame = z]
    <3>1. z \in 0 .. 1 /\ z \in Frames /\ z # 1
      BY Constants
    <3> HIDE DEF z
    <3>2. g \in Entry /\ g.pid = e.pid /\ g.vpn = e.vpn /\ g.valid = z
      BY <2>1, <3>1 DEF Entry
    <3>3. Mark(e) = g
      BY <2>2 DEF z
    <3> QED BY <3>1, <3>2, <3>3
  <2>3. CASE ~ (e.pid = q /\ e.vpn = w)
    BY <2>1, <2>3
  <2> QED BY <2>2, <2>3
<1> HIDE DEF Mark
<1>4. TlbTypes'
  <2> DEFINE h == [e \in tlb |-> Mark(e)]
  <2>1. h \in Surjection(tlb, tlb')
    BY <1>1 DEF Surjection
  <2> HIDE DEF h
  <2>2. IsFiniteSet(tlb') /\ Cardinality(tlb') <= Cardinality(tlb)
    BY <1>2, <2>1, FS_Surjection
  <2>3. tlb' \subseteq Entry
    BY <1>1, <1>3
  <2>4. Cardinality(tlb') <= TLB_ENTRY_NUMBER
    <3>1. Cardinality(tlb') \in Nat /\ Cardinality(tlb) \in Nat
      BY <1>2, <2>2, FS_CardinalityType
    <3> QED BY <1>2, <2>2, <3>1, MemoryAssumption
  <2> QED BY <2>2, <2>3, <2>4 DEF TlbTypes
<1>5. ASSUME NEW x \in tlb', x.valid = 1
      PROVE  IsPresent(x.pid, x.vpn)' /\ Pte(x.pid, x.vpn)'.addr = x.frame
  <2>1. PICK e \in tlb : x = Mark(e)
    BY <1>1
  <2>2. x = e /\ ~ (e.pid = q /\ e.vpn = w)
    BY <1>3, <1>5, <2>1
  <2>3. x \in tlb /\ x.pid \in Pids /\ x.vpn \in Pages
    BY <1>2, <2>2, Constants DEF Entry
  <2>4. IsPresent(x.pid, x.vpn) /\ Pte(x.pid, x.vpn).addr = x.frame
    BY <1>5, <2>3 DEF Inv, TlbInv
  <2>5. Pte(x.pid, x.vpn)' = Pte(x.pid, x.vpn) /\ IsMapped(x.pid, x.vpn)'
    BY <2>2, <2>3, <2>4 DEF SetMap, IsPresent
  <2> QED BY <2>4, <2>5 DEF IsPresent
<1> QED BY <1>4, <1>5 DEF TlbInv

\* A page is swapped out.
LEMMA SwapInv ==
  ASSUME Inv, NEW c, NEW v, NEW f, NEW q, NEW w, NEW s, NEW t, Swap(c, v, f, q, w, s, t)
  PROVE  Inv'
<1> DEFINE pte == PteOf(0, s)
<1>1. /\ c \in Tasks /\ c \in Pids /\ v \in Pages /\ f \in RealFrames /\ f \in Frames /\ q \in Tasks
      /\ w \in Pages /\ s \in Slots /\ c = Current /\ v = fault[c].vpn /\ panic = 0
      /\ Walked(c, v) /\ ~ IsPresent(c, v) /\ IsMapped(q, w)
      /\ \A g \in RealFrames : pm_owner[g].pid # 0
  BY Constants DEF Swap
<1>2. /\ Freed(pm_slist, pm_slist', PM_SLIST_SIZE, f + 1)
      /\ Allocated(swap_area_slist, swap_area_slist', SWAP_AREA_SIZE, s)
      /\ removed' = removed \cup ({q} \ {c})
      /\ page_table_pool' \in PoolType /\ Tables' /\ SetMap(q, w, pte)
      /\ tlb' = set_TLB_invalid(q, w)
      /\ Request("WRITE", f, s) /\ Becomes(c, t) /\ t.at = "out"
      /\ raced' = (raced \/ InTransit)
      /\ UNCHANGED <<pid_list, pm_owner, pt_pool_slist, page_dir, dataVars, io>>
  BY DEF Swap
<1>3. pte.present = 0
  BY DEF PteOf
<1> HIDE DEF pte
<1>4. FaultTypes' /\ fault'[c] = t /\ t \in FaultType /\ t.vpn = v
      /\ \A p \in Pids : p # c => fault'[p] = fault[p]
  BY <1>1, <1>2, WaitingFault DEF Becomes
<1>5. removed' \subseteq Tasks
  BY <1>1, <1>2 DEF Inv, Types, SchedTypes
<1>6. /\ SchedTypes' /\ sem' \in [Sems -> Int] /\ io_task' \in RequestType
      /\ \A p \in Tasks : in'[p] = "none" <=> in[p] = "none"
      /\ current_running' = current_running \/ in'[current_running'] = "ready"
  <2> DEFINE type == "WRITE"
  <2>1. type \in {"READ", "WRITE"} /\ Request(type, f, s) /\ Current \in Tasks
    BY <1>1, <1>2
  <2> HIDE DEF type
  <2> QED BY <1>1, <1>5, <2>1, RequestStep
<1>7. TlbTypes' /\ TlbInv'
  BY <1>1, <1>2, SwapTlb
<1>8. Types'
  BY <1>2, <1>4, <1>6, <1>7 DEF Inv, Types, ListTypes, TableTypes, IoTypes, DataTypes,
        Allocated, Freed, InTransit, dataVars
<1>9. Alive'
  BY <1>2, <1>6, AliveStep
<1>10. Owners'
  <2>1. \A g \in RealFrames : pm_owner'[g].pid # 0
    BY <1>1, <1>2
  <2>2. ASSUME NEW g \in Frames, pm_owner[g].pid # 0
        PROVE  IsMapped(pm_owner[g].pid, pm_owner[g].vpn)'
    <3>1. PICK p \in Pids, u \in Pages : p = pm_owner[g].pid /\ u = pm_owner[g].vpn
      BY DEF Inv, Types, TableTypes, OwnerType
    <3>2. IsMapped(p, u)'
      BY <1>2, <2>2, <3>1 DEF SetMap, Inv, Owners
    <3>3. p = pm_owner'[g].pid /\ u = pm_owner'[g].vpn
      BY <1>2, <3>1
    <3> QED BY <3>2, <3>3
  <2> QED BY <1>2, <2>1, <2>2 DEF Owners
<1>11. \A p \in Tasks : Keeps(p)
  BY <1>1, <1>2, <1>3, Constants DEF SetMap, Keeps, IsPresent, Away
<1>12. FaultOK(c)'
  <2>1. Walked(c, v)' /\ ~ IsPresent(c, v)'
    BY <1>1, <1>11 DEF Keeps
  <2> QED BY <1>2, <1>4, <2>1 DEF FaultOK
<1>13. Faults'
  BY <1>1, <1>2, <1>4, <1>11, <1>12, FaultStep DEF Becomes
<1>14. Placed'
  BY <1>1, <1>2, SetPlaced DEF Inv, pte
<1> QED BY <1>2, <1>7, <1>8, <1>9, <1>10, <1>13, <1>14 DEF Inv

\* Likewise if the kernel stops.
LEMMA EvictInv == Inv /\ Evict => Inv'
<1> SUFFICES ASSUME Inv, Evict PROVE Inv'
  OBVIOUS
<1>1. CASE panic' = 1 /\ UNCHANGED <<current_running, in, boosted, removed, sem, io_task, pm_slist,
             swap_area_slist, page_table_pool, tlb, fault, raced, pid_list, pm_owner,
             pt_pool_slist, page_dir, dataVars, io>>
  <2>1. Types'
    BY <1>1 DEF Inv, Types, SchedTypes, ListTypes, TableTypes, TlbTypes, IoTypes, DataTypes,
                FaultTypes, dataVars
  <2>2. Alive'
    BY <1>1 DEF Inv, Alive, Current
  <2> QED BY <1>1, <2>1, <2>2, QuietStep DEF tableVars
<1> QED BY <1>1, EvictCases, SwapInv

\* slist_alloc takes the nodes of a new list in order.
LEMMA FirstNodes ==
  ASSUME NEW n \in Nat, n > 2
  PROVE  LET a == slist_init(n)
             b == slist_alloc(a)
             c == slist_alloc(b)
         IN  /\ slist_alloc_ret(a) = 1 /\ slist_alloc_ret(b) = 2
             /\ ~ slist_is_insufficient(a) /\ ~ slist_is_insufficient(b)
             /\ c[1].valid = 1 /\ c[2].valid = 1
<1> DEFINE a == slist_init(n)
           b == slist_alloc(a)
           c == slist_alloc(b)
<1>1. 0 \in 0 .. n - 1 /\ 1 \in 0 .. n - 1 /\ 2 \in 0 .. n - 1
  OBVIOUS
<1>2. a \in SlistType(n) /\ a[0].cursor = 1 /\ a[1].cursor = 2
  BY <1>1, InitShape DEF slist_init
<1>3. SlistShape(a, n) /\ n \in Nat \ {0}
  BY InitShape
<1> HIDE DEF a
<1>4. ~ slist_is_insufficient(a) /\ slist_alloc_ret(a) = 1
  BY <1>2 DEF slist_is_insufficient, slist_alloc_ret
<1>5. Allocated(a, b, n, 1)
  BY <1>2, <1>3, <1>4, ListAlloc
<1>6. b[0].cursor = 2
  <2>1. b = [a EXCEPT ![0].cursor = a[1].cursor, ![1].valid = 1]
    BY <1>2, <1>4 DEF slist_alloc
  <2> HIDE DEF b
  <2>2. \A i \in 0 .. n - 1 : a[i] \in [cursor : Nat, valid : {0, 1}]
    BY <1>2 DEF SlistType, SlistNode
  <2> QED BY <1>1, <1>2, <2>1, <2>2 DEF SlistType
<1>7. b \in SlistType(n) /\ SlistShape(b, n) /\ b[1].valid = 1
  BY <1>5 DEF Allocated
<1> HIDE DEF b
<1>8. ~ slist_is_insufficient(b) /\ slist_alloc_ret(b) = 2
  BY <1>6 DEF slist_is_insufficient, slist_alloc_ret
<1>9. Allocated(b, c, n, 2)
  BY <1>3, <1>7, <1>8, ListAlloc
<1>10. c[1].valid = 1 /\ c[2].valid = 1
  BY <1>7, <1>9 DEF Allocated
<1> QED BY <1>4, <1>8, <1>10 DEF a, b, c

\* init_task has taken the pids of the shell and of io_proc.
LEMMA FirstPids == Init => pid_list[Shell].valid = 1 /\ pid_list[IoProc].valid = 1
<1>1. MAX_TASK_NUM \in Nat /\ MAX_TASK_NUM > 2
  BY MemoryAssumption
<1> QED BY <1>1, FirstNodes DEF Init, Shell, IoProc

\* The invariant holds at first.
LEMMA InitInv == Init => Inv
<1> SUFFICES ASSUME Init PROVE Inv
  OBVIOUS
<1>1. /\ \A p \in Pids, v \in Pages : ~ Walked(p, v)
      /\ \A p \in Pids, d \in 0 .. PDE_NUMBER - 1 : page_dir[p][d].valid # 1
  BY PagesPairs DEF Init, EmptyPde, Walked
<1>2. ListTypes
  <2> DEFINE a == slist_init(MAX_TASK_NUM)
             b == slist_alloc(a)
             n == MAX_TASK_NUM
  <2>1. a \in SlistType(n) /\ SlistShape(a, n) /\ n \in Nat \ {0}
    BY InitShape, Constants
  <2>2. pid_list = slist_alloc(b)
    BY DEF Init
  <2> HIDE DEF a, n
  <2>3. Allocated(a, b, n, slist_alloc_ret(a))
    BY <2>1, ListAlloc
  <2>4. b \in SlistType(n) /\ SlistShape(b, n)
    BY <2>3 DEF Allocated
  <2> HIDE DEF b
  <2>5. Allocated(b, pid_list, n, slist_alloc_ret(b))
    BY <2>1, <2>2, <2>4, ListAlloc
  <2>6. pid_list \in SlistType(n) /\ SlistShape(pid_list, n)
    BY <2>5 DEF Allocated
  <2> QED BY <2>6, InitShape, Constants DEF Init, ListTypes, n
<1>3. TableTypes
  <2>1. [pid |-> 0, vpn |-> Stack] \in OwnerType
    BY Constants DEF OwnerType
  <2> QED BY <2>1, BootTypes DEF Init, TableTypes, DirType, PoolType
<1>4. SchedTypes /\ IoTypes /\ DataTypes /\ FaultTypes
  <2>1. SchedTypes
    BY Constants DEF Init, SchedTypes
  <2>2. IoTypes
    BY BootTypes DEF Init, IoTypes, IoType
  <2>3. DataTypes
    BY BootTypes DEF Init, DataTypes
  <2>4. FaultTypes
    BY BootTypes DEF Init, FaultTypes
  <2> QED BY <2>1, <2>2, <2>3, <2>4
<1>5. TlbTypes
  BY FS_EmptySet, MemoryAssumption DEF Init, TlbTypes
<1>6. Alive
  <2>1. pid_list[Shell].valid = 1 /\ pid_list[IoProc].valid = 1
    BY FirstPids DEF Init
  <2> QED BY <2>1, Constants DEF Init, Alive, Current
<1>7. Tables /\ Placed /\ TlbInv
  BY <1>1, Constants DEF Init, Tables, Placed, IsPresent, Away, IsMapped, TlbInv
<1>8. Owners
  <2>1. \A f \in Frames : pm_owner[f].pid = 0
    BY DEF Init
  <2>2. \A f \in RealFrames : pm_slist[f + 1].valid = 0
    <3>1. \A i \in 1 .. PM_SLIST_SIZE - 1 : pm_slist[i].valid = 0
      BY InitShape, Constants DEF Init
    <3> QED BY <3>1, Constants DEF RealFrames
  <2>3. \A p \in Tasks, v \in Pages : ~ Away(p, v)
    BY <1>1, Constants DEF Away, IsMapped
  <2>4. \A p \in Tasks : fault[p].at \in {"user", "walk", "write"}
    BY BootTypes, Constants DEF Init
  <2> QED BY <2>1, <2>2, <2>3, <2>4 DEF Owners
<1>9. Faults
  BY BootTypes, Constants DEF Init, Faults, FaultOK
<1> QED BY <1>2, <1>3, <1>4, <1>5, <1>6, <1>7, <1>8, <1>9 DEF Inv, Types

\* Every step keeps it.
LEMMA StepInv == Inv /\ [Next]_vars => Inv'
<1> SUFFICES ASSUME Inv, [Next]_vars PROVE Inv'
  OBVIOUS
<1>1. CASE UNCHANGED vars
  <2>1. Types'
    BY <1>1 DEF Inv, Types, SchedTypes, ListTypes, TableTypes, TlbTypes, IoTypes, DataTypes,
                FaultTypes, vars, schedVars, tableVars, dataVars
  <2>2. Alive'
    BY <1>1 DEF Inv, Alive, Current, vars, schedVars
  <2> QED BY <1>1, <2>1, <2>2, QuietStep DEF vars, schedVars
<1>2. CASE Tick \/ Spawn
  BY <1>2, TickInv, SpawnInv
<1>3. CASE Fault
  BY <1>3, TlbExceptionInv, EvictInv, RejoinInv, TakeFrameInv, PageInInv, TlbWriteInv DEF Fault
<1>4. CASE IoStep \/ FsCall
  BY <1>4, IoQuietInv, IoDownInv, IoUpInv DEF IoStep
<1>5. CASE \E v \in Pages, x \in Values : Store(v, x)
  BY <1>5, StoreInv
<1> QED BY <1>1, <1>2, <1>3, <1>4, <1>5 DEF Next

\* Types: whatever the faults of other tasks do meanwhile, every index into
\* pm_pid, page_table_pool and the swap area is in range.
THEOREM MemoryTypes == Spec => []TypeOK
<1>1. Inv => TypeOK
  BY TypesImply DEF Inv
<1> QED BY InitInv, StepInv, <1>1, PTL DEF Spec

\* The TLB maps only what the page tables map, and to the same frame:
\* swap_out, for whomever it takes a page, leaves no entry for it.
THEOREM MemoryTlb == Spec => []TlbOK
<1>1. Inv => TlbOK
  BY TlbParts DEF Inv
<1> QED BY InitInv, StepInv, <1>1, PTL DEF Spec

-----------------------------------------------------------------------------
\* The invariant behind ReservedOK.

Residents == {Shell, IoProc}

\* Nothing of theirs is ever away, and they only touch their stacks.
Resident(p) ==
  /\ fault[p].at \in {"user", "walk", "write"} /\ fault[p].vpn = Stack
  /\ pid_list[p].valid = 1 /\ \A v \in Pages : ~ Away(p, v)

AllIn == \A p \in Residents : IsMapped(p, Stack)
NoneIn == \A p \in Residents : ~ IsMapped(p, Stack)

\* Until both have a frame nobody else has been started, and the list of frames
\* is new but for the frame that one of them may have got.
Boot ==
  \/ AllIn
  \/ /\ \A p \in Users : in[p] = "none"
     /\ pm_slist = IF NoneIn THEN slist_init(PM_SLIST_SIZE)
                             ELSE slist_alloc(slist_init(PM_SLIST_SIZE))

Low == \A f \in Frames : pm_owner[f].pid \in Residents => f \in {0, 1}

Reserved ==
  /\ \A p \in Residents : Resident(p)
  /\ Low /\ Boot
  /\ io.pc # "init" => IsMapped(IoProc, Stack)

\* Steps that leave the residents and the frames alone.
LEMMA SameReserved ==
  ASSUME Inv, Reserved, SameMap, UNCHANGED <<pm_slist, pm_owner>>,
         \A p \in Residents :
           /\ fault'[p].at = fault[p].at \/ fault'[p].at \in {"user", "walk", "write"}
           /\ fault'[p].vpn = fault[p].vpn \/ fault'[p].vpn = Stack
           /\ pid_list[p].valid = 1 => pid_list'[p].valid = 1,
         AllIn \/ \A p \in Users : in[p] = "none" => in'[p] = "none",
         io'.pc # "init" => io.pc # "init" \/ IsMapped(IoProc, Stack)
  PROVE  Reserved'
<1>1. \A p \in Residents : p \in Pids /\ p \in Tasks
  BY Constants DEF Residents
<1>2. \A p \in Residents, v \in Pages : /\ IsMapped(p, v)' <=> IsMapped(p, v)
                                        /\ Away(p, v)' => Away(p, v)
  BY <1>1 DEF SameMap, Away
<1>3. \A p \in Residents : Resident(p)'
  BY <1>2 DEF Reserved, Resident
<1>4. (AllIn' <=> AllIn) /\ (NoneIn' <=> NoneIn)
  BY <1>2, Constants DEF AllIn, NoneIn
<1>5. Low' /\ Boot'
  BY <1>4 DEF Reserved, Low, Boot
<1>6. IoProc \in Residents
  BY DEF Residents
<1> QED BY <1>2, <1>3, <1>5, <1>6, Constants DEF Reserved

\* Steps of other tasks, when both residents have their frames.
LEMMA UserReserved ==
  ASSUME Inv, Reserved, AllIn, UNCHANGED <<pid_list, io>>,
         \A p \in Residents : /\ Keeps(p) /\ fault'[p] = fault[p]
                              /\ IsMapped(p, Stack) => IsMapped(p, Stack)'
                              /\ \A v \in Pages : Away(p, v)' => Away(p, v),
         Low'
  PROVE  Reserved'
<1>1. AllIn'
  BY DEF AllIn
<1>2. \A p \in Residents : Resident(p)'
  BY DEF Reserved, Resident
<1>3. IoProc \in Residents
  BY DEF Residents
<1> QED BY <1>1, <1>2, <1>3 DEF Reserved, Boot, AllIn

\* A user task runs only when both residents have their frames.
LEMMA UserRuns ==
  ASSUME Inv, Reserved, Current \in Users
  PROVE  AllIn
BY Constants DEF Inv, Alive, Reserved, Boot

\* A task is a user task or a resident.
LEMMA UserOrResident == Tasks = Users \cup Residents /\ \A p \in Users : p \notin Residents
BY Constants DEF Users, Residents

\* An entry of the TLB shows that the page is mapped.
LEMMA HitMapped ==
  ASSUME Inv, NEW p, NEW v, Hit(p, v) # {}
  PROVE  IsMapped(p, v)
<1>1. PICK e \in tlb : e.pid = p /\ e.vpn = v /\ e.valid = 1
  BY DEF Hit
<1> QED BY <1>1 DEF Inv, TlbInv, IsPresent

\* Steps without any change of the map and of the faults.
LEMMA QuietReserved ==
  ASSUME Inv, Reserved, UNCHANGED <<tableVars, fault, pid_list>>,
         \A p \in Users : in[p] = "none" => in'[p] = "none",
         io'.pc # "init" => io.pc # "init" \/ IsMapped(IoProc, Stack)
  PROVE  Reserved'
<1>1. SameMap
  BY SameTables DEF Inv, tableVars
<1> QED BY <1>1, SameReserved DEF tableVars

\* The steps of io_proc, and calls of the file system.
LEMMA IoReserved == Inv /\ Reserved /\ (IoStep \/ FsCall) => Reserved'
<1> SUFFICES ASSUME Inv, Reserved, IoStep \/ FsCall PROVE Reserved'
  OBVIOUS
<1>1. UNCHANGED <<tableVars, fault, pid_list>>
  BY DEF IoStep, IoInit, IoDown, IoFetch, IoFill, IoDrain, IoUp, FsCall
<1>2. io'.pc # "init" => io.pc # "init" \/ IsMapped(IoProc, Stack)
  <2>1. CASE IoInit \/ IoDown \/ IoFetch \/ IoFill \/ IoDrain \/ IoUp
    <3>1. Hit(IoProc, Stack) # {}
      BY <2>1 DEF IoInit, IoDown, IoFetch, IoFill, IoDrain, IoUp, Executes
    <3> QED BY <3>1, HitMapped
  <2>2. CASE FsCall
    BY <2>2 DEF FsCall
  <2> QED BY <2>1, <2>2 DEF IoStep
<1>3. \A p \in Users : in[p] = "none" => in'[p] = "none"
  <2>1. CASE IoInit \/ IoFetch \/ IoFill \/ IoDrain \/ FsCall
    BY <2>1 DEF IoInit, IoFetch, IoFill, IoDrain, FsCall, schedVars
  <2>2. CASE IoDown
    <3>1. SemDown("io_tasks", {}) /\ Current = IoProc /\ Hit(IoProc, Stack) # {}
      BY <2>2 DEF IoDown, Executes, Running
    <3>2. \A p \in Users : p \in Pids /\ p # Current
      BY <3>1, UserOrResident, Constants DEF Residents
    <3>3. \A p \in Pids : InAfter({})[p] = in[p]
      BY DEF InAfter
    <3>4. InAfter({}) \in [Pids -> Sems \cup {"ready", "none"}]
      BY DEF InAfter, Inv, Types, SchedTypes
    <3>5. in' = [InAfter({}) EXCEPT ![Current] = "io_tasks"] \/ in' = InAfter({})
      BY <3>1 DEF SemDown
    <3> QED BY <3>2, <3>3, <3>4, <3>5
  <2>3. CASE IoUp
    <3> DEFINE s == "io_done"
    <3>1. PICK u \in Woken(s, removed) : in' = InAfter(u)
      BY <2>3 DEF IoUp
    <3>2. s # "none"
      OBVIOUS
    <3> HIDE DEF s
    <3>3. u \subseteq Tasks /\ \A p \in u : in[p] = s
      BY WokenTasks
    <3>4. \A p \in Tasks : in'[p] = IF p \in u THEN "ready" ELSE in[p]
      BY <3>1, <3>3, InAfterStep DEF Inv, Types
    <3> QED BY <3>2, <3>3, <3>4, Constants
  <2> QED BY <2>1, <2>2, <2>3 DEF IoStep
<1> QED BY <1>1, <1>2, <1>3, QuietReserved

\* The shell starts a task only when both residents have their frames.
LEMMA SpawnReserved == Inv /\ Reserved /\ Spawn => Reserved'
<1> SUFFICES ASSUME Inv, Reserved, Spawn PROVE Reserved'
  OBVIOUS
<1>1. AllIn
  <2>1. Hit(Shell, Stack) # {} /\ io.pc # "init"
    BY DEF Spawn, Executes
  <2>2. IsMapped(Shell, Stack) /\ IsMapped(IoProc, Stack)
    BY <2>1, HitMapped DEF Reserved
  <2> QED BY <2>2 DEF AllIn, Residents
<1>2. UNCHANGED <<pm_slist, pm_owner, pt_pool_slist, page_table_pool, fault, io>>
  BY DEF Spawn
<1>3. PICK r : r = slist_alloc_ret(pid_list)
  OBVIOUS
<1>4. /\ r \in Tasks /\ pid_list[r].valid = 0
      /\ \A p \in Tasks : pid_list[p].valid = 1 => pid_list'[p].valid = 1
  BY <1>3, SpawnList
<1>5. page_dir' = [page_dir EXCEPT ![r] = page_dir_init(@)]
  BY <1>3 DEF Spawn
<1>6. SameMap
  BY <1>2, <1>4, <1>5, NewDir DEF Inv, Types
<1>7. \A p \in Residents : pid_list[p].valid = 1 => pid_list'[p].valid = 1
  BY <1>4, UserOrResident
<1> QED BY <1>1, <1>2, <1>6, <1>7, SameReserved

\* Steps that change neither tables nor faults: a tick or a store.
LEMMA TickReserved ==
  ASSUME Inv, Reserved, Tick \/ \E v \in Pages, x \in Values : Store(v, x)
  PROVE  Reserved'
<1>1. UNCHANGED <<tableVars, fault, pid_list, in, io>>
  BY DEF Tick, Store, schedVars
<1> QED BY <1>1, QuietReserved

\* A resident that faults has touched its stack.
LEMMA LookReserved ==
  ASSUME Inv, Reserved, NEW v \in Pages, TlbException(v)
  PROVE  Reserved'
<1>1. PICK p, r : Look(p, v, r)
  BY LookCases
<1>2. /\ p \in Pids /\ p \in Tasks /\ (p \in Users \/ v = Stack) /\ r.at = "walk" /\ r.vpn = v
      /\ r \in FaultType /\ fault' = [fault EXCEPT ![p] = r] /\ SameMap
      /\ UNCHANGED <<pm_slist, pm_owner, pid_list, in, io>>
  BY <1>1 DEF Look
<1>3. fault'[p] = r /\ \A q \in Pids : q # p => fault'[q] = fault[q]
  BY <1>2 DEF Inv, Types, FaultTypes
<1>4. \A q \in Residents :
           /\ fault'[q].at = fault[q].at \/ fault'[q].at \in {"user", "walk", "write"}
           /\ fault'[q].vpn = fault[q].vpn \/ fault'[q].vpn = Stack
           /\ pid_list[q].valid = 1 => pid_list'[q].valid = 1
  BY <1>2, <1>3, UserOrResident, Constants
<1> QED BY <1>2, <1>4, SameReserved

\* A resident is never at this point, and a user task changes only its own.
LEMMA RejoinReserved == Inv /\ Reserved /\ Rejoin => Reserved'
<1> SUFFICES ASSUME Inv, Reserved, Rejoin PROVE Reserved'
  OBVIOUS
<1>1. PICK c : c = Current
  OBVIOUS
<1>2. /\ UNCHANGED <<in, pid_list, tableVars, io>>
      /\ At("out") /\ fault' = [fault EXCEPT ![c].at = "frame"]
  BY <1>1 DEF Rejoin
<1>3. c \in Tasks /\ c \in Pids /\ fault[c].at = "out"
  BY <1>1, <1>2, Faulting
<1>4. c \notin Residents
  BY <1>3 DEF Reserved, Resident
<1>5. \A p \in Residents : fault'[p] = fault[p]
  BY <1>2, <1>3, <1>4, Constants DEF Inv, Types, FaultTypes, Residents
<1>6. SameMap
  BY <1>2, SameTables DEF Inv, tableVars
<1> QED BY <1>2, <1>5, <1>6, SameReserved DEF tableVars

\* The entry is written, and the fault is over.
LEMMA TlbWriteReserved == Inv /\ Reserved /\ TlbWrite => Reserved'
<1> SUFFICES ASSUME Inv, Reserved, TlbWrite PROVE Reserved'
  OBVIOUS
<1>1. PICK c : c = Current
  OBVIOUS
<1>2. UNCHANGED <<schedVars, pid_list, tableVars, io>> /\ fault' = [fault EXCEPT ![c] = Idle]
  BY <1>1 DEF TlbWrite
<1>3. c \in Tasks /\ c \in Pids
  BY <1>1, WriteReady, Constants
<1>4. fault'[c] = Idle /\ \A p \in Pids : p # c => fault'[p] = fault[p]
  BY <1>2, <1>3 DEF Inv, Types, FaultTypes
<1>5. Idle.at = "user" /\ Idle.vpn = Stack
  BY DEF Idle
<1>6. SameMap
  BY <1>2, SameTables DEF Inv, tableVars
<1>7. \A p \in Residents : p \in Pids
  BY Constants DEF Residents
<1> QED BY <1>2, <1>4, <1>5, <1>6, <1>7, SameReserved DEF tableVars, schedVars

\* A user task gets an entry for one of its pages: the residents' stay.
LEMMA UserSets ==
  ASSUME NEW q \in Users, NEW w \in Pages, NEW pte, SetMap(q, w, pte)
  PROVE  \A p \in Residents : /\ Keeps(p)
                              /\ IsMapped(p, Stack) => IsMapped(p, Stack)'
                              /\ \A v \in Pages : Away(p, v)' => Away(p, v)
<1>1. \A p \in Residents : p \in Pids /\ p \in Tasks /\ p # q
  BY UserOrResident, Constants
<1>2. q \in Tasks
  BY UserOrResident
<1>3. \A p \in Residents : Keeps(p)
  BY <1>1, <1>2, SetKeeps
<1>4. \A p \in Residents, v \in Pages : /\ IsMapped(p, v)' <=> IsMapped(p, v)
                                        /\ Away(p, v)' => Away(p, v)
  BY <1>1 DEF SetMap, Away
<1> QED BY <1>3, <1>4, Constants

\* A frame gets a user task as its owner.
LEMMA UserOwns ==
  ASSUME Inv, Reserved, NEW q \in Users, NEW w \in Pages, NEW f \in Frames,
         pm_owner' = [pm_owner EXCEPT ![f] = [pid |-> q, vpn |-> w]]
  PROVE  Low'
<1> DEFINE o == [pid |-> q, vpn |-> w]
<1>1. o.pid \notin Residents /\ pm_owner' = [pm_owner EXCEPT ![f] = o]
  BY UserOrResident
<1> HIDE DEF o
<1>2. \A g \in Frames : pm_owner'[g] = IF g = f THEN o ELSE pm_owner[g]
  BY <1>1 DEF Inv, Types, TableTypes
<1> QED BY <1>1, <1>2 DEF Reserved, Low

\* Only a user task waits for a page.
LEMMA PageInReserved == Inv /\ Reserved /\ PageIn => Reserved'
<1> SUFFICES ASSUME Inv, Reserved, PageIn PROVE Reserved'
  OBVIOUS
<1>1. PICK c, v, f : c = Current /\ v = Vpn /\ f = fault[c].frame
  OBVIOUS
<1>2. UNCHANGED <<pid_list, io>> /\ fault' = [fault EXCEPT ![c].at = "write"]
  BY <1>1 DEF PageIn
<1>3. /\ c \in Tasks /\ v \in Pages /\ f \in Frames /\ fault[c].at = "in"
      /\ SetMap(c, v, PteOf(1, f))
      /\ pm_owner' = [pm_owner EXCEPT ![f] = [pid |-> c, vpn |-> v]]
  BY <1>1, PageInMap
<1>4. c \in Users
  BY <1>3, UserOrResident DEF Reserved, Resident
<1>5. AllIn
  BY <1>1, <1>4, UserRuns
<1>6. \A p \in Residents : fault'[p] = fault[p]
  BY <1>2, <1>3, <1>4, UserOrResident, Constants DEF Inv, Types, FaultTypes
<1>7. Low'
  BY <1>3, <1>4, UserOwns
<1> DEFINE pte == PteOf(1, f)
<1>8. SetMap(c, v, pte)
  BY <1>3
<1> HIDE DEF pte
<1> QED BY <1>2, <1>3, <1>4, <1>5, <1>6, <1>7, <1>8, UserSets, UserReserved

\* A new page of a user task.
LEMMA UserTakeReserved ==
  ASSUME Inv, Reserved, NEW c \in Users, NEW v, NEW f, Take(c, v, f), TakeNew(c, v, f)
  PROVE  Reserved'
<1> DEFINE pte == PteOf(1, f)
<1>1. /\ c = Current /\ v \in Pages /\ f \in Frames /\ SetMap(c, v, pte)
      /\ pm_owner' = [pm_owner EXCEPT ![f] = [pid |-> c, vpn |-> v]]
      /\ fault' = [fault EXCEPT ![c].at = "write"]
      /\ UNCHANGED <<pid_list, io>>
  BY DEF Take, TakeNew
<1> HIDE DEF pte
<1>2. AllIn
  BY <1>1, UserRuns
<1>3. \A p \in Residents : fault'[p] = fault[p]
  BY <1>1, UserOrResident, Constants DEF Inv, Types, FaultTypes
<1>4. Low'
  BY <1>1, UserOwns
<1> QED BY <1>1, <1>2, <1>3, <1>4, UserSets, UserReserved

\* The frames the residents get are the first two.
LEMMA BootFrames ==
  LET a == slist_init(PM_SLIST_SIZE)
      b == slist_alloc(a)
  IN  /\ slist_alloc_ret(a) = 1 /\ slist_alloc_ret(b) = 2
      /\ ~ slist_is_insufficient(a) /\ ~ slist_is_insufficient(b)
<1>1. PM_SLIST_SIZE \in Nat /\ PM_SLIST_SIZE > 2
  BY MemoryAssumption
<1> QED BY <1>1, FirstNodes

\* The stack of a resident gets its frame.
LEMMA BootTakeReserved ==
  ASSUME Inv, Reserved, NEW c \in Residents, NEW v, NEW f, Take(c, v, f), TakeNew(c, v, f)
  PROVE  Reserved'
<1> DEFINE pte == PteOf(1, f)
           r == [fault[c] EXCEPT !.at = "write"]
           o == [pid |-> c, vpn |-> v]
           a == slist_init(PM_SLIST_SIZE)
           b == slist_alloc(a)
<1>1. /\ c = Current /\ f \in Frames /\ SetMap(c, v, pte) /\ ~ IsMapped(c, v)
      /\ pm_owner' = [pm_owner EXCEPT ![f] = o]
      /\ fault' = [fault EXCEPT ![c] = r]
      /\ pm_slist' = slist_alloc(pm_slist) /\ f + 1 = slist_alloc_ret(pm_slist)
      /\ UNCHANGED <<pid_list, io, in>> /\ v = fault[c].vpn
  BY DEF Take, TakeNew
<1>2. v = Stack /\ v \in Pages /\ c \in Tasks /\ c \in Pids
  BY <1>1, UserOrResident, Constants DEF Reserved, Resident
<1>3. pte.present = 1
  BY DEF PteOf
<1>4. fault[c] \in FaultType
  BY <1>2 DEF Inv, Types, FaultTypes
<1>5. r \in FaultType /\ r.at = "write" /\ r.vpn = v
  BY <1>1, <1>4, FaultMoves
<1>6. slist_alloc_ret(a) = 1 /\ slist_alloc_ret(b) = 2
  BY BootFrames
<1> HIDE DEF pte, r, a, b
<1>7. fault'[c] = r /\ \A p \in Pids : p # c => fault'[p] = fault[p]
  BY <1>1, <1>2, <1>5 DEF Inv, Types, FaultTypes
<1>8. \A p \in Residents : p \in Pids
  BY Constants DEF Residents
<1>9. \A p \in Residents : Resident(p)'
  <2>1. \A p \in Residents, x \in Pages : Away(p, x)' => Away(p, x)
    BY <1>1, <1>3, <1>8 DEF SetMap, Away
  <2> QED BY <1>1, <1>2, <1>5, <1>7, <1>8, <2>1 DEF Reserved, Resident
<1>10. \A p \in Residents : IsMapped(p, Stack)' <=> IsMapped(p, Stack) \/ p = c
  BY <1>1, <1>2, <1>8 DEF SetMap
<1>11. ~ AllIn /\ ~ NoneIn'
  BY <1>1, <1>2, <1>10 DEF AllIn, NoneIn
<1>12. /\ \A p \in Users : in[p] = "none"
       /\ pm_slist = IF NoneIn THEN a ELSE b
  BY <1>11 DEF Reserved, Boot, a, b
<1>13. f \in {0, 1} /\ f \in Int
  <2>1. f \in Int
    BY <1>1, Constants
  <2> QED BY <1>1, <1>6, <1>12, <2>1
<1>14. Low'
  <2>1. \A g \in Frames : g # f => pm_owner'[g] = pm_owner[g]
    BY <1>1 DEF Inv, Types, TableTypes
  <2> QED BY <1>13, <2>1 DEF Reserved, Low
<1>15. Boot'
  <2>1. CASE NoneIn
    <3>1. pm_slist' = b
      BY <1>1, <1>12, <2>1 DEF b
    <3> QED BY <1>1, <1>11, <1>12, <3>1 DEF Boot, a, b
  <2>2. CASE ~ NoneIn
    <3>1. AllIn'
      BY <1>1, <1>2, <1>10, <2>2 DEF AllIn, NoneIn, Residents
    <3> QED BY <3>1 DEF Boot
  <2> QED BY <2>1, <2>2
<1>16. io'.pc # "init" => IsMapped(IoProc, Stack)'
  BY <1>1, <1>10 DEF Reserved, Residents
<1> QED BY <1>9, <1>14, <1>15, <1>16 DEF Reserved

\* Only a user task has a page to swap in.
LEMMA TakeOldReserved ==
  ASSUME Inv, Reserved, NEW c, NEW v, NEW f, NEW s, NEW t, Take(c, v, f), TakeOld(c, v, f, s, t)
  PROVE  Reserved'
<1>1. /\ c = Current /\ c \in Tasks /\ v \in Pages /\ Away(c, v) /\ SameMap
      /\ UNCHANGED <<pm_owner, pid_list, io>> /\ fault' = [fault EXCEPT ![c] = t]
  BY DEF Take, TakeOld
<1>2. c \in Users
  BY <1>1, UserOrResident DEF Reserved, Resident
<1>3. AllIn
  BY <1>1, <1>2, UserRuns
<1>4. \A p \in Residents : fault'[p] = fault[p]
  BY <1>1, <1>2, UserOrResident, Constants DEF Inv, Types, FaultTypes
<1>5. Low'
  BY <1>1 DEF Reserved, Low
<1>6. \A p \in Residents : p \in Pids
  BY Constants DEF Residents
<1>7. \A p \in Residents : /\ Keeps(p)
                           /\ IsMapped(p, Stack) => IsMapped(p, Stack)'
                           /\ \A x \in Pages : Away(p, x)' => Away(p, x)
  BY <1>1, <1>6, SameKeeps, Constants DEF SameMap, Away
<1> QED BY <1>1, <1>3, <1>4, <1>5, <1>7, UserReserved

\* Residents get their frames while there are free ones, and theirs are not
\* among those that swap_scheduler chooses from.
LEMMA SwapReserved ==
  ASSUME Inv, Reserved, NEW c, NEW v, NEW f, NEW q, NEW w, NEW s, NEW t, Swap(c, v, f, q, w, s, t)
  PROVE  Reserved' /\ c \in Users /\ q \in Users
<1> DEFINE pte == PteOf(0, s)
<1>1. /\ c \in Tasks /\ q \in Tasks /\ f \in RealFrames /\ f > 1 /\ w \in Pages /\ c = Current
      /\ pm_owner[f].pid = q /\ slist_is_insufficient(pm_slist) /\ SetMap(q, w, pte)
      /\ Becomes(c, t) /\ v = fault[c].vpn /\ Walked(c, v) /\ ~ IsPresent(c, v)
      /\ v \in Pages /\ UNCHANGED <<pid_list, pm_owner, io>>
  BY DEF Swap
<1> HIDE DEF pte
<1>2. q \in Users
  <2>1. f \in Frames /\ f \notin {0, 1}
    BY <1>1, Constants
  <2> QED BY <1>1, <2>1, UserOrResident DEF Reserved, Low
<1>3. AllIn
  BY <1>1, BootFrames DEF Reserved, Boot
<1>4. c \in Users
  <2>1. ASSUME c \in Residents PROVE FALSE
    <3>1. IsMapped(c, v) /\ ~ Away(c, v) /\ c \in Pids
      BY <1>1, <1>3, <2>1, Constants DEF AllIn, Reserved, Resident
    <3>2. Pte(c, v).present \in 0 .. 1
      BY <1>1, <3>1, PteType DEF Inv, Types
    <3> QED BY <1>1, <3>1, <3>2 DEF IsPresent, Away
  <2> QED BY <1>1, <2>1, UserOrResident
<1>5. \A p \in Residents : fault'[p] = fault[p]
  BY <1>1, <1>4, WaitingFault, UserOrResident, Constants
<1>6. Low'
  BY <1>1 DEF Reserved, Low
<1>7. Reserved'
  BY <1>1, <1>2, <1>3, <1>5, <1>6, UserSets, UserReserved
<1> QED BY <1>2, <1>4, <1>7

\* At first nobody has a frame.
LEMMA InitReserved == Init => Reserved
<1> SUFFICES ASSUME Init PROVE Reserved
  OBVIOUS
<1>1. \A p \in Residents : p \in Pids
  BY Constants DEF Residents
<1>2. \A p \in Pids, v \in Pages : ~ IsMapped(p, v)
  BY PagesPairs DEF Init, EmptyPde, Walked, IsMapped
<1>3. \A p \in Residents : Resident(p)
  <2>1. \A p \in Residents : pid_list[p].valid = 1
    BY FirstPids DEF Residents
  <2>2. \A p \in Pids : fault[p].at = "user" /\ fault[p].vpn = Stack
    BY DEF Init, Idle
  <2> QED BY <1>1, <1>2, <2>1, <2>2 DEF Resident, Away
<1>4. NoneIn
  BY <1>1, <1>2, Constants DEF NoneIn
<1>5. Boot
  BY <1>4, UserOrResident, Constants DEF Init, Boot, Residents
<1>6. Low
  BY Constants DEF Init, Low, Residents
<1> QED BY <1>3, <1>5, <1>6 DEF Init, Reserved

\* Every step keeps the frames of the residents.
LEMMA StepReserved == Inv /\ Reserved /\ [Next]_vars => Reserved'
<1> SUFFICES ASSUME Inv, Reserved, [Next]_vars PROVE Reserved'
  OBVIOUS
<1>1. CASE UNCHANGED vars
  BY <1>1, QuietReserved DEF vars, schedVars
<1>2. CASE Tick \/ Spawn
  BY <1>2, TickReserved, SpawnReserved
<1>3. CASE (\E v \in Pages : TlbException(v)) \/ Rejoin \/ PageIn \/ TlbWrite
  BY <1>3, LookReserved, RejoinReserved, PageInReserved, TlbWriteReserved
<1>4. CASE TakeFrame
  <2>1. PICK c, v, f : Take(c, v, f) /\ (TakeNew(c, v, f) \/ \E s, t : TakeOld(c, v, f, s, t))
    BY <1>4, TakeCases
  <2>2. c \in Users \/ c \in Residents
    BY <2>1, UserOrResident DEF Take
  <2> QED BY <2>1, <2>2, UserTakeReserved, BootTakeReserved, TakeOldReserved
<1>5. CASE Evict
  <2>1. CASE UNCHANGED <<in, fault, pm_slist, swap_area_slist, page_table_pool, pid_list, pm_owner,
                         pt_pool_slist, page_dir, io>>
    BY <2>1, QuietReserved DEF tableVars
  <2> QED BY <1>5, <2>1, EvictCases, SwapReserved
<1>6. CASE IoStep \/ FsCall
  BY <1>6, IoReserved
<1>7. CASE \E v \in Pages, x \in Values : Store(v, x)
  BY <1>7, TickReserved
<1> QED BY <1>1, <1>2, <1>3, <1>4, <1>5, <1>6, <1>7 DEF Next, Fault

\* The shell and io_proc never wait for a page: their stacks have got frames
\* 0 and 1 before anybody else has run, and swap_scheduler never chooses these.
THEOREM MemoryReserved == Spec => []ReservedOK
<1>1. Reserved => ReservedOK
  BY DEF Reserved, Resident, ReservedOK, Residents
<1> QED BY InitInv, StepInv, InitReserved, StepReserved, <1>1, PTL DEF Spec

-----------------------------------------------------------------------------
\* The invariant behind FramesOK.

Addr(p, v) == Pte(p, v).addr
InUse(f) == pm_slist[f + 1].valid = 1

\* p is between the choice of a page to write and the arrival of its own.
Moving(p) == fault[p].at \in {"out", "frame", "in"}

\* Two faults that need a frame do not overlap.
Alone == \A p, q \in Tasks : Moving(p) /\ Moving(q) => p = q

\* A page in memory has its frame to itself.
Framed ==
  \A p \in Tasks, v \in Pages : IsPresent(p, v) =>
    /\ Addr(p, v) \in RealFrames /\ InUse(Addr(p, v))
    /\ pm_owner[Addr(p, v)].pid = p /\ pm_owner[Addr(p, v)].vpn = v

\* A frame holds the page of its owner, or waits for that of a fault.
Holds(f) == LET o == pm_owner[f] IN IsPresent(o.pid, o.vpn) /\ Addr(o.pid, o.vpn) = f
Used ==
  \A f \in RealFrames : InUse(f) =>
    Holds(f) \/ \E p \in Tasks : fault[p].at = "in" /\ fault[p].frame = f

\* The frame that swap_out has freed is there when it is done.
Spare == \A p \in Tasks : fault[p].at \in {"out", "frame"} => ~ slist_is_insufficient(pm_slist)

\* Nobody else gets the frame that a page is being read into.
Awaited ==
  \A p \in Tasks : fault[p].at = "in" =>
    /\ fault[p].frame \in RealFrames /\ InUse(fault[p].frame)
    /\ \A q \in Tasks, w \in Pages : IsPresent(q, w) => Addr(q, w) # fault[p].frame

FrameInv == ~ raced => Alone /\ Framed /\ Used /\ Spare /\ Awaited

\* FramesOK follows.
LEMMA FrameParts == Inv /\ FrameInv => FramesOK
<1> SUFFICES ASSUME Inv, FrameInv, ~ raced, NEW x \in Present
             PROVE  LET f == Pte(x[1], x[2]).addr
                    IN  /\ f # -1 /\ pm_slist[f + 1].valid = 1
                        /\ pm_owner[f] = [pid |-> x[1], vpn |-> x[2]]
  BY Zenon DEF FramesOK
<1>1. PICK p \in Tasks, v \in Pages : p = x[1] /\ v = x[2] /\ IsPresent(p, v)
  BY MappedPairs
<1>2. PICK f : f = Addr(p, v)
  OBVIOUS
<1>3. f \in RealFrames /\ InUse(f) /\ pm_owner[f].pid = p /\ pm_owner[f].vpn = v
  BY <1>1, <1>2 DEF FrameInv, Framed
<1>4. f # -1 /\ f \in Frames
  BY <1>3, Constants DEF RealFrames
<1>5. pm_owner[f] = [pid |-> p, vpn |-> v]
  <2>1. pm_owner[f] \in OwnerType
    BY <1>4 DEF Inv, Types, TableTypes
  <2> QED BY <1>3, <2>1 DEF OwnerType
<1> QED BY <1>1, <1>2, <1>3, <1>4, <1>5 DEF Addr, InUse

\* What the lists say of the frames after they have changed.
LEMMA AllocUse ==
  ASSUME NEW f \in RealFrames, Allocated(pm_slist, pm_slist', PM_SLIST_SIZE, f + 1)
  PROVE  ~ InUse(f) /\ \A g \in RealFrames : InUse(g)' <=> InUse(g) \/ g = f
<1> DEFINE n == PM_SLIST_SIZE
           r == f + 1
<1>1. /\ f \in Int /\ r # 0 /\ n \in Nat /\ \A g \in RealFrames : g \in Int /\ g + 1 \in 1 .. n - 1
  BY Constants DEF RealFrames
<1>2. /\ pm_slist[r].valid = 0
      /\ \A i \in 1 .. n - 1 : pm_slist'[i].valid = IF i = r THEN 1 ELSE pm_slist[i].valid
  BY <1>1 DEF Allocated
<1>3. \A g \in RealFrames : g + 1 = r <=> g = f
  BY <1>1
<1>4. ~ InUse(f)
  BY <1>2 DEF InUse
<1> HIDE DEF r, n
<1>5. ASSUME NEW g \in RealFrames PROVE InUse(g)' <=> InUse(g) \/ g = f
  <2>1. PICK i \in 1 .. n - 1 : i = g + 1
    BY <1>1
  <2>2. pm_slist'[i].valid = IF i = r THEN 1 ELSE pm_slist[i].valid
    BY <1>2
  <2>3. i = r <=> g = f
    BY <1>3, <2>1
  <2> QED BY <2>1, <2>2, <2>3 DEF InUse
<1> QED BY <1>4, <1>5

\* Likewise after a frame has been freed.
LEMMA FreedUse ==
  ASSUME NEW f \in RealFrames, Freed(pm_slist, pm_slist', PM_SLIST_SIZE, f + 1)
  PROVE  /\ \A g \in RealFrames : InUse(g)' <=> InUse(g) /\ g # f
         /\ InUse(f) => ~ slist_is_insufficient(pm_slist')
<1> DEFINE n == PM_SLIST_SIZE
           r == f + 1
<1>1. /\ f \in Int /\ r # 0 /\ n \in Nat /\ \A g \in RealFrames : g \in Int /\ g + 1 \in 1 .. n - 1
  BY Constants DEF RealFrames
<1>2. /\ \A i \in 1 .. n - 1 : pm_slist'[i].valid = IF i = r THEN 0 ELSE pm_slist[i].valid
      /\ r \in 1 .. n - 1 /\ pm_slist[r].valid = 1 => ~ slist_is_insufficient(pm_slist')
  BY <1>1 DEF Freed
<1>3. \A g \in RealFrames : g + 1 = r <=> g = f
  BY <1>1
<1> QED BY <1>1, <1>2, <1>3 DEF InUse

\* What pages are in memory and away after one has got the entry (a, b).
Moved(q, w, a, b) ==
  \A p \in Pids, v \in Pages :
    /\ IsPresent(p, v)' <=> IF p = q /\ v = w THEN a = 1 ELSE IsPresent(p, v)
    /\ Away(p, v)' <=> IF p = q /\ v = w THEN a = 0 ELSE Away(p, v)
    /\ IsMapped(p, v)' <=> IsMapped(p, v) \/ (p = q /\ v = w)
    /\ IsMapped(p, v)' => Addr(p, v)' = IF p = q /\ v = w THEN b ELSE Addr(p, v)

\* That is what writing the entry does.
LEMMA SetMoves ==
  ASSUME NEW q \in Tasks, NEW w \in Pages, NEW a \in 0 .. 1, NEW b \in Frames \cup Slots,
         SetMap(q, w, PteOf(a, b))
  PROVE  Moved(q, w, a, b)
<1>1. PteOf(a, b).present = a /\ PteOf(a, b).addr = b
  BY PteRecord
<1> DEFINE pte == PteOf(a, b)
<1>2. SetMap(q, w, pte) /\ pte.present = a /\ pte.addr = b
  BY <1>1
<1> HIDE DEF pte
<1>3. ASSUME NEW p \in Pids, NEW v \in Pages
      PROVE  /\ IsPresent(p, v)' <=> IF p = q /\ v = w THEN a = 1 ELSE IsPresent(p, v)
             /\ Away(p, v)' <=> IF p = q /\ v = w THEN a = 0 ELSE Away(p, v)
             /\ IsMapped(p, v)' <=> IsMapped(p, v) \/ (p = q /\ v = w)
             /\ IsMapped(p, v)' => Addr(p, v)' = IF p = q /\ v = w THEN b ELSE Addr(p, v)
  <2>1. /\ IsMapped(p, v)' <=> IsMapped(p, v) \/ (p = q /\ v = w)
        /\ IsMapped(p, v)' => Pte(p, v)' = IF p = q /\ v = w THEN pte ELSE Pte(p, v)
    BY <1>2 DEF SetMap
  <2> QED BY <1>2, <2>1 DEF IsPresent, Away, Addr
<1> QED BY <1>3 DEF Moved

\* Likewise if no page has moved.
LEMMA SameMoves ==
  ASSUME SameMap
  PROVE  \A p \in Pids, v \in Pages :
           /\ IsPresent(p, v)' <=> IsPresent(p, v)
           /\ Away(p, v)' <=> Away(p, v)
           /\ IsMapped(p, v)' <=> IsMapped(p, v)
           /\ IsMapped(p, v) => Addr(p, v)' = Addr(p, v)
BY DEF SameMap, IsPresent, Away, Addr

\* A step that moves no page and gives out no frame.
LEMMA KeepFrames ==
  ASSUME Inv, FrameInv, SameMap, UNCHANGED <<pm_slist, pm_owner>>, raced => raced',
         \A p \in Tasks :
           /\ fault'[p].at \in {"out", "frame"} => fault[p].at \in {"out", "frame"}
           /\ fault'[p].at = "in" \/ fault[p].at = "in" =>
                fault'[p].at = fault[p].at /\ fault'[p].frame = fault[p].frame
  PROVE  FrameInv'
<1> SUFFICES ASSUME ~ raced' PROVE (Alone /\ Framed /\ Used /\ Spare /\ Awaited)'
  BY DEF FrameInv
<1>1. Alone /\ Framed /\ Used /\ Spare /\ Awaited
  BY DEF FrameInv
<1>2. \A p \in Pids, v \in Pages : /\ IsPresent(p, v)' <=> IsPresent(p, v)
                                   /\ IsPresent(p, v) => Addr(p, v)' = Addr(p, v)
  BY SameMoves DEF IsPresent
<1>3. \A p \in Tasks : p \in Pids
  BY Constants
<1>4. \A f \in RealFrames : f \in Frames /\ (InUse(f)' <=> InUse(f))
  BY Constants DEF InUse
<1>5. Alone'
  BY <1>1 DEF Alone, Moving
<1>6. Framed'
  BY <1>1, <1>2, <1>3, <1>4 DEF Framed
<1>7. Used'
  <2>1. ASSUME NEW f \in RealFrames, Holds(f) PROVE Holds(f)'
    <3>1. PICK p \in Pids, v \in Pages : p = pm_owner[f].pid /\ v = pm_owner[f].vpn
      BY <1>4 DEF Inv, Types, TableTypes, OwnerType
    <3>2. IsPresent(p, v)' /\ Addr(p, v)' = f
      BY <1>2, <2>1, <3>1 DEF Holds
    <3>3. p = pm_owner'[f].pid /\ v = pm_owner'[f].vpn
      BY <3>1
    <3> QED BY <3>2, <3>3 DEF Holds
  <2>2. ASSUME NEW f \in RealFrames, InUse(f)'
        PROVE  Holds(f)' \/ \E p \in Tasks : fault'[p].at = "in" /\ fault'[p].frame = f
    <3>1. Holds(f) \/ \E p \in Tasks : fault[p].at = "in" /\ fault[p].frame = f
      BY <1>1, <1>4, <2>2 DEF Used
    <3> QED BY <2>1, <3>1
  <2> QED BY <2>2 DEF Used
<1>8. Spare'
  BY <1>1 DEF Spare
<1>9. Awaited'
  BY <1>1, <1>2, <1>3, <1>4 DEF Awaited
<1> QED BY <1>5, <1>6, <1>7, <1>8, <1>9

\* Nobody else is between two steps of swapping when there is no race.
LEMMA NoOther ==
  ASSUME Inv, NEW c \in Tasks, c = Current, raced' = (raced \/ InTransit), ~ raced'
  PROVE  ~ raced /\ \A p \in Tasks : p # c => ~ Moving(p)
<1>1. ~ raced /\ ~ InTransit
  OBVIOUS
<1>2. \A p \in Tasks : p # c => fault[p].at \notin {"out", "in"}
  BY <1>1 DEF InTransit
<1>3. \A p \in Tasks : p # c => fault[p].at # "frame"
  BY DEF Inv, Faults, FaultOK
<1> QED BY <1>1, <1>2, <1>3 DEF Moving

\* The owner of a frame is a task with a page.
LEMMA OwnerIs ==
  ASSUME Inv, NEW f \in RealFrames
  PROVE  pm_owner[f].pid \in Pids /\ pm_owner[f].vpn \in Pages
BY Constants DEF Inv, Types, TableTypes, OwnerType

\* The frame f gets an owner.
Given(f, c, v) == pm_owner' = [pm_owner EXCEPT ![f] = [pid |-> c, vpn |-> v]]

\* That changes the owner of f only.
LEMMA OwnerSet ==
  ASSUME Inv, NEW c \in Tasks, NEW v \in Pages, NEW f \in RealFrames, Given(f, c, v)
  PROVE  /\ pm_owner'[f].pid = c /\ pm_owner'[f].vpn = v
         /\ \A g \in RealFrames : g # f => pm_owner'[g] = pm_owner[g]
<1> DEFINE o == [pid |-> c, vpn |-> v]
<1>1. o.pid = c /\ o.vpn = v /\ pm_owner' = [pm_owner EXCEPT ![f] = o]
  BY DEF Given
<1> HIDE DEF o
<1>2. \A g \in RealFrames : g \in Frames
  BY Constants
<1> QED BY <1>1, <1>2 DEF Inv, Types, TableTypes

\* A page arrives in a frame that holds no other: it is new, or has been read.
LEMMA ArriveFrames ==
  ASSUME Inv, NEW c \in Tasks, NEW v \in Pages, NEW f \in RealFrames, ~ IsPresent(c, v),
         Moved(c, v, 1, f), Framed,
         \A q \in Tasks, w \in Pages : IsPresent(q, w) => Addr(q, w) # f,
         \A g \in RealFrames : InUse(g)' <=> InUse(g) \/ g = f,
         \A g \in RealFrames : InUse(g) /\ g # f => Holds(g),
         pm_owner'[f].pid = c, pm_owner'[f].vpn = v,
         \A g \in RealFrames : g # f => pm_owner'[g] = pm_owner[g],
         \A p \in Tasks : ~ Moving(p)'
  PROVE  (Alone /\ Framed /\ Used /\ Spare /\ Awaited)'
<1>1. Alone' /\ Spare' /\ Awaited'
  BY DEF Moving, Alone, Spare, Awaited
<1>2. \A p \in Tasks : p \in Pids
  BY Constants
<1>3. \A p \in Pids, x \in Pages :
        /\ IsPresent(p, x)' <=> IsPresent(p, x) \/ (p = c /\ x = v)
        /\ IsPresent(p, x)' => Addr(p, x)' = IF p = c /\ x = v THEN f ELSE Addr(p, x)
  BY DEF Moved, IsPresent
<1>4. /\ pm_owner'[f].pid = c /\ pm_owner'[f].vpn = v
      /\ \A g \in RealFrames : g # f => pm_owner'[g] = pm_owner[g]
  OBVIOUS
<1>5. Framed'
  <2>1. ASSUME NEW p \in Tasks, NEW x \in Pages, IsPresent(p, x)'
        PROVE  /\ Addr(p, x)' \in RealFrames /\ InUse(Addr(p, x))'
               /\ pm_owner'[Addr(p, x)'].pid = p /\ pm_owner'[Addr(p, x)'].vpn = x
    <3>1. CASE p = c /\ x = v
      <4>1. Addr(p, x)' = f /\ InUse(f)'
        BY <1>2, <1>3, <2>1, <3>1
      <4> QED BY <1>4, <3>1, <4>1 DEF InUse
    <3>2. CASE ~ (p = c /\ x = v)
      <4>1. IsPresent(p, x) /\ Addr(p, x)' = Addr(p, x)
        BY <1>2, <1>3, <2>1, <3>2
      <4>2. PICK g : g = Addr(p, x)
        OBVIOUS
      <4>3. g \in RealFrames /\ InUse(g) /\ pm_owner[g].pid = p /\ pm_owner[g].vpn = x /\ g # f
        BY <4>1, <4>2 DEF Framed
      <4>4. InUse(g)' /\ pm_owner'[g] = pm_owner[g]
        BY <1>4, <4>3
      <4> QED BY <4>1, <4>2, <4>3, <4>4 DEF InUse
    <3> QED BY <3>1, <3>2
  <2> QED BY <2>1 DEF Framed
<1>6. Used'
  <2>1. ASSUME NEW g \in RealFrames, InUse(g)' PROVE Holds(g)'
    <3>1. CASE g = f
      <4>1. IsPresent(c, v)' /\ Addr(c, v)' = f
        BY <1>2, <1>3
      <4> QED BY <1>4, <3>1, <4>1 DEF Holds
    <3>2. CASE g # f
      <4>1. PICK p \in Pids, x \in Pages : p = pm_owner[g].pid /\ x = pm_owner[g].vpn
        BY OwnerIs
      <4>2. IsPresent(p, x) /\ Addr(p, x) = g
        BY <2>1, <3>2, <4>1 DEF Holds
      <4>3. IsPresent(p, x)' /\ Addr(p, x)' = g
        BY <1>3, <4>2
      <4>4. p = pm_owner'[g].pid /\ x = pm_owner'[g].vpn
        BY <1>4, <3>2, <4>1
      <4> QED BY <4>3, <4>4 DEF Holds
    <3> QED BY <3>1, <3>2
  <2> QED BY <2>1 DEF Used
<1> QED BY <1>1, <1>5, <1>6

\* pm_alloc has a frame for a fault that has waited for one.
LEMMA TakeReal ==
  ASSUME Inv, NEW c, NEW v, NEW f, Take(c, v, f), Spare
  PROVE  f \in RealFrames
<1>1. f \in Frames /\ c \in Tasks /\ f \in Int
  BY Constants DEF Take
<1>2. f + 1 = 0 => fault[c].at = "frame" /\ slist_is_insufficient(pm_slist)
  BY <1>1 DEF Take, Allocated
<1>3. f # -1
  BY <1>1, <1>2 DEF Spare
<1> QED BY <1>1, <1>3, MemoryAssumption DEF Frames, RealFrames

\* A new page gets its frame.
LEMMA TakeNewFrames ==
  ASSUME Inv, FrameInv, NEW c, NEW v, NEW f, Take(c, v, f), TakeNew(c, v, f)
  PROVE  FrameInv'
<1> SUFFICES ASSUME ~ raced' PROVE (Alone /\ Framed /\ Used /\ Spare /\ Awaited)'
  BY DEF FrameInv
<1>1. /\ c \in Tasks /\ v \in Pages /\ c = Current /\ ~ IsPresent(c, v) /\ f \in Frames
      /\ Allocated(pm_slist, pm_slist', PM_SLIST_SIZE, f + 1) /\ raced' = (raced \/ InTransit)
      /\ fault[c].at \in {"walk", "frame"}
  BY DEF Take
<1>2. /\ SetMap(c, v, PteOf(1, f)) /\ fault' = [fault EXCEPT ![c].at = "write"]
      /\ pm_owner' = [pm_owner EXCEPT ![f] = [pid |-> c, vpn |-> v]]
  BY DEF TakeNew
<1>3. ~ raced /\ \A p \in Tasks : p # c => ~ Moving(p)
  BY <1>1, NoOther
<1>4. Alone /\ Framed /\ Used /\ Spare /\ Awaited
  BY <1>3 DEF FrameInv
<1>5. f \in RealFrames
  BY <1>4, TakeReal
<1>6. ~ InUse(f) /\ \A g \in RealFrames : InUse(g)' <=> InUse(g) \/ g = f
  BY <1>1, <1>5, AllocUse
<1> DEFINE one == 1
<1>7. one \in 0 .. 1 /\ f \in Frames \cup Slots /\ SetMap(c, v, PteOf(one, f))
  BY <1>1, <1>2
<1> HIDE DEF one
<1>8. Moved(c, v, one, f)
  BY <1>1, <1>7, SetMoves
<1>9. \A q \in Tasks, w \in Pages : IsPresent(q, w) => Addr(q, w) # f
  BY <1>4, <1>6 DEF Framed
<1>10. \A g \in RealFrames : InUse(g) /\ g # f => Holds(g)
  BY <1>1, <1>3, <1>4 DEF Used, Moving
<1>11. \A p \in Tasks : ~ Moving(p)'
  <2>1. fault'[c].at = "write" /\ \A p \in Tasks : p # c => fault'[p] = fault[p]
    BY <1>1, <1>2, Constants DEF Inv, Types, FaultTypes, FaultType
  <2> QED BY <1>3, <2>1 DEF Moving
<1>12. /\ pm_owner'[f].pid = c /\ pm_owner'[f].vpn = v
       /\ \A g \in RealFrames : g # f => pm_owner'[g] = pm_owner[g]
  <2>1. Given(f, c, v)
    BY <1>2 DEF Given
  <2> QED BY <1>1, <1>5, <2>1, OwnerSet
<1> QED BY <1>1, <1>4, <1>5, <1>6, <1>8, <1>9, <1>10, <1>11, <1>12, ArriveFrames DEF one

\* The page that has been read into a frame is in it.
LEMMA PageInFrames == Inv /\ FrameInv /\ PageIn => FrameInv'
<1> SUFFICES ASSUME Inv, FrameInv, PageIn, ~ raced'
             PROVE  (Alone /\ Framed /\ Used /\ Spare /\ Awaited)'
  BY DEF FrameInv
<1>1. PICK c, v, f : c = Current /\ v = Vpn /\ f = fault[c].frame
  OBVIOUS
<1>2. UNCHANGED <<pm_slist, raced>> /\ fault' = [fault EXCEPT ![c].at = "write"]
  BY <1>1 DEF PageIn
<1>3. /\ c \in Tasks /\ v \in Pages /\ f \in Frames /\ Away(c, v) /\ fault[c].at = "in"
      /\ SetMap(c, v, PteOf(1, f))
      /\ pm_owner' = [pm_owner EXCEPT ![f] = [pid |-> c, vpn |-> v]]
  BY <1>1, PageInMap
<1>4. Alone /\ Framed /\ Used /\ Spare /\ Awaited
  BY <1>2 DEF FrameInv
<1>5. /\ f \in RealFrames /\ InUse(f)
      /\ \A q \in Tasks, w \in Pages : IsPresent(q, w) => Addr(q, w) # f
  BY <1>1, <1>3, <1>4 DEF Awaited
<1>6. \A g \in RealFrames : InUse(g)' <=> InUse(g) \/ g = f
  BY <1>2, <1>5 DEF InUse
<1>7. \A p \in Tasks : p # c => ~ Moving(p)
  BY <1>3, <1>4 DEF Alone, Moving
<1> DEFINE one == 1
<1>8. one \in 0 .. 1 /\ f \in Frames \cup Slots /\ SetMap(c, v, PteOf(one, f))
  BY <1>3
<1> HIDE DEF one
<1>9. Moved(c, v, one, f)
  BY <1>3, <1>8, SetMoves
<1>10. \A g \in RealFrames : InUse(g) /\ g # f => Holds(g)
  BY <1>1, <1>4, <1>7 DEF Used, Moving
<1>11. \A p \in Tasks : ~ Moving(p)'
  <2>1. fault'[c].at = "write" /\ \A p \in Tasks : p # c => fault'[p] = fault[p]
    BY <1>2, <1>3, Constants DEF Inv, Types, FaultTypes, FaultType
  <2> QED BY <1>7, <2>1 DEF Moving
<1>12. ~ IsPresent(c, v)
  BY <1>3 DEF IsPresent, Away
<1>13. /\ pm_owner'[f].pid = c /\ pm_owner'[f].vpn = v
       /\ \A g \in RealFrames : g # f => pm_owner'[g] = pm_owner[g]
  <2>1. Given(f, c, v)
    BY <1>3 DEF Given
  <2>2. c \in Tasks /\ v \in Pages
    BY <1>3
  <2> QED BY <1>5, <2>1, <2>2, OwnerSet
<1> QED BY <1>3, <1>4, <1>5, <1>6, <1>9, <1>10, <1>11, <1>12, <1>13, ArriveFrames DEF one

\* A frame is set aside for the page that is to be read.
LEMMA TakeOldFrames ==
  ASSUME Inv, FrameInv, NEW c, NEW v, NEW f, NEW s, NEW t, Take(c, v, f), TakeOld(c, v, f, s, t)
  PROVE  FrameInv'
<1> SUFFICES ASSUME ~ raced' PROVE (Alone /\ Framed /\ Used /\ Spare /\ Awaited)'
  BY DEF FrameInv
<1>1. /\ c \in Tasks /\ c \in Pids /\ v \in Pages /\ c = Current /\ f \in Frames
      /\ Allocated(pm_slist, pm_slist', PM_SLIST_SIZE, f + 1) /\ raced' = (raced \/ InTransit)
  BY Constants DEF Take
<1>2. /\ SameMap /\ UNCHANGED pm_owner /\ t.at = "in" /\ t.frame = f
      /\ t \in FaultType /\ fault' = [fault EXCEPT ![c] = t]
  BY DEF TakeOld
<1>3. ~ raced /\ \A p \in Tasks : p # c => ~ Moving(p)
  BY <1>1, NoOther
<1>4. Alone /\ Framed /\ Used /\ Spare /\ Awaited
  BY <1>3 DEF FrameInv
<1>5. f \in RealFrames
  BY <1>4, TakeReal
<1>6. ~ InUse(f) /\ \A g \in RealFrames : InUse(g)' <=> InUse(g) \/ g = f
  BY <1>1, <1>5, AllocUse
<1>7. fault'[c] = t /\ \A p \in Tasks : p # c => fault'[p] = fault[p]
  BY <1>1, <1>2, Constants DEF Inv, Types, FaultTypes
<1>8. \A p \in Tasks : Moving(p)' <=> p = c
  BY <1>1, <1>2, <1>3, <1>7 DEF Moving
<1>9. \A p \in Tasks, x \in Pages : /\ IsPresent(p, x)' <=> IsPresent(p, x)
                                    /\ IsPresent(p, x) => Addr(p, x)' = Addr(p, x)
  BY <1>2, SameMoves, Constants DEF IsPresent
<1>10. Alone'
  BY <1>8 DEF Alone
<1>11. Framed'
  <2>1. ASSUME NEW p \in Tasks, NEW x \in Pages, IsPresent(p, x)'
        PROVE  /\ Addr(p, x)' \in RealFrames /\ InUse(Addr(p, x))'
               /\ pm_owner'[Addr(p, x)'].pid = p /\ pm_owner'[Addr(p, x)'].vpn = x
    <3>1. PICK g : g = Addr(p, x)
      OBVIOUS
    <3>2. Addr(p, x)' = g /\ g \in RealFrames /\ InUse(g) /\ pm_owner[g].pid = p /\ pm_owner[g].vpn = x
      BY <1>4, <1>9, <2>1, <3>1 DEF Framed
    <3>3. InUse(g)'
      BY <1>6, <3>2
    <3> QED BY <1>2, <3>2, <3>3 DEF InUse
  <2> QED BY <2>1 DEF Framed
<1>12. Used'
  <2>1. ASSUME NEW g \in RealFrames, InUse(g)'
        PROVE  Holds(g)' \/ \E p \in Tasks : fault'[p].at = "in" /\ fault'[p].frame = g
    <3>1. CASE g = f
      BY <1>1, <1>2, <1>7, <3>1
    <3>2. CASE g # f
      <4>1. Holds(g)
        <5>1. InUse(g)
          BY <1>6, <2>1, <3>2
        <5>2. \A p \in Tasks : fault[p].at # "in"
          BY <1>3 DEF Moving, Take
        <5> QED BY <1>4, <5>1, <5>2 DEF Used
      <4>2. PICK p \in Pids, x \in Pages : p = pm_owner[g].pid /\ x = pm_owner[g].vpn
        BY OwnerIs
      <4>3. IsPresent(p, x) /\ Addr(p, x) = g
        BY <4>1, <4>2 DEF Holds
      <4>4. IsPresent(p, x)' /\ Addr(p, x)' = g
        BY <1>2, <4>3, SameMoves DEF IsPresent
      <4>5. p = pm_owner'[g].pid /\ x = pm_owner'[g].vpn
        BY <1>2, <4>2
      <4> QED BY <4>4, <4>5 DEF Holds
    <3> QED BY <3>1, <3>2
  <2> QED BY <2>1 DEF Used
<1>13. Spare'
  BY <1>2, <1>3, <1>7 DEF Spare, Moving
<1>14. Awaited'
  <2>1. \A q \in Tasks, w \in Pages : IsPresent(q, w) => Addr(q, w) # f
    BY <1>4, <1>6 DEF Framed
  <2>2. ASSUME NEW p \in Tasks, fault'[p].at = "in"
        PROVE  /\ fault'[p].frame \in RealFrames /\ InUse(fault[p].frame)'
               /\ \A q \in Tasks, w \in Pages : IsPresent(q, w)' => Addr(q, w)' # fault'[p].frame
    <3>1. p = c /\ fault'[p].frame = f
      BY <1>2, <1>7, <1>8, <2>2 DEF Moving
    <3>2. InUse(f)'
      BY <1>5, <1>6
    <3>3. \A q \in Tasks, w \in Pages : IsPresent(q, w)' => Addr(q, w)' # f
      BY <1>9, <2>1
    <3> QED BY <1>5, <3>1, <3>2, <3>3 DEF InUse
  <2> QED BY <2>2 DEF Awaited
<1> QED BY <1>10, <1>11, <1>12, <1>13, <1>14

\* The page that is written was in the frame that its owner gives up.
LEMMA SwapHolds ==
  ASSUME Inv, FrameInv, NEW c, NEW v, NEW f, NEW q, NEW w, NEW s, NEW t,
         Swap(c, v, f, q, w, s, t), ~ raced'
  PROVE  /\ ~ raced /\ \A p \in Tasks : ~ Moving(p)
         /\ \A g \in RealFrames : InUse(g) /\ Holds(g)
         /\ IsPresent(q, w) /\ Addr(q, w) = f
<1>1. /\ c \in Tasks /\ c = Current /\ f \in RealFrames /\ raced' = (raced \/ InTransit)
      /\ pm_owner[f].pid = q /\ pm_owner[f].vpn = w /\ fault[c].at = "walk"
      /\ \A g \in RealFrames : pm_slist[g + 1].valid = 1
  BY DEF Swap
<1>2. ~ raced /\ \A p \in Tasks : p # c => ~ Moving(p)
  BY <1>1, NoOther
<1>3. \A p \in Tasks : ~ Moving(p)
  BY <1>1, <1>2 DEF Moving
<1>4. \A g \in RealFrames : InUse(g) /\ Holds(g)
  BY <1>1, <1>2, <1>3 DEF FrameInv, Used, InUse, Moving
<1>5. IsPresent(q, w) /\ Addr(q, w) = f
  BY <1>1, <1>4 DEF Holds
<1> QED BY <1>2, <1>3, <1>4, <1>5

\* A frame is given up.
LEMMA SwapFrames ==
  ASSUME Inv, FrameInv, NEW c, NEW v, NEW f, NEW q, NEW w, NEW s, NEW t,
         Swap(c, v, f, q, w, s, t)
  PROVE  FrameInv'
<1> SUFFICES ASSUME ~ raced' PROVE (Alone /\ Framed /\ Used /\ Spare /\ Awaited)'
  BY DEF FrameInv
<1>1. /\ c \in Tasks /\ c \in Pids /\ c = Current /\ f \in RealFrames /\ q \in Tasks /\ w \in Pages
      /\ s \in Slots /\ Freed(pm_slist, pm_slist', PM_SLIST_SIZE, f + 1) /\ UNCHANGED pm_owner
      /\ SetMap(q, w, PteOf(0, s)) /\ Becomes(c, t) /\ t.at = "out"
      /\ pm_owner[f].pid = q /\ pm_owner[f].vpn = w
  BY Constants DEF Swap
<1>2. /\ ~ raced /\ \A p \in Tasks : ~ Moving(p)
      /\ \A g \in RealFrames : InUse(g) /\ Holds(g)
      /\ IsPresent(q, w) /\ Addr(q, w) = f
  BY SwapHolds
<1>3. Framed
  BY <1>2 DEF FrameInv
<1>4. fault'[c] = t /\ \A p \in Tasks : p # c => fault'[p] = fault[p]
  BY <1>1, WaitingFault, Constants
<1>5. \A g \in RealFrames : InUse(g)' <=> g # f
  BY <1>1, <1>2, FreedUse
<1> DEFINE zero == 0
<1>6. zero \in 0 .. 1 /\ zero # 1 /\ s \in Frames \cup Slots /\ SetMap(q, w, PteOf(zero, s))
  BY <1>1
<1> HIDE DEF zero
<1>7. Moved(q, w, zero, s)
  BY <1>1, <1>6, SetMoves
<1>8. \A p \in Pids, x \in Pages :
        /\ IsPresent(p, x)' <=> IsPresent(p, x) /\ ~ (p = q /\ x = w)
        /\ IsPresent(p, x)' => Addr(p, x)' = Addr(p, x)
  BY <1>6, <1>7 DEF Moved, IsPresent
<1>9. Alone'
  BY <1>2, <1>4 DEF Alone, Moving
<1>10. Framed'
  <2>1. ASSUME NEW p \in Tasks, NEW x \in Pages, IsPresent(p, x)'
        PROVE  /\ Addr(p, x)' \in RealFrames /\ InUse(Addr(p, x))'
               /\ pm_owner'[Addr(p, x)'].pid = p /\ pm_owner'[Addr(p, x)'].vpn = x
    <3>1. PICK g : g = Addr(p, x)
      OBVIOUS
    <3>2. IsPresent(p, x) /\ ~ (p = q /\ x = w) /\ Addr(p, x)' = g
      BY <1>8, <2>1, <3>1, Constants
    <3>3. g \in RealFrames /\ pm_owner[g].pid = p /\ pm_owner[g].vpn = x
      BY <1>3, <3>1, <3>2 DEF Framed
    <3>4. g # f
      BY <1>1, <3>2, <3>3
    <3>5. InUse(g)'
      BY <1>5, <3>3, <3>4
    <3> QED BY <1>1, <3>2, <3>3, <3>5 DEF InUse
  <2> QED BY <2>1 DEF Framed
<1>11. Used'
  <2>1. ASSUME NEW g \in RealFrames, InUse(g)' PROVE Holds(g)'
    <3>1. g # f
      BY <1>5, <2>1
    <3>2. PICK p \in Pids, x \in Pages : p = pm_owner[g].pid /\ x = pm_owner[g].vpn
      BY OwnerIs
    <3>3. IsPresent(p, x) /\ Addr(p, x) = g
      BY <1>2, <3>2 DEF Holds
    <3>4. ~ (p = q /\ x = w)
      BY <1>2, <3>1, <3>3
    <3>5. IsPresent(p, x)' /\ Addr(p, x)' = g
      BY <1>8, <3>3, <3>4
    <3>6. p = pm_owner'[g].pid /\ x = pm_owner'[g].vpn
      BY <1>1, <3>2
    <3> QED BY <3>5, <3>6 DEF Holds
  <2> QED BY <2>1 DEF Used
<1>12. Spare'
  BY <1>1, <1>2, FreedUse DEF Spare
<1>13. Awaited'
  BY <1>1, <1>2, <1>4 DEF Awaited, Moving
<1> QED BY <1>9, <1>10, <1>11, <1>12, <1>13

\* Steps that change neither the map nor the frames.
LEMMA QuietFrames ==
  ASSUME Inv, FrameInv, UNCHANGED <<tableVars, fault>>, raced => raced',
         \A p \in Tasks : pid_list[p].valid = 1 => pid_list'[p].valid = 1
  PROVE  FrameInv'
<1>1. SameMap
  BY SameTables DEF Inv, tableVars
<1> QED BY <1>1, KeepFrames DEF tableVars

\* Every step keeps the frames.
LEMMA StepFrames == Inv /\ FrameInv /\ [Next]_vars => FrameInv'
<1> SUFFICES ASSUME Inv, FrameInv, [Next]_vars PROVE FrameInv'
  OBVIOUS
<1>1. CASE UNCHANGED vars \/ Tick \/ IoStep \/ FsCall \/ \E v \in Pages, x \in Values : Store(v, x)
  <2>1. UNCHANGED <<tableVars, fault, pid_list>>
    BY <1>1 DEF vars, Tick, IoStep, IoInit, IoDown, IoFetch, IoFill, IoDrain, IoUp, FsCall, Store
  <2>2. raced => raced'
    BY <1>1 DEF vars, Tick, IoStep, IoInit, IoDown, IoFetch, IoFill, IoDrain, IoUp, FsCall, Store
  <2> QED BY <2>1, <2>2, QuietFrames
<1>2. CASE Spawn
  <2>1. UNCHANGED <<pm_slist, pm_owner, pt_pool_slist, page_table_pool, fault, raced>>
    BY <1>2 DEF Spawn
  <2>2. PICK r : r = slist_alloc_ret(pid_list)
    OBVIOUS
  <2>3. /\ r \in Tasks /\ pid_list[r].valid = 0
        /\ \A p \in Tasks : pid_list[p].valid = 1 => pid_list'[p].valid = 1
    BY <1>2, <2>2, SpawnList
  <2>4. page_dir' = [page_dir EXCEPT ![r] = page_dir_init(@)]
    BY <1>2, <2>2 DEF Spawn
  <2>5. SameMap
    BY <2>1, <2>3, <2>4, NewDir DEF Inv, Types
  <2> QED BY <2>1, <2>5, KeepFrames
<1>3. ASSUME NEW v \in Pages, TlbException(v) PROVE FrameInv'
  <2>1. PICK p, r : Look(p, v, r)
    BY <1>3, LookCases
  <2>2. /\ p \in Pids /\ r.at = "walk" /\ r \in FaultType /\ fault' = [fault EXCEPT ![p] = r]
        /\ SameMap /\ UNCHANGED <<pm_slist, pm_owner, raced>> /\ fault[p].at = "user"
    BY <2>1 DEF Look
  <2>3. fault'[p] = r /\ \A q \in Tasks : q # p => fault'[q] = fault[q]
    BY <2>2, Constants DEF Inv, Types, FaultTypes
  <2> QED BY <2>2, <2>3, KeepFrames
<1>4. CASE Rejoin
  <2>1. PICK c : c = Current
    OBVIOUS
  <2>2. /\ UNCHANGED <<pid_list, tableVars, raced>>
        /\ At("out") /\ fault' = [fault EXCEPT ![c].at = "frame"]
    BY <1>4, <2>1 DEF Rejoin
  <2>3. c \in Tasks /\ c \in Pids /\ fault[c].at = "out" /\ fault[c] \in FaultType
    BY <2>1, <2>2, Faulting
  <2>4. fault'[c].at = "frame" /\ \A p \in Tasks : p # c => fault'[p] = fault[p]
    BY <2>2, <2>3, Constants DEF Inv, Types, FaultTypes, FaultType
  <2>5. SameMap
    BY <2>2, SameTables DEF Inv, tableVars
  <2> QED BY <2>2, <2>3, <2>4, <2>5, KeepFrames DEF tableVars
<1>5. CASE TlbWrite
  <2>1. PICK c : c = Current
    OBVIOUS
  <2>2. UNCHANGED <<pid_list, tableVars, raced>> /\ fault' = [fault EXCEPT ![c] = Idle]
    BY <1>5, <2>1 DEF TlbWrite
  <2>3. c \in Tasks /\ c \in Pids /\ fault[c].at \in {"write", "walk"}
    BY <1>5, <2>1, WriteReady, Constants DEF TlbWrite, At
  <2>4. fault'[c] = Idle /\ \A p \in Tasks : p # c => fault'[p] = fault[p]
    BY <2>2, <2>3, Constants DEF Inv, Types, FaultTypes
  <2>5. SameMap
    BY <2>2, SameTables DEF Inv, tableVars
  <2>6. Idle.at = "user"
    BY DEF Idle
  <2> QED BY <2>2, <2>3, <2>4, <2>5, <2>6, KeepFrames DEF tableVars
<1>6. CASE TakeFrame
  BY <1>6, TakeCases, TakeNewFrames, TakeOldFrames
<1>7. CASE Evict
  <2>1. CASE UNCHANGED <<fault, pm_slist, swap_area_slist, page_table_pool, pid_list, pm_owner,
                         pt_pool_slist, page_dir, raced>>
    BY <2>1, QuietFrames DEF tableVars
  <2> QED BY <1>7, <2>1, EvictCases, SwapFrames
<1>8. CASE PageIn
  BY <1>8, PageInFrames
<1> QED BY <1>1, <1>2, <1>3, <1>4, <1>5, <1>6, <1>7, <1>8 DEF Next, Fault

\* At first no frame has been given out.
LEMMA InitFrames == Init => FrameInv
<1> SUFFICES ASSUME Init PROVE FrameInv
  OBVIOUS
<1>1. \A p \in Tasks, v \in Pages : ~ IsPresent(p, v)
  BY PagesPairs, Constants DEF Init, EmptyPde, Walked, IsMapped, IsPresent
<1>2. \A p \in Tasks : fault[p].at = "user"
  BY Constants DEF Init, Idle
<1>3. \A f \in RealFrames : ~ InUse(f)
  <2>1. \A i \in 1 .. PM_SLIST_SIZE - 1 : pm_slist[i].valid = 0
    BY InitShape, Constants DEF Init
  <2> QED BY <2>1, Constants DEF RealFrames, InUse
<1> QED BY <1>1, <1>2, <1>3 DEF FrameInv, Alone, Moving, Framed, Used, Spare, Awaited

\* As long as no two faults that need a frame overlap, every page in memory
\* has a frame of its own, which pm_slist, pm_pid and pm_vpn know of: swap_out
\* frees the frame of the page that is really in it, and the frame it has freed
\* is still there when swap_in takes it.
THEOREM MemoryFrames == Spec => []FramesOK
BY InitInv, StepInv, InitFrames, StepFrames, FrameParts, PTL DEF Spec

-----------------------------------------------------------------------------
\* The invariant behind SlotsOK.

SlotUsed(s) == swap_area_slist[s].valid = 1

\* A page that is away has a slot to itself, and every slot has a page.
Stored == \A p \in Tasks, v \in Pages : Away(p, v) => Addr(p, v) \in Slots \ {0} /\ SlotUsed(Addr(p, v))
Apart ==
  \A p, q \in Tasks, v, w \in Pages :
    Away(p, v) /\ Away(q, w) /\ Addr(p, v) = Addr(q, w) => p = q /\ v = w
Filled ==
  \A s \in Slots \ {0} : SlotUsed(s) => \E p \in Tasks, v \in Pages : Away(p, v) /\ Addr(p, v) = s

\* The slot that swap_in has read before it calls swap_out is not stale.
Known ==
  \A p \in Tasks : Moving(p) /\ IsMapped(p, fault[p].vpn) => fault[p].slot = Addr(p, fault[p].vpn)

SlotInv == ~ raced => Stored /\ Apart /\ Filled /\ Known

\* The page tables describe only what has been touched.
TouchInv ==
  \A p \in Users : /\ fault[p].at # "user" => fault[p].vpn \in Touches(p)
                   /\ \A v \in Pages : IsMapped(p, v) => v \in Touches(p)

\* SlotsOK follows.
LEMMA SlotParts == Inv /\ SlotInv => SlotsOK
<1> SUFFICES ASSUME Inv, SlotInv, ~ raced
             PROVE  /\ {s \in Slots \ {0} : swap_area_slist[s].valid = 1}
                         = {Pte(x[1], x[2]).addr : x \in Mapped \ Present}
                    /\ \A x, y \in Mapped \ Present : Pte(x[1], x[2]).addr = Pte(y[1], y[2]).addr => x = y
  BY Zenon DEF SlotsOK
<1>1. Stored /\ Apart /\ Filled
  BY DEF SlotInv
<1>2. \A x \in Mapped \ Present : x[1] \in Tasks /\ x[2] \in Pages /\ Away(x[1], x[2]) /\ x = <<x[1], x[2]>>
  <2>1. ASSUME NEW x \in Mapped \ Present
        PROVE  x[1] \in Tasks /\ x[2] \in Pages /\ Away(x[1], x[2]) /\ x = <<x[1], x[2]>>
    <3>1. PICK p \in Tasks, v \in Pages : x = <<p, v>>
      BY MappedPairs
    <3>2. x[1] = p /\ x[2] = v
      BY <3>1
    <3>3. IsMapped(p, v) /\ Pte(p, v).present # 1
      BY <3>2, MappedPairs
    <3>4. Pte(p, v).present \in 0 .. 1
      BY PteType, Constants DEF Inv, Types
    <3> QED BY <3>1, <3>2, <3>3, <3>4 DEF Away
  <2> QED BY <2>1
<1>3. ASSUME NEW p \in Tasks, NEW v \in Pages, Away(p, v)
      PROVE  \E x \in Mapped \ Present : x[1] = p /\ x[2] = v
  <2> DEFINE x == <<p, v>>
  <2>1. x \in Tasks \X Pages /\ x[1] = p /\ x[2] = v
    OBVIOUS
  <2> HIDE DEF x
  <2>2. IsMapped(x[1], x[2]) /\ Pte(x[1], x[2]).present # 1
    BY <1>3, <2>1 DEF Away
  <2>3. x \in Mapped \ Present
    BY <2>1, <2>2, MappedPairs
  <2> QED BY <2>1, <2>3
<1>4. ASSUME NEW s \in Slots \ {0}, SlotUsed(s)
      PROVE  \E x \in Mapped \ Present : s = Pte(x[1], x[2]).addr
  <2>1. PICK p \in Tasks, v \in Pages : Away(p, v) /\ Addr(p, v) = s
    BY <1>1, <1>4 DEF Filled
  <2>2. PICK x \in Mapped \ Present : x[1] = p /\ x[2] = v
    BY <1>3, <2>1
  <2> QED BY <2>1, <2>2 DEF Addr
<1>5. ASSUME NEW x \in Mapped \ Present
      PROVE  Pte(x[1], x[2]).addr \in Slots \ {0} /\ SlotUsed(Pte(x[1], x[2]).addr)
  BY <1>1, <1>2 DEF Stored, Addr
<1>6. {s \in Slots \ {0} : swap_area_slist[s].valid = 1} = {Pte(x[1], x[2]).addr : x \in Mapped \ Present}
  <2> DEFINE D == Mapped \ Present
             A(x) == Pte(x[1], x[2]).addr
  <2>1. \A s \in Slots \ {0} : SlotUsed(s) => \E x \in D : s = A(x)
    BY <1>4
  <2>2. \A x \in D : A(x) \in Slots \ {0} /\ SlotUsed(A(x))
    BY <1>5
  <2> HIDE DEF D, A
  <2>3. {s \in Slots \ {0} : SlotUsed(s)} = {A(x) : x \in D}
    BY <2>1, <2>2
  <2> QED BY <2>3 DEF D, A, SlotUsed
<1>7. ASSUME NEW x \in Mapped \ Present, NEW y \in Mapped \ Present,
             Pte(x[1], x[2]).addr = Pte(y[1], y[2]).addr
      PROVE  x = y
  <2>1. x[1] = y[1] /\ x[2] = y[2]
    BY <1>1, <1>2, <1>7 DEF Apart, Addr
  <2> QED BY <1>2, <2>1
<1> QED BY <1>6, <1>7

\* Pages are touched before they are mapped.
LEMMA KeepTouch ==
  ASSUME Inv, TouchInv, SameMap,
         \A p \in Users : fault'[p].at # "user" =>
           \/ fault[p].at # "user" /\ fault'[p].vpn = fault[p].vpn
           \/ fault'[p].vpn \in Touches(p)
  PROVE  TouchInv'
<1>1. \A p \in Users : p \in Pids
  BY UserOrResident, Constants
<1> QED BY <1>1 DEF TouchInv, SameMap

\* Writing the entry of a page that has been touched keeps TouchInv.
LEMMA SetTouch ==
  ASSUME Inv, TouchInv, NEW q \in Tasks, NEW w \in Pages, NEW pte, SetMap(q, w, pte),
         q \in Users => w \in Touches(q),
         \A p \in Users : fault'[p].at # "user" => fault[p].at # "user" /\ fault'[p].vpn = fault[p].vpn
  PROVE  TouchInv'
<1>1. \A p \in Users : p \in Pids
  BY UserOrResident, Constants
<1> QED BY <1>1 DEF TouchInv, SetMap

\* Every step keeps TouchInv.
LEMMA StepTouch == Inv /\ TouchInv /\ [Next]_vars => TouchInv'
<1> SUFFICES ASSUME Inv, TouchInv, [Next]_vars PROVE TouchInv'
  OBVIOUS
<1>0. \A p \in Users : p \in Pids /\ p \in Tasks
  BY UserOrResident, Constants
<1>1. CASE UNCHANGED vars \/ Tick \/ IoStep \/ FsCall \/ \E v \in Pages, x \in Values : Store(v, x)
  <2>1. UNCHANGED <<tableVars, fault, pid_list>>
    BY <1>1 DEF vars, Tick, IoStep, IoInit, IoDown, IoFetch, IoFill, IoDrain, IoUp, FsCall, Store
  <2>2. SameMap
    BY <2>1, SameTables DEF Inv, tableVars
  <2> QED BY <2>1, <2>2, KeepTouch
<1>2. CASE Spawn
  <2>1. UNCHANGED <<pt_pool_slist, page_table_pool, fault>>
    BY <1>2 DEF Spawn
  <2>2. PICK r : r = slist_alloc_ret(pid_list)
    OBVIOUS
  <2>3. /\ r \in Tasks /\ pid_list[r].valid = 0
        /\ \A p \in Tasks : pid_list[p].valid = 1 => pid_list'[p].valid = 1
    BY <1>2, <2>2, SpawnList
  <2>4. page_dir' = [page_dir EXCEPT ![r] = page_dir_init(@)]
    BY <1>2, <2>2 DEF Spawn
  <2>5. SameMap
    BY <2>1, <2>3, <2>4, NewDir DEF Inv, Types
  <2> QED BY <2>1, <2>5, KeepTouch
<1>3. ASSUME NEW v \in Pages, TlbException(v) PROVE TouchInv'
  <2>1. PICK p, r : Look(p, v, r)
    BY <1>3, LookCases
  <2>2. /\ p \in Pids /\ r.vpn = v /\ r \in FaultType /\ fault' = [fault EXCEPT ![p] = r] /\ SameMap
        /\ v \in IF p \in Users THEN Touches(p) ELSE {Stack}
    BY <2>1 DEF Look
  <2>3. fault'[p] = r /\ \A q \in Pids : q # p => fault'[q] = fault[q]
    BY <2>2 DEF Inv, Types, FaultTypes
  <2> QED BY <1>0, <2>2, <2>3, KeepTouch
<1>4. CASE Rejoin
  <2>1. PICK c : c = Current
    OBVIOUS
  <2>2. UNCHANGED <<pid_list, tableVars>> /\ At("out") /\ fault' = [fault EXCEPT ![c].at = "frame"]
    BY <1>4, <2>1 DEF Rejoin
  <2>3. c \in Tasks /\ c \in Pids /\ fault[c].at = "out" /\ fault[c] \in FaultType
    BY <2>1, <2>2, Faulting
  <2>4. fault'[c].vpn = fault[c].vpn /\ \A p \in Pids : p # c => fault'[p] = fault[p]
    BY <2>2, <2>3 DEF Inv, Types, FaultTypes, FaultType
  <2>5. SameMap
    BY <2>2, SameTables DEF Inv, tableVars
  <2> QED BY <1>0, <2>3, <2>4, <2>5, KeepTouch
<1>5. CASE TlbWrite
  <2>1. PICK c : c = Current
    OBVIOUS
  <2>2. UNCHANGED <<pid_list, tableVars>> /\ fault' = [fault EXCEPT ![c] = Idle]
    BY <1>5, <2>1 DEF TlbWrite
  <2>3. c \in Tasks /\ c \in Pids
    BY <1>5, <2>1, WriteReady, Constants
  <2>4. fault'[c] = Idle /\ \A p \in Pids : p # c => fault'[p] = fault[p]
    BY <2>2, <2>3 DEF Inv, Types, FaultTypes
  <2>5. SameMap
    BY <2>2, SameTables DEF Inv, tableVars
  <2>6. Idle.at = "user"
    BY DEF Idle
  <2> QED BY <1>0, <2>4, <2>5, <2>6, KeepTouch
<1>6. CASE TakeFrame
  <2>1. PICK c, v, f : Take(c, v, f) /\ (TakeNew(c, v, f) \/ \E s, t : TakeOld(c, v, f, s, t))
    BY <1>6, TakeCases
  <2>2. c \in Tasks /\ c \in Pids /\ v \in Pages /\ v = fault[c].vpn /\ fault[c].at \in {"walk", "frame"}
    BY <2>1, Constants DEF Take
  <2>3. CASE TakeNew(c, v, f)
    <3> DEFINE pte == PteOf(1, f)
    <3>1. SetMap(c, v, pte) /\ fault' = [fault EXCEPT ![c].at = "write"]
      BY <2>3 DEF TakeNew
    <3> HIDE DEF pte
    <3>2. fault'[c].vpn = fault[c].vpn /\ \A p \in Pids : p # c => fault'[p] = fault[p]
      BY <2>2, <3>1 DEF Inv, Types, FaultTypes, FaultType
    <3>3. \A p \in Users : fault'[p].at # "user" => fault[p].at # "user" /\ fault'[p].vpn = fault[p].vpn
      BY <1>0, <2>2, <3>2
    <3>4. c \in Users => v \in Touches(c)
      BY <2>2 DEF TouchInv
    <3> QED BY <2>2, <3>1, <3>3, <3>4, SetTouch
  <2>4. ASSUME NEW s, NEW t, TakeOld(c, v, f, s, t) PROVE TouchInv'
    <3>1. SameMap /\ t \in FaultType /\ fault' = [fault EXCEPT ![c] = t] /\ t.vpn = v
      BY <2>4 DEF TakeOld
    <3>2. fault'[c] = t /\ \A p \in Pids : p # c => fault'[p] = fault[p]
      BY <2>2, <3>1 DEF Inv, Types, FaultTypes
    <3> QED BY <1>0, <2>2, <3>1, <3>2, KeepTouch
  <2> QED BY <2>1, <2>3, <2>4
<1>7. CASE Evict
  <2>1. CASE UNCHANGED <<fault, page_table_pool, pid_list, pt_pool_slist, page_dir>>
    <3>1. SameMap
      BY <2>1, SameTables DEF Inv
    <3> QED BY <2>1, <3>1, KeepTouch
  <2>2. ASSUME NEW c, NEW v, NEW f, NEW q, NEW w, NEW s, NEW t, Swap(c, v, f, q, w, s, t)
        PROVE  TouchInv'
    <3> DEFINE pte == PteOf(0, s)
    <3>1. /\ c \in Tasks /\ q \in Tasks /\ w \in Pages /\ IsMapped(q, w) /\ SetMap(q, w, pte)
          /\ Becomes(c, t) /\ fault[c].at = "walk"
      BY <2>2 DEF Swap
    <3> HIDE DEF pte
    <3>2. fault'[c] = t /\ t.vpn = fault[c].vpn /\ \A p \in Pids : p # c => fault'[p] = fault[p]
      BY <3>1, WaitingFault DEF Becomes
    <3>3. \A p \in Users : fault'[p].at # "user" => fault[p].at # "user" /\ fault'[p].vpn = fault[p].vpn
      BY <1>0, <3>1, <3>2
    <3>4. q \in Users => w \in Touches(q)
      BY <3>1 DEF TouchInv
    <3> QED BY <3>1, <3>3, <3>4, SetTouch
  <2> QED BY <1>7, <2>1, <2>2, EvictCases
<1>8. CASE PageIn
  <2>1. PICK c, v, f : c = Current /\ v = Vpn /\ f = fault[c].frame
    OBVIOUS
  <2> DEFINE pte == PteOf(1, f)
  <2>2. fault' = [fault EXCEPT ![c].at = "write"]
    BY <1>8, <2>1 DEF PageIn
  <2>3. /\ c \in Tasks /\ v \in Pages /\ Away(c, v) /\ fault[c] \in FaultType /\ fault[c].at = "in"
        /\ SetMap(c, v, pte)
    BY <1>8, <2>1, PageInMap
  <2> HIDE DEF pte
  <2>4. fault'[c].vpn = fault[c].vpn /\ \A p \in Pids : p # c => fault'[p] = fault[p]
    BY <2>2, <2>3, Constants DEF Inv, Types, FaultTypes, FaultType
  <2>5. \A p \in Users : fault'[p].at # "user" => fault[p].at # "user" /\ fault'[p].vpn = fault[p].vpn
    BY <1>0, <2>3, <2>4
  <2>6. c \in Users => v \in Touches(c)
    BY <2>3 DEF TouchInv, Away
  <2> QED BY <2>3, <2>5, <2>6, SetTouch
<1> QED BY <1>1, <1>2, <1>3, <1>4, <1>5, <1>6, <1>7, <1>8 DEF Next, Fault

\* There is a slot for a page in memory, as long as each slot has a page.
LEMMA SlotLeft ==
  ASSUME SwapFits, Inv, Reserved, TouchInv, Filled, NEW q \in Users, NEW w \in Pages, IsPresent(q, w),
         slist_is_insufficient(swap_area_slist)
  PROVE  FALSE
<1> DEFINE x == <<q, w>>
           n == SWAP_AREA_SIZE - 1
           S == 1 .. n
           Of(s, y) == Away(y[1], y[2]) /\ Addr(y[1], y[2]) = s
           h == [s \in S |-> CHOOSE y \in Touched : Of(s, y)]
           T == Touched \ {x}
<1>1. SWAP_AREA_SIZE \in Nat \ {0} /\ n \in Nat
  BY Constants
<1>2. \A s \in S : SlotUsed(s) /\ s \in Slots \ {0}
  <2>1. Allocated(swap_area_slist, slist_alloc(swap_area_slist), SWAP_AREA_SIZE,
                  slist_alloc_ret(swap_area_slist))
    BY <1>1, ListAlloc DEF Inv, Types, ListTypes
  <2>2. \A s \in S : SlotUsed(s)
    BY <2>1 DEF Allocated, SlotUsed
  <2> QED BY <1>1, <2>2 DEF Slots
<1>3. x \in Touched
  BY DEF TouchInv, IsPresent, Touched
<1>4. \A s \in S : ~ Of(s, x)
  BY DEF Away, IsPresent
<1>5. ASSUME NEW s \in S PROVE \E y \in Touched : Of(s, y)
  <2>1. PICK p \in Tasks, v \in Pages : Away(p, v) /\ Addr(p, v) = s
    BY <1>2, <1>5 DEF Filled
  <2>2. p \in Users
    BY <2>1, UserOrResident DEF Reserved, Resident
  <2>3. v \in Touches(p)
    BY <2>1, <2>2 DEF TouchInv, Away
  <2> DEFINE y == <<p, v>>
  <2>4. y \in Touched /\ y[1] = p /\ y[2] = v
    BY <2>2, <2>3 DEF Touched
  <2> HIDE DEF y
  <2> QED BY <2>1, <2>4
<1>6. IsFiniteSet(Touched)
  <2>1. IsFiniteSet(Users \X Pages)
    <3>1. IsFiniteSet(1 .. MAX_TASK_NUM - 1)
      BY FS_Interval, MemoryAssumption
    <3>2. IsFiniteSet(Users)
      BY <3>1, FS_Subset DEF Users, Tasks
    <3>3. IsFiniteSet(0 .. PDE_NUMBER - 1) /\ IsFiniteSet(0 .. PTE_NUMBER - 1)
      BY FS_Interval, MemoryAssumption
    <3>4. IsFiniteSet(Pages)
      BY <3>3, FS_Product DEF Pages
    <3> QED BY <3>2, <3>4, FS_Product
  <2>2. Touched \subseteq Users \X Pages
    BY DEF Touched
  <2> QED BY <2>1, <2>2, FS_Subset
<1> HIDE DEF x, n, Of
<1>7. \A s \in S : h[s] \in Touched /\ Of(s, h[s])
  BY <1>5
<1>8. h \in [S -> T]
  BY <1>4, <1>7
<1>9. \A s, r \in S : h[s] = h[r] => s = r
  BY <1>7 DEF Of
<1> HIDE DEF h, S, T
<1>10. h \in Injection(S, T)
  BY <1>8, <1>9, SMT DEF Injection, IsInjective
<1>11. IsFiniteSet(T) /\ Cardinality(T) = Cardinality(Touched) - 1
  BY <1>3, <1>6, FS_RemoveElement DEF T
<1>12. Cardinality(S) <= Cardinality(T)
  BY <1>10, <1>11, FS_Injection
<1>13. Cardinality(S) = n
  BY <1>1, FS_Interval DEF S
<1>14. Cardinality(Touched) \in Nat
  BY <1>6, FS_CardinalityType
<1> QED BY <1>1, <1>11, <1>12, <1>13, <1>14 DEF SwapFits, n

\* A step that moves no page to or from the swap area.
LEMMA KeepSlots ==
  ASSUME Inv, SlotInv, UNCHANGED swap_area_slist, raced => raced',
         \A p \in Tasks, v \in Pages : /\ Away(p, v)' <=> Away(p, v)
                                       /\ Away(p, v) => Addr(p, v)' = Addr(p, v),
         \A p \in Tasks : Moving(p)' /\ IsMapped(p, fault[p].vpn)' =>
           fault'[p].slot = (Addr(p, fault[p].vpn))'
  PROVE  SlotInv'
<1> SUFFICES ASSUME ~ raced' PROVE (Stored /\ Apart /\ Filled /\ Known)'
  BY DEF SlotInv
<1>1. Stored /\ Apart /\ Filled /\ Known
  BY DEF SlotInv
<1>2. \A s : SlotUsed(s)' <=> SlotUsed(s)
  BY DEF SlotUsed
<1>3. Stored'
  BY <1>1, <1>2 DEF Stored
<1>4. Apart'
  BY <1>1 DEF Apart
<1>5. Filled'
  BY <1>1, <1>2 DEF Filled
<1>6. Known'
  BY DEF Known
<1> QED BY <1>3, <1>4, <1>5, <1>6

\* A step that moves no page at all.
LEMMA SameSlots ==
  ASSUME Inv, SlotInv, UNCHANGED swap_area_slist, raced => raced', SameMap,
         \A p \in Tasks : Moving(p)' =>
           Moving(p) /\ fault'[p].vpn = fault[p].vpn /\ fault'[p].slot = fault[p].slot
  PROVE  SlotInv'
<1> SUFFICES ASSUME ~ raced' PROVE SlotInv'
  BY DEF SlotInv
<1>1. \A p \in Tasks : p \in Pids /\ fault[p].vpn \in Pages
  BY Constants DEF Inv, Types, FaultTypes, FaultType
<1>2. \A p \in Pids, v \in Pages : /\ Away(p, v)' <=> Away(p, v)
                                   /\ IsMapped(p, v)' <=> IsMapped(p, v)
                                   /\ IsMapped(p, v) => Addr(p, v)' = Addr(p, v)
  BY SameMoves
<1>3. \A p \in Tasks, v \in Pages : /\ Away(p, v)' <=> Away(p, v)
                                    /\ Away(p, v) => Addr(p, v)' = Addr(p, v)
  BY <1>1, <1>2 DEF Away
<1>4. ASSUME NEW p \in Tasks, Moving(p)', IsMapped(p, fault[p].vpn)'
      PROVE  fault'[p].slot = (Addr(p, fault[p].vpn))'
  <2>1. PICK v \in Pages : v = fault[p].vpn
    BY <1>1
  <2>2. IsMapped(p, v)' /\ fault'[p].vpn = v
    BY <1>4, <2>1
  <2>3. fault[p].slot = Addr(p, v)
    BY <1>1, <1>2, <1>4, <2>1, <2>2 DEF SlotInv, Known
  <2>4. Addr(p, v)' = Addr(p, v)
    BY <1>1, <1>2, <2>2
  <2> QED BY <1>4, <2>2, <2>3, <2>4
<1> QED BY <1>3, <1>4, KeepSlots

\* A new page has no slot.
LEMMA TakeNewSlots ==
  ASSUME Inv, SlotInv, NEW c, NEW v, NEW f, Take(c, v, f), TakeNew(c, v, f)
  PROVE  SlotInv'
<1> SUFFICES ASSUME ~ raced' PROVE SlotInv'
  BY DEF SlotInv
<1>1. /\ c \in Tasks /\ c \in Pids /\ v \in Pages /\ f \in Frames /\ c = Current
      /\ raced' = (raced \/ InTransit) /\ UNCHANGED swap_area_slist
  BY Constants DEF Take
<1>2. /\ SetMap(c, v, PteOf(1, f)) /\ fault' = [fault EXCEPT ![c].at = "write"]
      /\ ~ IsMapped(c, v)
  BY DEF TakeNew
<1>3. ~ raced /\ \A p \in Tasks : p # c => ~ Moving(p)
  BY <1>1, NoOther
<1> DEFINE one == 1
<1>4. one \in 0 .. 1 /\ one # 0 /\ f \in Frames \cup Slots /\ SetMap(c, v, PteOf(one, f))
  BY <1>1, <1>2
<1> HIDE DEF one
<1>5. Moved(c, v, one, f)
  BY <1>1, <1>4, SetMoves
<1>6. \A p \in Tasks, x \in Pages : /\ Away(p, x)' <=> Away(p, x)
                                    /\ Away(p, x) => Addr(p, x)' = Addr(p, x)
  BY <1>2, <1>4, <1>5, Constants DEF Moved, Away
<1>7. \A p \in Tasks : ~ Moving(p)'
  <2>1. fault'[c].at = "write" /\ \A p \in Tasks : p # c => fault'[p] = fault[p]
    BY <1>1, <1>2, Constants DEF Inv, Types, FaultTypes, FaultType
  <2> QED BY <1>3, <2>1 DEF Moving
<1> QED BY <1>1, <1>3, <1>6, <1>7, KeepSlots

\* swap_in asks for the slot that the page is in.
LEMMA TakeOldSlots ==
  ASSUME Inv, SlotInv, NEW c, NEW v, NEW f, NEW s, NEW t, Take(c, v, f), TakeOld(c, v, f, s, t)
  PROVE  SlotInv' /\ (~ raced' => s = Addr(c, v))
<1> SUFFICES ASSUME ~ raced' PROVE SlotInv' /\ s = Addr(c, v)
  BY DEF SlotInv
<1>1. /\ c \in Tasks /\ c \in Pids /\ v \in Pages /\ c = Current /\ v = fault[c].vpn
      /\ raced' = (raced \/ InTransit) /\ UNCHANGED swap_area_slist
      /\ fault[c].at \in {"walk", "frame"}
  BY Constants DEF Take
<1>2. /\ SameMap /\ t.at = "in" /\ t.vpn = v /\ t.slot = s /\ Away(c, v)
      /\ t \in FaultType /\ fault' = [fault EXCEPT ![c] = t]
      /\ s = IF fault[c].at = "walk" THEN Pte(c, v).addr ELSE fault[c].slot
  BY DEF TakeOld
<1>3. ~ raced /\ \A p \in Tasks : p # c => ~ Moving(p)
  BY <1>1, NoOther
<1>4. s = Addr(c, v)
  BY <1>1, <1>2, <1>3 DEF SlotInv, Known, Moving, Away, Addr
<1>5. \A p \in Pids, x \in Pages : /\ Away(p, x)' <=> Away(p, x)
                                   /\ IsMapped(p, x)' <=> IsMapped(p, x)
                                   /\ IsMapped(p, x) => Addr(p, x)' = Addr(p, x)
  BY <1>2, SameMoves
<1>6. \A p \in Tasks, x \in Pages : /\ Away(p, x)' <=> Away(p, x)
                                    /\ Away(p, x) => Addr(p, x)' = Addr(p, x)
  BY <1>5, Constants DEF Away
<1>7. fault'[c] = t /\ \A p \in Tasks : p # c => fault'[p] = fault[p]
  BY <1>1, <1>2, Constants DEF Inv, Types, FaultTypes
<1>8. ASSUME NEW p \in Tasks, Moving(p)', IsMapped(p, fault[p].vpn)'
      PROVE  fault'[p].slot = (Addr(p, fault[p].vpn))'
  <2>1. p = c
    BY <1>3, <1>7, <1>8 DEF Moving
  <2>2. fault'[p].vpn = v /\ fault'[p].slot = s
    BY <1>2, <1>7, <2>1
  <2>3. Addr(c, v)' = s
    BY <1>1, <1>2, <1>4, <1>5 DEF Away
  <2> QED BY <2>1, <2>2, <2>3
<1> QED BY <1>1, <1>3, <1>4, <1>6, <1>8, KeepSlots

\* The slot of a page that has been read is free.
LEMMA PageInSlots == Inv /\ FrameInv /\ SlotInv /\ PageIn => SlotInv'
<1> SUFFICES ASSUME Inv, FrameInv, SlotInv, PageIn, ~ raced'
             PROVE  (Stored /\ Apart /\ Filled /\ Known)'
  BY DEF SlotInv
<1>1. PICK c, v, f, s : c = Current /\ v = Vpn /\ f = fault[c].frame /\ s = fault[c].slot
  OBVIOUS
<1>2. UNCHANGED raced /\ fault' = [fault EXCEPT ![c].at = "write"]
  BY <1>1 DEF PageIn
<1>3. /\ c \in Tasks /\ c \in Pids /\ v \in Pages /\ f \in Frames /\ Away(c, v) /\ fault[c].at = "in"
      /\ SetMap(c, v, PteOf(1, f)) /\ v = fault[c].vpn
      /\ Freed(swap_area_slist, swap_area_slist', SWAP_AREA_SIZE, s)
  BY <1>1, PageInMap, Constants
<1>4. Alone /\ Stored /\ Apart /\ Filled /\ Known
  BY <1>2 DEF FrameInv, SlotInv
<1>5. s = Addr(c, v)
  BY <1>1, <1>3, <1>4 DEF Known, Moving, Away
<1>6. s \in Slots \ {0} /\ SlotUsed(s)
  BY <1>3, <1>4, <1>5 DEF Stored
<1>7. \A r \in Slots \ {0} : SlotUsed(r)' <=> SlotUsed(r) /\ r # s
  <2>1. \A r \in Slots \ {0} : r \in 1 .. SWAP_AREA_SIZE - 1
    BY Constants DEF Slots
  <2> QED BY <1>3, <2>1 DEF Freed, SlotUsed
<1> DEFINE one == 1
<1>8. one \in 0 .. 1 /\ one # 0 /\ f \in Frames \cup Slots /\ SetMap(c, v, PteOf(one, f))
  BY <1>3
<1> HIDE DEF one
<1>9. Moved(c, v, one, f)
  BY <1>3, <1>8, SetMoves
<1>10. \A p \in Tasks, x \in Pages : /\ Away(p, x)' <=> Away(p, x) /\ ~ (p = c /\ x = v)
                                     /\ Away(p, x)' => Addr(p, x)' = Addr(p, x)
  BY <1>8, <1>9, Constants DEF Moved, Away
<1>11. Stored'
  <2>1. ASSUME NEW p \in Tasks, NEW x \in Pages, Away(p, x)'
        PROVE  Addr(p, x)' \in Slots \ {0} /\ SlotUsed(Addr(p, x))'
    <3>1. PICK r : r = Addr(p, x)
      OBVIOUS
    <3>2. Away(p, x) /\ ~ (p = c /\ x = v) /\ Addr(p, x)' = r
      BY <1>10, <2>1, <3>1
    <3>3. r \in Slots \ {0} /\ SlotUsed(r)
      BY <1>4, <3>1, <3>2 DEF Stored
    <3>4. r # s
      BY <1>3, <1>4, <1>5, <3>1, <3>2 DEF Apart
    <3>5. SlotUsed(r)'
      BY <1>7, <3>3, <3>4
    <3> QED BY <3>2, <3>3, <3>5 DEF SlotUsed
  <2> QED BY <2>1 DEF Stored
<1>12. Apart'
  BY <1>4, <1>10 DEF Apart
<1>13. Filled'
  <2>1. ASSUME NEW r \in Slots \ {0}, SlotUsed(r)'
        PROVE  \E p \in Tasks, x \in Pages : Away(p, x)' /\ Addr(p, x)' = r
    <3>1. SlotUsed(r) /\ r # s
      BY <1>7, <2>1
    <3>2. PICK p \in Tasks, x \in Pages : Away(p, x) /\ Addr(p, x) = r
      BY <1>4, <3>1 DEF Filled
    <3>3. ~ (p = c /\ x = v)
      BY <1>5, <3>1, <3>2
    <3> QED BY <1>10, <3>2, <3>3
  <2> QED BY <2>1 DEF Filled
<1>14. Known'
  <2>1. fault'[c].at = "write" /\ \A p \in Tasks : p # c => fault'[p] = fault[p]
    BY <1>2, <1>3, Constants DEF Inv, Types, FaultTypes, FaultType
  <2>2. \A p \in Tasks : p # c => ~ Moving(p)
    BY <1>3, <1>4 DEF Alone, Moving
  <2>3. \A p \in Tasks : ~ Moving(p)'
    BY <2>1, <2>2 DEF Moving
  <2> QED BY <2>3 DEF Known
<1> QED BY <1>11, <1>12, <1>13, <1>14

\* The page that is written gets a slot that no other page has.
LEMMA SwapSlots ==
  ASSUME SwapFits, Inv, Reserved, FrameInv, TouchInv, SlotInv,
         NEW c, NEW v, NEW f, NEW q, NEW w, NEW s, NEW t, Swap(c, v, f, q, w, s, t)
  PROVE  SlotInv' /\ (~ raced' => s \in Slots \ {0} /\ ~ SlotUsed(s))
<1> SUFFICES ASSUME ~ raced'
             PROVE  (Stored /\ Apart /\ Filled /\ Known)' /\ s \in Slots \ {0} /\ ~ SlotUsed(s)
  BY DEF SlotInv
<1>1. /\ c \in Tasks /\ c \in Pids /\ v \in Pages /\ q \in Tasks /\ q \in Pids /\ w \in Pages
      /\ s \in Slots /\ v = fault[c].vpn /\ ~ IsPresent(c, v)
      /\ Allocated(swap_area_slist, swap_area_slist', SWAP_AREA_SIZE, s)
      /\ SetMap(q, w, PteOf(0, s)) /\ Becomes(c, t)
      /\ t.slot = IF IsMapped(c, v) THEN Pte(c, v).addr ELSE 0
  BY Constants DEF Swap
<1>2. ~ raced /\ (\A p \in Tasks : ~ Moving(p)) /\ IsPresent(q, w)
  BY SwapHolds
<1>3. Stored /\ Apart /\ Filled
  BY <1>2 DEF SlotInv
<1>4. q \in Users
  BY SwapReserved
<1>5. s # 0
  BY <1>1, <1>2, <1>3, <1>4, SlotLeft DEF Allocated
<1>6. s \in Slots \ {0}
  BY <1>1, <1>5
<1>7. ~ SlotUsed(s) /\ \A r \in Slots \ {0} : SlotUsed(r)' <=> SlotUsed(r) \/ r = s
  <2>1. \A r \in Slots \ {0} : r \in 1 .. SWAP_AREA_SIZE - 1
    BY Constants DEF Slots
  <2>2. /\ swap_area_slist[s].valid = 0
        /\ \A i \in 1 .. SWAP_AREA_SIZE - 1 :
             swap_area_slist'[i].valid = IF i = s THEN 1 ELSE swap_area_slist[i].valid
    BY <1>1, <1>5 DEF Allocated
  <2> QED BY <2>1, <2>2 DEF SlotUsed
<1> DEFINE zero == 0
<1>8. zero \in 0 .. 1 /\ zero = 0 /\ s \in Frames \cup Slots /\ SetMap(q, w, PteOf(zero, s))
  BY <1>1
<1> HIDE DEF zero
<1>9. Moved(q, w, zero, s)
  BY <1>1, <1>8, SetMoves
<1>10. \A p \in Pids, x \in Pages :
         /\ Away(p, x)' <=> Away(p, x) \/ (p = q /\ x = w)
         /\ IsMapped(p, x)' <=> IsMapped(p, x) \/ (p = q /\ x = w)
         /\ IsMapped(p, x)' => Addr(p, x)' = IF p = q /\ x = w THEN s ELSE Addr(p, x)
  BY <1>8, <1>9 DEF Moved
<1>11. \A p \in Tasks, x \in Pages :
         /\ Away(p, x)' <=> Away(p, x) \/ (p = q /\ x = w)
         /\ Away(p, x)' => Addr(p, x)' = IF p = q /\ x = w THEN s ELSE Addr(p, x)
  BY <1>10, Constants DEF Away
<1>12. ~ Away(q, w)
  BY <1>2 DEF Away, IsPresent
<1>13. Stored'
  <2>1. ASSUME NEW p \in Tasks, NEW x \in Pages, Away(p, x)'
        PROVE  Addr(p, x)' \in Slots \ {0} /\ SlotUsed(Addr(p, x))'
    <3>1. PICK r : r = Addr(p, x)'
      OBVIOUS
    <3>2. r \in Slots \ {0} /\ (SlotUsed(r) \/ r = s)
      BY <1>3, <1>6, <1>11, <2>1, <3>1 DEF Stored
    <3>3. SlotUsed(r)'
      BY <1>7, <3>2
    <3> QED BY <3>1, <3>2, <3>3 DEF SlotUsed
  <2> QED BY <2>1 DEF Stored
<1>14. Apart'
  <2>1. \A p \in Tasks, x \in Pages : Away(p, x) => Addr(p, x) # s
    BY <1>3, <1>7 DEF Stored
  <2>2. ASSUME NEW p \in Tasks, NEW r \in Tasks, NEW x \in Pages, NEW y \in Pages,
               Away(p, x)', Away(r, y)', Addr(p, x)' = Addr(r, y)'
        PROVE  p = r /\ x = y
    <3>1. CASE ~ (p = q /\ x = w) /\ ~ (r = q /\ y = w)
      BY <1>3, <1>11, <2>2, <3>1 DEF Apart
    <3>2. CASE (p = q /\ x = w) /\ ~ (r = q /\ y = w)
      BY <1>11, <2>1, <2>2, <3>2
    <3>3. CASE ~ (p = q /\ x = w) /\ (r = q /\ y = w)
      BY <1>11, <2>1, <2>2, <3>3
    <3> QED BY <3>1, <3>2, <3>3
  <2> QED BY <2>2 DEF Apart
<1>15. Filled'
  <2>1. ASSUME NEW r \in Slots \ {0}, SlotUsed(r)'
        PROVE  \E p \in Tasks, x \in Pages : Away(p, x)' /\ Addr(p, x)' = r
    <3>1. CASE r = s
      BY <1>1, <1>11, <3>1
    <3>2. CASE r # s
      <4>1. PICK p \in Tasks, x \in Pages : Away(p, x) /\ Addr(p, x) = r
        BY <1>3, <1>7, <2>1, <3>2 DEF Filled
      <4>2. ~ (p = q /\ x = w)
        BY <1>12, <4>1
      <4> QED BY <1>11, <4>1, <4>2
    <3> QED BY <3>1, <3>2
  <2> QED BY <2>1 DEF Filled
<1>16. Known'
  <2>1. fault'[c] = t /\ t.vpn = v /\ \A p \in Tasks : p # c => fault'[p] = fault[p]
    BY <1>1, WaitingFault, Constants DEF Becomes
  <2>2. ~ (c = q /\ v = w)
    BY <1>1, <1>2
  <2>3. IsMapped(c, v)' => t.slot = Addr(c, v)'
    BY <1>1, <1>10, <2>2 DEF Addr
  <2>4. ASSUME NEW p \in Tasks, Moving(p)', IsMapped(p, fault[p].vpn)'
        PROVE  fault'[p].slot = (Addr(p, fault[p].vpn))'
    <3>1. p = c
      BY <1>2, <2>1, <2>4 DEF Moving
    <3>2. fault'[p].vpn = v /\ fault'[p].slot = t.slot
      BY <2>1, <3>1
    <3> QED BY <2>3, <2>4, <3>1, <3>2
  <2> QED BY <2>4 DEF Known
<1> QED BY <1>6, <1>7, <1>13, <1>14, <1>15, <1>16

\* Steps that change neither the map nor the slots.
LEMMA QuietSlots ==
  ASSUME Inv, SlotInv, UNCHANGED <<tableVars, fault>>, raced => raced',
         \A p \in Tasks : pid_list[p].valid = 1 => pid_list'[p].valid = 1
  PROVE  SlotInv'
<1>1. SameMap
  BY SameTables DEF Inv, tableVars
<1> QED BY <1>1, SameSlots DEF tableVars, Moving

\* What the proofs about slots and contents rest on.
AllInv == Inv /\ Reserved /\ FrameInv /\ TouchInv /\ SlotInv

\* Every step keeps the slots.
LEMMA StepSlots ==
  ASSUME SwapFits, AllInv, [Next]_vars
  PROVE  SlotInv'
<1>0. Inv /\ Reserved /\ FrameInv /\ TouchInv /\ SlotInv
  BY DEF AllInv
<1>1. CASE UNCHANGED vars \/ Tick \/ IoStep \/ FsCall \/ \E v \in Pages, x \in Values : Store(v, x)
  <2>1. UNCHANGED <<tableVars, fault, pid_list>>
    BY <1>1 DEF vars, Tick, IoStep, IoInit, IoDown, IoFetch, IoFill, IoDrain, IoUp, FsCall, Store
  <2>2. raced => raced'
    BY <1>1 DEF vars, Tick, IoStep, IoInit, IoDown, IoFetch, IoFill, IoDrain, IoUp, FsCall, Store
  <2> QED BY <1>0, <2>1, <2>2, QuietSlots
<1>2. CASE Spawn
  <2>1. UNCHANGED <<swap_area_slist, pt_pool_slist, page_table_pool, fault, raced>>
    BY <1>2 DEF Spawn
  <2>2. PICK r : r = slist_alloc_ret(pid_list)
    OBVIOUS
  <2>3. /\ r \in Tasks /\ pid_list[r].valid = 0
        /\ \A p \in Tasks : pid_list[p].valid = 1 => pid_list'[p].valid = 1
    BY <1>0, <1>2, <2>2, SpawnList
  <2>4. page_dir' = [page_dir EXCEPT ![r] = page_dir_init(@)]
    BY <1>2, <2>2 DEF Spawn
  <2>5. SameMap
    BY <1>0, <2>1, <2>3, <2>4, NewDir DEF Inv, Types
  <2> QED BY <1>0, <2>1, <2>5, SameSlots DEF Moving
<1>3. ASSUME NEW v \in Pages, TlbException(v) PROVE SlotInv'
  <2>1. PICK p, r : Look(p, v, r)
    BY <1>0, <1>3, LookCases
  <2>2. /\ p \in Pids /\ r.at = "walk" /\ r \in FaultType /\ fault' = [fault EXCEPT ![p] = r]
        /\ SameMap /\ UNCHANGED <<swap_area_slist, raced>>
    BY <2>1 DEF Look
  <2>3. fault'[p] = r /\ \A q \in Tasks : q # p => fault'[q] = fault[q]
    BY <1>0, <2>2, Constants DEF Inv, Types, FaultTypes
  <2> QED BY <1>0, <2>2, <2>3, SameSlots DEF Moving
<1>4. CASE Rejoin
  <2>1. PICK c : c = Current
    OBVIOUS
  <2>2. /\ UNCHANGED <<pid_list, tableVars, raced>>
        /\ At("out") /\ fault' = [fault EXCEPT ![c].at = "frame"]
    BY <1>4, <2>1 DEF Rejoin
  <2>3. c \in Tasks /\ c \in Pids /\ fault[c].at = "out" /\ fault[c] \in FaultType
    BY <1>0, <2>1, <2>2, Faulting
  <2>4. /\ fault'[c].vpn = fault[c].vpn /\ fault'[c].slot = fault[c].slot
        /\ \A p \in Tasks : p # c => fault'[p] = fault[p]
    BY <1>0, <2>2, <2>3, Constants DEF Inv, Types, FaultTypes, FaultType
  <2>5. SameMap
    BY <1>0, <2>2, SameTables DEF Inv, tableVars
  <2> QED BY <1>0, <2>2, <2>3, <2>4, <2>5, SameSlots DEF tableVars, Moving
<1>5. CASE TlbWrite
  <2>1. PICK c : c = Current
    OBVIOUS
  <2>2. UNCHANGED <<pid_list, tableVars, raced>> /\ fault' = [fault EXCEPT ![c] = Idle]
    BY <1>5, <2>1 DEF TlbWrite
  <2>3. c \in Tasks /\ c \in Pids
    BY <1>0, <1>5, <2>1, WriteReady, Constants
  <2>4. fault'[c] = Idle /\ \A p \in Tasks : p # c => fault'[p] = fault[p]
    BY <1>0, <2>2, <2>3, Constants DEF Inv, Types, FaultTypes
  <2>5. SameMap
    BY <1>0, <2>2, SameTables DEF Inv, tableVars
  <2>6. Idle.at = "user"
    BY DEF Idle
  <2> QED BY <1>0, <2>2, <2>4, <2>5, <2>6, SameSlots DEF tableVars, Moving
<1>6. CASE TakeFrame
  BY <1>0, <1>6, TakeCases, TakeNewSlots, TakeOldSlots
<1>7. CASE Evict
  <2>1. CASE UNCHANGED <<fault, pm_slist, swap_area_slist, page_table_pool, pid_list, pm_owner,
                         pt_pool_slist, page_dir, raced>>
    BY <1>0, <2>1, QuietSlots DEF tableVars
  <2> QED BY <1>0, <1>7, <2>1, EvictCases, SwapSlots
<1>8. CASE PageIn
  BY <1>0, <1>8, PageInSlots
<1> QED BY <1>1, <1>2, <1>3, <1>4, <1>5, <1>6, <1>7, <1>8 DEF Next, Fault

\* At first there is nothing in the swap area.
LEMMA InitSlots == Init => SlotInv /\ TouchInv
<1> SUFFICES ASSUME Init PROVE SlotInv /\ TouchInv
  OBVIOUS
<1>1. \A p \in Tasks, v \in Pages : ~ IsMapped(p, v)
  BY PagesPairs, Constants DEF Init, EmptyPde, Walked, IsMapped
<1>2. \A p \in Tasks : fault[p].at = "user"
  BY Constants DEF Init, Idle
<1>3. \A s \in Slots \ {0} : ~ SlotUsed(s)
  <2>1. \A i \in 1 .. SWAP_AREA_SIZE - 1 : swap_area_slist[i].valid = 0
    BY InitShape, Constants DEF Init
  <2> QED BY <2>1, Constants DEF Slots, SlotUsed
<1>4. \A p \in Users : p \in Tasks
  BY UserOrResident
<1> QED BY <1>1, <1>2, <1>3, <1>4 DEF SlotInv, Stored, Apart, Filled, Known, Moving, TouchInv, Away

\* The invariants so far, together.
LEMMA InitAll == Init => AllInv
BY InitInv, InitReserved, InitFrames, InitSlots DEF AllInv

\* Every step keeps them.
LEMMA StepAll ==
  ASSUME SwapFits, AllInv, [Next]_vars
  PROVE  AllInv'
<1>1. Inv /\ Reserved /\ FrameInv /\ TouchInv
  BY DEF AllInv
<1>2. (Inv /\ Reserved /\ FrameInv /\ TouchInv)'
  BY <1>1, StepInv, StepReserved, StepFrames, StepTouch
<1> QED BY <1>2, StepSlots DEF AllInv

\* If the swap area has room for the pages that tasks touch, and as long as no
\* two faults that need a frame overlap, every page that is not in memory has a
\* slot of its own and no other slot is in use: swap_in frees the slot it read
\* from and no other, although it has looked it up before it blocked.
THEOREM MemorySlots == SwapFits /\ Spec => []SlotsOK
<1> SUFFICES ASSUME SwapFits PROVE Spec => []SlotsOK
  OBVIOUS
<1>1. AllInv /\ [Next]_vars => AllInv'
  BY StepAll
<1>2. AllInv => SlotsOK
  BY SlotParts DEF AllInv
<1> QED BY InitAll, <1>1, <1>2, PTL DEF Spec

-----------------------------------------------------------------------------
\* The protocol between a fault and io_proc, which DataOK rests on.

TaskVal == sem["io_tasks"]
DoneVal == sem["io_done"]

\* The request that io_proc has still to serve, if there is one.
Pending == \/ io.pc \in {"fill", "drain"}
           \/ io.pc = "down" /\ TaskVal = 1
           \/ io.pc = "fetch" /\ TaskVal = 0
Req == IF io.pc \in {"fill", "drain"} THEN io.req ELSE io_task

\* io_proc has not got as far as to wait for a request, or does so.
Quiet == \/ io.pc \in {"init", "down"} /\ TaskVal = 0
         \/ io.pc = "fetch" /\ in[IoProc] = "io_tasks" /\ TaskVal = -1

\* Who waits for what.
Queued ==
  \A p \in Tasks : /\ in[p] = "io_done" => fault[p].at \in {"out", "in"}
                   /\ in[p] = "io_tasks" => p = IoProc /\ io.pc = "fetch" /\ TaskVal = -1
Runs == panic = 0 /\ Current # 0 => in[Current] = "ready" /\ Current \notin removed

\* A task is kept from running only while its page is being written.
Kept ==
  /\ IoProc \notin removed
  /\ \A p \in removed : \E q \in Tasks : q # p /\ fault[q].at = "out" /\ fault[q].victim = p

\* Either nobody waits for io_proc, or there is work for it or it is about to
\* wake who waits.
AtRest == (\A p \in Tasks : in[p] # "io_done") /\ Quiet /\ DoneVal = 0
Busy ==
  /\ \E p \in Tasks : in[p] = "io_done"
  /\ DoneVal = -1
  /\ Pending \/ (io.pc = "up" /\ TaskVal = 0)
  /\ io.pc \in {"fill", "drain"} => TaskVal = 0

\* The request is that of the fault: the page that is being written is in a
\* frame that nobody has, or the page that is being read comes from the slot and
\* goes to the frame of the fault.
Asked ==
  Pending => \A p \in Tasks :
    /\ fault[p].at = "out" => Req.type = "WRITE" /\ Req.frame \in RealFrames /\ ~ InUse(Req.frame)
    /\ fault[p].at = "in" =>
         Req.type = "READ" /\ Req.frame = fault[p].frame /\ Req.slot = fault[p].slot

\* No user task is there before io_proc has initialised the semaphores.
Early == io.pc = "init" => \A p \in Users : in[p] = "none"

SyncInv == ~ raced => Queued /\ Runs /\ Kept /\ (AtRest \/ Busy) /\ Asked /\ Early

\* A task that runs while nobody else is moving pages finds io_proc at rest.
LEMMA Calm ==
  ASSUME Queued, Runs, AtRest \/ Busy, NEW c \in Tasks, c = Current, panic = 0,
         \A p \in Tasks : p # c => ~ Moving(p)
  PROVE  AtRest /\ in[c] = "ready" /\ c \notin removed
<1>1. in[c] = "ready" /\ c \notin removed
  BY Constants DEF Runs
<1>2. ~ Busy
  BY <1>1 DEF Busy, Queued, Moving
<1> QED BY <1>1, <1>2

\* At rest there is no request.
LEMMA RestNot == AtRest => ~ Pending
BY DEF AtRest, Quiet, Pending

\* Steps that leave io_proc and the semaphores alone.
LEMMA KeepSync ==
  ASSUME Inv, SyncInv, raced => raced', UNCHANGED <<sem, io, io_task, removed>>,
         panic = 0 \/ UNCHANGED fault,
         \A p \in Tasks : in'[p] = in[p] \/ (in[p] = "none" /\ in'[p] = "ready" /\ p # IoProc),
         \A p \in Tasks : \/ fault'[p] = fault[p]
                          \/ /\ p = Current /\ fault[p].at # "out"
                             /\ fault'[p].at \notin {"out", "in"},
         UNCHANGED pm_slist \/ \A p \in Tasks : fault'[p].at # "out",
         Runs', Early'
  PROVE  SyncInv'
<1> SUFFICES ASSUME ~ raced' PROVE (Queued /\ Kept /\ (AtRest \/ Busy) /\ Asked)'
  BY DEF SyncInv
<1>1. Queued /\ Runs /\ Kept /\ (AtRest \/ Busy) /\ Asked /\ Early
  BY DEF SyncInv
<1>2. (Pending' <=> Pending) /\ Req' = Req /\ TaskVal' = TaskVal /\ DoneVal' = DoneVal
  BY DEF Pending, Req, TaskVal, DoneVal
<1>3. \A p \in Tasks : in'[p] # in[p] => in[p] \notin {"io_done", "io_tasks"} /\ in'[p] \notin {"io_done", "io_tasks"}
  OBVIOUS
<1>4. \A p \in Tasks : fault'[p] # fault[p] => in[p] # "io_done" /\ in'[p] # "io_done"
  BY <1>1, <1>3, Constants DEF Runs
<1>5. Queued'
  BY <1>1, <1>2, <1>3, <1>4 DEF Queued
<1>6. Kept'
  BY <1>1 DEF Kept
<1>7. (AtRest \/ Busy)'
  <2>1. in'[IoProc] = in[IoProc]
    BY Constants
  <2>2. Quiet' <=> Quiet
    BY <1>2, <2>1 DEF Quiet
  <2>3. AtRest => AtRest'
    BY <1>2, <1>3, <2>2 DEF AtRest
  <2>4. Busy => Busy'
    BY <1>2, <1>3 DEF Busy
  <2> QED BY <1>1, <2>3, <2>4
<1>8. Asked'
  <2>1. \A p \in Tasks : /\ fault'[p].at = "out" => fault[p].at = "out" /\ UNCHANGED pm_slist
                         /\ fault'[p].at = "in" => fault'[p] = fault[p]
    OBVIOUS
  <2> QED BY <1>1, <1>2, <2>1 DEF Asked, InUse
<1> QED BY <1>5, <1>6, <1>7, <1>8

\* The running task stays where it is.
LEMMA SameRuns ==
  ASSUME SyncInv, ~ raced, UNCHANGED <<current_running, removed>>, panic' = 0 => panic = 0,
         Current \in Tasks => in'[Current] = in[Current], Current \in Pids
  PROVE  Runs'
BY Constants DEF SyncInv, Runs, Current

\* Nobody is started, or io_proc is past its start.
LEMMA SameEarly ==
  ASSUME SyncInv, ~ raced, UNCHANGED io, io.pc # "init" \/ \A p \in Users : in'[p] = in[p]
  PROVE  Early'
BY DEF SyncInv, Early

\* The clock: scheduler() selects a task of the ready queue.
LEMMA TickSync == Inv /\ SyncInv /\ Tick => SyncInv'
<1> SUFFICES ASSUME Inv, SyncInv, Tick, ~ raced' PROVE SyncInv'
  BY DEF SyncInv
<1>1. /\ UNCHANGED <<in, removed, sem, io_task, pm_slist, io, fault, raced>>
      /\ SwitchTask(boosted)
  BY DEF Tick, tableVars
<1>2. \/ /\ panic' = panic /\ current_running' \in Tasks
         /\ in'[current_running'] = "ready" /\ current_running' \notin removed'
      \/ panic' = 1 /\ current_running' = current_running
  BY <1>1, SwitchStep DEF Inv, Types, SchedTypes
<1>3. Runs'
  BY <1>2 DEF Runs, Current
<1>4. Early'
  BY <1>1, SameEarly
<1> QED BY <1>1, <1>3, <1>4, KeepSync

\* A new task is in the ready queue.
LEMMA SpawnSync == Inv /\ Reserved /\ SyncInv /\ Spawn => SyncInv'
<1> SUFFICES ASSUME Inv, Reserved, SyncInv, Spawn, ~ raced' PROVE SyncInv'
  BY DEF SyncInv
<1>1. PICK r : r = slist_alloc_ret(pid_list)
  OBVIOUS
<1>2. /\ UNCHANGED <<current_running, removed, panic, sem, io_task, pm_slist, io, fault, raced>>
      /\ in' = [in EXCEPT ![r] = "ready"] /\ Current = Shell /\ io.pc # "init"
  BY <1>1 DEF Spawn, Executes, Running
<1>3. r \in Tasks /\ r \in Pids /\ pid_list[r].valid = 0
  BY <1>1, SpawnList, Constants
<1>4. in[r] = "none"
  BY <1>3 DEF Inv, Alive
<1>5. r # IoProc /\ r # Shell
  BY <1>3 DEF Reserved, Resident, Residents
<1>6. \A p \in Tasks : in'[p] = IF p = r THEN "ready" ELSE in[p]
  BY <1>2, <1>3, Constants DEF Inv, Types, SchedTypes
<1>7. Runs'
  BY <1>2, <1>5, <1>6, SameRuns, Constants
<1>8. Early'
  BY <1>2, SameEarly
<1> QED BY <1>2, <1>4, <1>5, <1>6, <1>7, <1>8, KeepSync

\* The steps of a fault that do not block, but for the end of swap_out.
LEMMA FaultSync ==
  ASSUME Inv, SyncInv, raced => raced',
         UNCHANGED <<current_running, in, removed, sem, io, io_task>>, panic' = 0 => panic = 0,
         panic = 0 \/ UNCHANGED fault,
         \A p \in Tasks : \/ fault'[p] = fault[p]
                          \/ /\ p = Current /\ fault[p].at # "out"
                             /\ fault'[p].at \notin {"out", "in"},
         UNCHANGED pm_slist \/ \A p \in Tasks : fault'[p].at # "out"
  PROVE  SyncInv'
<1> SUFFICES ASSUME ~ raced' PROVE SyncInv'
  BY DEF SyncInv
<1>1. Current \in Pids
  BY DEF Inv, Types, SchedTypes, Current
<1>2. Runs'
  BY <1>1, SameRuns
<1>3. Early'
  BY SameEarly
<1> QED BY <1>2, <1>3, KeepSync

\* A fault that begins, or ends.
LEMMA LookSync ==
  ASSUME Inv, SyncInv, NEW v \in Pages, TlbException(v)
  PROVE  SyncInv'
<1>1. PICK p, r : Look(p, v, r)
  BY LookCases
<1>2. /\ p \in Pids /\ p = Current /\ panic = 0 /\ fault[p].at = "user" /\ r.at = "walk"
      /\ r \in FaultType /\ fault' = [fault EXCEPT ![p] = r]
      /\ UNCHANGED <<current_running, in, removed, sem, io, io_task, pm_slist, raced>>
  BY <1>1 DEF Look
<1>3. fault'[p] = r /\ \A q \in Tasks : q # p => fault'[q] = fault[q]
  BY <1>2, Constants DEF Inv, Types, FaultTypes
<1> QED BY <1>2, <1>3, FaultSync

\* The end of a fault.
LEMMA TlbWriteSync == Inv /\ SyncInv /\ TlbWrite => SyncInv'
<1> SUFFICES ASSUME Inv, SyncInv, TlbWrite PROVE SyncInv'
  OBVIOUS
<1>1. PICK c : c = Current
  OBVIOUS
<1>2. /\ UNCHANGED <<current_running, in, removed, panic, sem, io, io_task, pm_slist, raced>>
      /\ fault' = [fault EXCEPT ![c] = Idle]
  BY <1>1 DEF TlbWrite, schedVars, tableVars
<1>3. c \in Tasks /\ c \in Pids /\ panic = 0 /\ fault[c].at \in {"write", "walk"}
  BY <1>1, WriteReady, Constants DEF TlbWrite, At
<1>4. fault'[c] = Idle /\ \A p \in Tasks : p # c => fault'[p] = fault[p]
  BY <1>2, <1>3, Constants DEF Inv, Types, FaultTypes
<1>5. Idle.at = "user"
  BY DEF Idle
<1> QED BY <1>1, <1>2, <1>3, <1>4, <1>5, FaultSync

\* The rest of swap_in.
LEMMA PageInSync == Inv /\ SyncInv /\ PageIn => SyncInv'
<1> SUFFICES ASSUME Inv, SyncInv, PageIn PROVE SyncInv'
  OBVIOUS
<1>1. PICK c : c = Current
  OBVIOUS
<1>2. /\ UNCHANGED <<current_running, in, removed, panic, sem, io, io_task, pm_slist, raced>>
      /\ fault' = [fault EXCEPT ![c].at = "write"] /\ panic = 0
  BY <1>1 DEF PageIn, schedVars, At
<1>3. c \in Tasks /\ fault[c].at = "in" /\ fault[c] \in FaultType
  BY <1>1, PageInMap
<1>4. fault'[c].at = "write" /\ \A p \in Tasks : p # c => fault'[p] = fault[p]
  BY <1>2, <1>3, Constants DEF Inv, Types, FaultTypes, FaultType
<1> QED BY <1>1, <1>2, <1>3, <1>4, FaultSync

\* A new page: nobody is at "out", or there is a race.
LEMMA TakeNewSync ==
  ASSUME Inv, SyncInv, NEW c, NEW v, NEW f, Take(c, v, f), TakeNew(c, v, f)
  PROVE  SyncInv'
<1> SUFFICES ASSUME ~ raced' PROVE SyncInv'
  BY DEF SyncInv
<1>1. /\ c \in Tasks /\ c = Current /\ panic = 0 /\ fault[c].at \in {"walk", "frame"}
      /\ raced' = (raced \/ InTransit) /\ fault' = [fault EXCEPT ![c].at = "write"]
      /\ UNCHANGED <<current_running, in, removed, panic, sem, io, io_task>>
  BY DEF Take, TakeNew
<1>2. ~ raced /\ \A p \in Tasks : p # c => ~ Moving(p)
  BY <1>1, NoOther
<1>3. fault'[c].at = "write" /\ \A p \in Tasks : p # c => fault'[p] = fault[p]
  BY <1>1, Constants DEF Inv, Types, FaultTypes, FaultType
<1>4. \A p \in Tasks : fault'[p].at # "out"
  BY <1>2, <1>3 DEF Moving
<1> QED BY <1>1, <1>2, <1>3, <1>4, FaultSync

\* The rest of swap_out: the owner of the page may run again.
LEMMA RejoinSync == Inv /\ FrameInv /\ SyncInv /\ Rejoin => SyncInv'
<1> SUFFICES ASSUME Inv, FrameInv, SyncInv, Rejoin, ~ raced' PROVE SyncInv'
  BY DEF SyncInv
<1>1. PICK c : c = Current
  OBVIOUS
<1>2. /\ UNCHANGED <<current_running, in, panic, sem, io_task, pm_slist, io, raced>>
      /\ At("out") /\ removed' = removed \ {fault[c].victim}
      /\ fault' = [fault EXCEPT ![c].at = "frame"]
  BY <1>1 DEF Rejoin, tableVars
<1>3. c \in Tasks /\ c \in Pids /\ fault[c].at = "out" /\ fault[c] \in FaultType /\ panic = 0
  BY <1>1, <1>2, Faulting
<1>4. fault'[c].at = "frame" /\ \A p \in Tasks : p # c => fault'[p] = fault[p]
  BY <1>2, <1>3, Constants DEF Inv, Types, FaultTypes, FaultType
<1>5. Queued /\ Runs /\ Kept /\ (AtRest \/ Busy) /\ Asked /\ Early /\ Alone
  BY <1>2 DEF SyncInv, FrameInv
<1>6. \A p \in Tasks : p # c => ~ Moving(p)
  BY <1>3, <1>5 DEF Alone, Moving
<1>7. AtRest /\ in[c] = "ready"
  BY <1>1, <1>3, <1>5, <1>6, Calm
<1>8. AtRest' /\ ~ Pending'
  <2>1. AtRest'
    BY <1>2, <1>7 DEF AtRest, Quiet, TaskVal, DoneVal
  <2>2. ~ Pending
    BY <1>7, RestNot
  <2> QED BY <1>2, <2>1, <2>2 DEF Pending, TaskVal
<1>9. Queued'
  BY <1>2, <1>4, <1>5, <1>7 DEF Queued, TaskVal
<1>10. Runs' /\ Early' /\ Asked'
  BY <1>2, <1>5, <1>8 DEF Runs, Early, Asked, Current
<1>11. Kept'
  <2>1. removed' = {}
    <3>1. ASSUME NEW p \in removed PROVE p = fault[c].victim
      <4>1. PICK q \in Tasks : fault[q].at = "out" /\ fault[q].victim = p
        BY <1>5, <3>1 DEF Kept
      <4>2. q = c
        BY <1>6, <4>1 DEF Moving
      <4> QED BY <4>1, <4>2
    <3> QED BY <1>2, <3>1
  <2> QED BY <2>1 DEF Kept
<1> QED BY <1>8, <1>9, <1>10, <1>11 DEF SyncInv

\* A request when io_proc is at rest: the task waits for io_done, and io_proc
\* has the request before it.
Posted(c, type, f, s) ==
  /\ Queued' /\ Runs' /\ Busy' /\ Early' /\ Pending'
  /\ Req'.type = type /\ Req'.frame = f /\ Req'.slot = s

\* That is what a request does.
LEMMA RequestSync ==
  ASSUME Inv, Queued, AtRest, Early, NEW c \in Users, c = Current, panic = 0, in[c] = "ready",
         NEW type \in {"READ", "WRITE"}, NEW f \in Frames, NEW s \in Slots,
         removed' \subseteq Tasks, IoProc \notin removed', Request(type, f, s), UNCHANGED io,
         fault'[c].at \in {"out", "in"}, \A p \in Tasks : p # c => fault'[p] = fault[p]
  PROVE  Posted(c, type, f, s)
<1>1. c \in Tasks /\ c # IoProc /\ IoProc \in Tasks /\ c # 0
  BY UserOrResident, Constants DEF Residents
<1>2. /\ SchedTypes' /\ io_task' = [type |-> type, frame |-> f, slot |-> s]
      /\ TaskVal' = TaskVal + 1 /\ DoneVal' = DoneVal - 1
      /\ \E w \in Woken("io_tasks", removed') : Downed("io_done", w)
      /\ \A p \in Tasks : in'[p] = "none" <=> in[p] = "none"
  BY <1>1, RequestStep, SMT DEF TaskVal, DoneVal
<1>3. PICK w \in Woken("io_tasks", removed') : Downed("io_done", w)
  BY <1>2
<1>4. io.pc \notin {"init", "fill", "drain", "up"} /\ DoneVal = 0
  BY DEF Early, AtRest, Quiet
<1>5. /\ \A p \in Tasks : in'[p] = IF p = c THEN "io_done" ELSE IF p \in w THEN "ready" ELSE in[p]
      /\ panic' = 0 => current_running' \in Tasks /\ in'[current_running'] = "ready"
                       /\ current_running' \notin removed'
  BY <1>3, <1>4 DEF Downed, DoneVal
<1>6. Runs'
  BY <1>5 DEF Runs, Current
<1>7. Early'
  BY <1>4 DEF Early
<1>8. \/ io.pc = "down" /\ TaskVal = 0
      \/ io.pc = "fetch" /\ TaskVal = -1 /\ IoProc \in w
  <2>1. CASE io.pc = "fetch"
    <3>1. TaskVal = -1 /\ in[IoProc] = "io_tasks"
      BY <2>1 DEF AtRest, Quiet
    <3>2. InQueue("io_tasks", in, removed') = {IoProc}
      BY <1>1, <3>1 DEF InQueue, Queued
    <3>3. w \in {{p} : p \in {IoProc}}
      BY <1>3, <3>1, <3>2 DEF Woken, TaskVal
    <3> QED BY <2>1, <3>1, <3>3
  <2> QED BY <1>4, <2>1 DEF AtRest, Quiet
<1>9. Pending' /\ Req' = io_task'
  BY <1>2, <1>8 DEF Pending, Req
<1>10. Busy'
  <2>1. DoneVal' = -1 /\ in'[c] = "io_done"
    BY <1>1, <1>2, <1>4, <1>5
  <2> QED BY <1>1, <1>4, <1>9, <2>1 DEF Busy
<1>11. Queued'
  <2>1. ASSUME NEW p \in Tasks, in'[p] = "io_done" PROVE p = c
    BY <1>5, <2>1 DEF AtRest
  <2>2. ASSUME NEW p \in Tasks, in'[p] = "io_tasks" PROVE FALSE
    <3>1. in[p] = "io_tasks" /\ p \notin w
      BY <1>5, <2>2
    <3> QED BY <1>8, <3>1 DEF Queued
  <2> QED BY <2>1, <2>2 DEF Queued
<1> QED BY <1>2, <1>6, <1>7, <1>9, <1>10, <1>11 DEF Posted

\* swap_in asks for its page.
LEMMA TakeOldSync ==
  ASSUME Inv, Reserved, SyncInv, NEW c, NEW v, NEW f, NEW s, NEW t, Take(c, v, f),
         TakeOld(c, v, f, s, t)
  PROVE  SyncInv' /\ (~ raced' => c \in Users /\ AtRest /\ Posted(c, "READ", f, s))
<1> SUFFICES ASSUME ~ raced' PROVE SyncInv' /\ c \in Users /\ AtRest /\ Posted(c, "READ", f, s)
  BY DEF SyncInv
<1>1. /\ c \in Tasks /\ c \in Pids /\ v \in Pages /\ c = Current /\ f \in Frames /\ panic = 0
      /\ raced' = (raced \/ InTransit) /\ UNCHANGED <<removed, io>>
  BY Constants DEF Take
<1>2. /\ t.at = "in" /\ t.slot = s /\ t.frame = f /\ Away(c, v) /\ s \in Slots
      /\ t \in FaultType /\ fault' = [fault EXCEPT ![c] = t] /\ Request("READ", f, s)
  BY DEF TakeOld
<1>3. ~ raced /\ \A p \in Tasks : p # c => ~ Moving(p)
  BY <1>1, NoOther
<1>4. Queued /\ Runs /\ Kept /\ (AtRest \/ Busy) /\ Early
  BY <1>3 DEF SyncInv
<1>5. AtRest /\ in[c] = "ready"
  BY <1>1, <1>3, <1>4, Calm
<1>6. c \in Users
  BY <1>1, <1>2, UserOrResident DEF Reserved, Resident
<1>7. fault'[c] = t /\ \A p \in Tasks : p # c => fault'[p] = fault[p]
  BY <1>1, <1>2, Constants DEF Inv, Types, FaultTypes
<1>8. removed' \subseteq Tasks /\ IoProc \notin removed'
  BY <1>1, <1>4 DEF Inv, Types, SchedTypes, Kept
<1> DEFINE ty == "READ"
<1>9. Posted(c, ty, f, s)
  <2>1. ty \in {"READ", "WRITE"} /\ Request(ty, f, s) /\ fault'[c].at \in {"out", "in"}
    BY <1>2, <1>7
  <2> HIDE DEF ty
  <2> QED BY <1>1, <1>2, <1>4, <1>5, <1>6, <1>7, <1>8, <2>1, RequestSync
<1>10. Kept'
  <2>1. removed = {}
    BY <1>2, <1>3, <1>4, <1>1 DEF Kept, Moving, Take
  <2> QED BY <1>1, <2>1 DEF Kept
<1>11. Asked'
  BY <1>1, <1>2, <1>3, <1>7, <1>9 DEF Asked, Posted, Moving
<1> QED BY <1>5, <1>6, <1>9, <1>10, <1>11 DEF SyncInv, Posted

\* swap_out asks for the page of its victim to be written.
LEMMA SwapSync ==
  ASSUME Inv, Reserved, FrameInv, SyncInv, NEW c, NEW v, NEW f, NEW q, NEW w, NEW s, NEW t,
         Swap(c, v, f, q, w, s, t)
  PROVE  SyncInv' /\ (~ raced' => AtRest /\ Posted(c, "WRITE", f, s))
<1> SUFFICES ASSUME ~ raced' PROVE SyncInv' /\ AtRest /\ Posted(c, "WRITE", f, s)
  BY DEF SyncInv
<1>1. /\ c \in Tasks /\ c \in Pids /\ c = Current /\ f \in RealFrames /\ f \in Frames /\ panic = 0
      /\ q \in Tasks /\ s \in Slots /\ Becomes(c, t) /\ t.at = "out" /\ t.victim = q
      /\ removed' = removed \cup ({q} \ {c}) /\ UNCHANGED io /\ Request("WRITE", f, s)
      /\ Freed(pm_slist, pm_slist', PM_SLIST_SIZE, f + 1)
  BY Constants DEF Swap
<1>2. ~ raced /\ \A p \in Tasks : ~ Moving(p)
  BY SwapHolds
<1>3. Queued /\ Runs /\ Kept /\ (AtRest \/ Busy) /\ Early
  BY <1>2 DEF SyncInv
<1>4. AtRest /\ in[c] = "ready"
  BY <1>1, <1>2, <1>3, Calm
<1>5. c \in Users /\ q \in Users
  BY SwapReserved
<1>6. fault'[c] = t /\ \A p \in Tasks : p # c => fault'[p] = fault[p]
  BY <1>1, WaitingFault, Constants
<1>7. removed' \subseteq Tasks /\ IoProc \notin removed'
  <2>1. q # IoProc
    BY <1>5, UserOrResident DEF Residents
  <2> QED BY <1>1, <1>3, <2>1 DEF Inv, Types, SchedTypes, Kept
<1> DEFINE ty == "WRITE"
<1>8. Posted(c, ty, f, s)
  <2>1. ty \in {"READ", "WRITE"} /\ Request(ty, f, s) /\ fault'[c].at \in {"out", "in"}
    BY <1>1, <1>6
  <2> HIDE DEF ty
  <2> QED BY <1>1, <1>3, <1>4, <1>5, <1>6, <1>7, <2>1, RequestSync
<1>9. Kept'
  <2>1. removed = {}
    BY <1>2, <1>3 DEF Kept, Moving
  <2> QED BY <1>1, <1>6, <1>7, <2>1 DEF Kept
<1>10. Asked'
  <2>1. ~ InUse(f)'
    BY <1>1, FreedUse
  <2>2. \A p \in Tasks : fault'[p].at # "in"
    BY <1>1, <1>2, <1>6 DEF Moving
  <2>3. Req'.type = "WRITE" /\ Req'.frame = f
    BY <1>8 DEF Posted
  <2> QED BY <1>1, <2>1, <2>2, <2>3 DEF Asked, InUse
<1> QED BY <1>4, <1>8, <1>9, <1>10 DEF SyncInv, Posted

\* io_proc runs.
LEMMA IoRuns ==
  ASSUME SyncInv, ~ raced, Executes(IoProc)
  PROVE  /\ Current = IoProc /\ panic = 0 /\ in[IoProc] = "ready"
         /\ Queued /\ Runs /\ Kept /\ (AtRest \/ Busy) /\ Asked /\ Early
BY Constants DEF SyncInv, Executes, Running, Runs

\* io_proc goes on with the request it has.
LEMMA ServeSync ==
  ASSUME SyncInv, ~ raced, Busy, Pending, io.pc # "down",
         UNCHANGED <<current_running, in, removed, panic, sem, io_task, fault, pm_slist, raced>>,
         io'.pc \in {"fill", "drain", "up"}, io'.pc = "up" \/ Req' = Req
  PROVE  SyncInv'
<1>1. Queued /\ Runs /\ Kept /\ Asked
  BY DEF SyncInv
<1>2. TaskVal = 0 /\ TaskVal' = 0
  BY DEF Busy, Pending, TaskVal
<1>3. Queued' /\ Runs' /\ Kept'
  BY <1>1, <1>2 DEF Queued, Runs, Kept, Current
<1>4. Busy'
  BY <1>2 DEF Busy, Pending, DoneVal
<1>5. Pending' => Req' = Req
  BY DEF Pending
<1>6. Asked'
  BY <1>1, <1>5 DEF Asked, InUse
<1>7. Early'
  BY DEF Early
<1> QED BY <1>3, <1>4, <1>6, <1>7 DEF SyncInv

\* The start of io_proc, before there are other tasks than the shell.
LEMMA IoInitSync == Inv /\ SyncInv /\ IoInit => SyncInv'
<1> SUFFICES ASSUME Inv, SyncInv, IoInit, ~ raced' PROVE SyncInv'
  BY DEF SyncInv
<1>1. /\ UNCHANGED <<current_running, in, removed, panic, io_task, fault, pm_slist, raced>>
      /\ io.pc = "init" /\ Executes(IoProc)
  BY DEF IoInit, schedVars, tableVars
<1>2. TaskVal' = 0 /\ DoneVal' = 0
  BY DEF IoInit, TaskVal, DoneVal, Sems
<1>3. io'.pc = "down"
  BY DEF IoInit, Inv, Types, IoTypes, IoType
<1>4. Queued /\ Runs /\ Kept /\ AtRest
  BY <1>1, IoRuns DEF Busy, Pending
<1>5. AtRest' /\ ~ Pending'
  BY <1>1, <1>2, <1>3, <1>4 DEF AtRest, Quiet, Pending
<1>6. Queued'
  BY <1>1, <1>4 DEF Queued
<1> QED BY <1>1, <1>3, <1>4, <1>5, <1>6 DEF SyncInv, Runs, Kept, Asked, Early, Current

\* io_proc waits for a request, or finds the one that there is.
LEMMA IoDownSync == Inv /\ SyncInv /\ IoDown => SyncInv'
<1> SUFFICES ASSUME Inv, SyncInv, IoDown, ~ raced' PROVE SyncInv'
  BY DEF SyncInv
<1> DEFINE none == {}
           s == "io_tasks"
<1>1. /\ UNCHANGED <<removed, io_task, fault, pm_slist, raced>>
      /\ SemDown(s, none) /\ sem' = [sem EXCEPT ![s] = @ - 1]
      /\ io.pc = "down" /\ Executes(IoProc)
  BY DEF IoDown, tableVars
<1>2. s \in Sems /\ none \subseteq Tasks /\ "io_done" \in Sems /\ s # "io_done"
  BY DEF Sems
<1>3. io'.pc = "fetch"
  BY DEF IoDown, Inv, Types, IoTypes, IoType
<1>4. /\ Current = IoProc /\ panic = 0 /\ in[IoProc] = "ready" /\ IoProc \in Tasks
      /\ Queued /\ Runs /\ Kept /\ (AtRest \/ Busy) /\ Asked
  BY <1>1, IoRuns, Constants
<1>5. Downed(s, none)
  <2> HIDE DEF none, s
  <2> QED BY <1>1, <1>2, <1>4, DownStep DEF Inv, Types, SchedTypes
<1>6. TaskVal' = TaskVal - 1 /\ DoneVal' = DoneVal
  BY <1>1, <1>2 DEF Inv, Types, IoTypes, TaskVal, DoneVal
<1>7. \A p \in Tasks : in'[p] = IF p = IoProc /\ TaskVal < 1 THEN "io_tasks" ELSE in[p]
  BY <1>4, <1>5 DEF Downed, TaskVal
<1>8. Runs'
  BY <1>1, <1>4, <1>5, <1>7 DEF Downed, Runs, Current, Kept, TaskVal
<1>9. Kept' /\ Early'
  BY <1>1, <1>3, <1>4 DEF Kept, Early
<1>10. CASE AtRest
  <2>1. TaskVal = 0 /\ TaskVal' = -1 /\ DoneVal' = 0 /\ in'[IoProc] = "io_tasks"
    BY <1>1, <1>4, <1>6, <1>7, <1>10 DEF AtRest, Quiet
  <2>2. Quiet' /\ ~ Pending'
    BY <1>3, <2>1 DEF Quiet, Pending
  <2>3. \A p \in Tasks : in'[p] # "io_done" /\ (in'[p] = "io_tasks" => p = IoProc)
    BY <1>1, <1>4, <1>7, <1>10 DEF AtRest, Queued
  <2>4. AtRest' /\ Queued' /\ Asked'
    BY <1>3, <2>1, <2>2, <2>3 DEF AtRest, Queued, Asked
  <2> QED BY <1>8, <1>9, <2>4 DEF SyncInv
<1>11. CASE Busy
  <2>1. TaskVal = 1 /\ Pending /\ TaskVal' = 0 /\ DoneVal' = -1
    BY <1>1, <1>6, <1>11 DEF Busy, Pending
  <2>2. Pending' /\ Req' = Req
    BY <1>1, <1>3, <2>1 DEF Pending, Req
  <2>3. \A p \in Tasks : in'[p] = in[p]
    BY <1>7, <2>1
  <2>4. Busy' /\ Queued'
    BY <1>1, <1>3, <1>4, <1>11, <2>1, <2>2, <2>3 DEF Busy, Queued
  <2>5. Asked'
    BY <1>1, <1>4, <2>1, <2>2 DEF Asked, InUse
  <2> QED BY <1>8, <1>9, <2>4, <2>5 DEF SyncInv
<1> QED BY <1>4, <1>10, <1>11

\* io_proc reads the request and carries it out.
LEMMA IoServeSync ==
  ASSUME Inv, SyncInv, IoFetch \/ IoFill \/ IoDrain
  PROVE  SyncInv' /\ (~ raced' => ~ raced /\ Busy /\ Pending)
<1> SUFFICES ASSUME ~ raced' PROVE SyncInv' /\ ~ raced /\ Busy /\ Pending
  BY DEF SyncInv
<1>1. /\ UNCHANGED <<current_running, in, removed, panic, sem, io_task, fault, pm_slist, raced>>
      /\ Executes(IoProc) /\ io.pc \in {"fetch", "fill", "drain"}
  BY DEF IoFetch, IoFill, IoDrain, schedVars, tableVars
<1>2. in[IoProc] = "ready" /\ (AtRest \/ Busy)
  BY <1>1, IoRuns
<1>3. Busy /\ Pending
  BY <1>1, <1>2 DEF AtRest, Quiet, Busy
<1>4. io'.pc \in {"fill", "drain", "up"} /\ (io'.pc = "up" \/ Req' = Req)
  <2>1. io \in IoType
    BY DEF Inv, Types, IoTypes
  <2>2. CASE IoFetch
    BY <2>1, <2>2 DEF IoFetch, IoType, Req
  <2>3. CASE IoFill
    <3>1. PICK x : io' = [io EXCEPT !.pc = "drain", !.indexbuf = x]
      BY <2>3 DEF IoFill
    <3>2. io'.pc = "drain" /\ io'.req = io.req /\ io.pc = "fill"
      BY <2>1, <2>3, <3>1 DEF IoFill, IoType
    <3> QED BY <3>2 DEF Req
  <2>4. CASE IoDrain
    BY <2>4 DEF IoDrain
  <2> QED BY <2>2, <2>3, <2>4
<1> QED BY <1>1, <1>3, <1>4, ServeSync

\* io_proc wakes the task whose request it has carried out.
LEMMA IoUpSync == Inv /\ FrameInv /\ SyncInv /\ IoUp => SyncInv'
<1> SUFFICES ASSUME Inv, FrameInv, SyncInv, IoUp, ~ raced' PROVE SyncInv'
  BY DEF SyncInv
<1> DEFINE s == "io_done"
<1>1. /\ UNCHANGED <<current_running, removed, panic, io_task, fault, pm_slist, raced>>
      /\ sem' = [sem EXCEPT ![s] = @ + 1] /\ io.pc = "up" /\ Executes(IoProc)
  BY DEF IoUp, tableVars
<1>2. PICK w \in Woken(s, removed) : in' = InAfter(w)
  BY DEF IoUp
<1>3. s \in Sems /\ "io_tasks" \in Sems /\ s # "io_tasks"
  BY DEF Sems
<1>4. io'.pc = "down"
  BY DEF IoUp, Inv, Types, IoTypes, IoType
<1>5. /\ Current = IoProc /\ in[IoProc] = "ready"
      /\ Queued /\ Runs /\ Kept /\ (AtRest \/ Busy) /\ Alone
  BY <1>1, IoRuns DEF FrameInv
<1>6. Busy /\ TaskVal = 0 /\ DoneVal = -1
  BY <1>1, <1>5 DEF AtRest, Quiet, Busy, Pending
<1>7. TaskVal' = 0 /\ DoneVal' = 0
  BY <1>1, <1>3, <1>6 DEF Inv, Types, IoTypes, TaskVal, DoneVal
<1>8. w \subseteq Tasks /\ \A p \in Tasks : in'[p] = IF p \in w THEN "ready" ELSE in[p]
  <2>1. w \subseteq Tasks
    BY WokenTasks
  <2> HIDE DEF s
  <2> QED BY <1>2, <2>1, InAfterStep DEF Inv, Types
<1>9. PICK p \in Tasks : in[p] = "io_done"
  BY <1>6 DEF Busy
<1>10. \A q \in Tasks : in[q] = "io_done" => q = p
  BY <1>5, <1>9 DEF Queued, Alone, Moving
<1>11. p \notin removed
  <2>1. ASSUME NEW q \in Tasks, q # p, fault[q].at = "out" PROVE FALSE
    BY <1>5, <1>9, <2>1 DEF Queued, Alone, Moving
  <2> QED BY <1>5, <2>1 DEF Kept
<1>12. p \in w
  <2>1. InQueue(s, in, removed) = {p}
    BY <1>9, <1>10, <1>11 DEF InQueue
  <2>2. w \in {{x} : x \in {p}}
    BY <1>2, <1>6, <2>1 DEF Woken, DoneVal
  <2> QED BY <2>2
<1>13. \A q \in Tasks : in'[q] # "io_done" /\ in'[q] # "io_tasks"
  BY <1>1, <1>5, <1>8, <1>10, <1>12 DEF Queued
<1>14. AtRest' /\ ~ Pending' /\ Queued'
  BY <1>4, <1>7, <1>13 DEF AtRest, Quiet, Pending, Queued
<1>15. Runs' /\ Kept'
  BY <1>1, <1>5, <1>8, Constants DEF Runs, Kept, Current
<1> QED BY <1>4, <1>14, <1>15 DEF SyncInv, Asked, Early

\* At first nobody waits.
LEMMA InitSync == Init => SyncInv
<1> SUFFICES ASSUME Init PROVE SyncInv
  OBVIOUS
<1>1. \A p \in Tasks : p \in Pids /\ in[p] \in {"ready", "none"} /\ fault[p].at = "user"
  BY Constants DEF Init, Idle
<1>2. TaskVal = 0 /\ DoneVal = 0
  BY DEF Init, TaskVal, DoneVal, Sems
<1>3. io.pc = "init" /\ current_running = 0 /\ removed = {}
  BY DEF Init
<1>4. \A p \in Users : in[p] = "none"
  BY Constants, UserOrResident DEF Init, Residents
<1>5. AtRest /\ ~ Pending
  BY <1>1, <1>2, <1>3 DEF AtRest, Quiet, Pending
<1> QED BY <1>1, <1>3, <1>4, <1>5 DEF SyncInv, Queued, Runs, Kept, Asked, Early, Current

\* Every step keeps the protocol.
LEMMA StepSync ==
  ASSUME AllInv, SyncInv, [Next]_vars
  PROVE  SyncInv'
<1>0. Inv /\ Reserved /\ FrameInv
  BY DEF AllInv
<1>1. CASE UNCHANGED vars \/ \E v \in Pages, x \in Values : Store(v, x)
  <2>1. UNCHANGED <<current_running, in, removed, panic, sem, io, io_task, fault, pm_slist, raced>>
    BY <1>1 DEF vars, schedVars, tableVars, Store
  <2> QED BY <1>0, <2>1, FaultSync
<1>2. CASE Evict
  <2>1. CASE /\ panic' = 1
             /\ UNCHANGED <<current_running, in, removed, sem, io, io_task, fault, pm_slist, raced>>
    BY <1>0, <2>1, FaultSync
  <2> QED BY <1>0, <1>2, <2>1, EvictCases, SwapSync
<1>3. CASE TakeFrame
  BY <1>0, <1>3, TakeCases, TakeNewSync, TakeOldSync
<1>4. CASE FsCall
  BY <1>4 DEF FsCall, SyncInv
<1>5. CASE IoStep
  BY <1>0, <1>5, IoInitSync, IoDownSync, IoServeSync, IoUpSync DEF IoStep
<1> QED BY <1>0, <1>1, <1>2, <1>3, <1>4, <1>5, TickSync, SpawnSync, LookSync, RejoinSync,
           PageInSync, TlbWriteSync DEF Next, Fault

-----------------------------------------------------------------------------
\* The invariant behind DataOK.

\* What a slot holds, or will when io_proc is done with it.
Writing(s) == Pending /\ Req.type = "WRITE" /\ Req.slot = s
SlotVal(s) ==
  IF Writing(s) THEN IF io.pc = "drain" THEN io.indexbuf ELSE mem[Req.frame] ELSE swap[s]

\* The contents of a page in memory, of a page that is away, and of one that
\* is on its way back.
InMemory == \A p \in Users, v \in Pages : IsPresent(p, v) => mem[Addr(p, v)] = expected[p][v]
OnCard == \A p \in Users, v \in Pages : Away(p, v) => SlotVal(Addr(p, v)) = expected[p][v]
OnWay ==
  \A p \in Users : fault[p].at = "in" =>
    /\ Pending /\ io.pc = "drain" => io.indexbuf = expected[p][fault[p].vpn]
    /\ ~ Pending => mem[fault[p].frame] = expected[p][fault[p].vpn]

DataInv == ~ raced => InMemory /\ OnCard /\ OnWay

\* DataOK follows: what the TLB maps is in memory.
LEMMA DataParts == Inv /\ DataInv => DataOK
<1> SUFFICES ASSUME Inv, DataInv, ~ raced, Current \in Users, NEW e \in tlb, e.pid = Current, e.valid = 1
             PROVE  mem[e.frame] = expected[Current][e.vpn]
  BY DEF DataOK, Consistent
<1>1. e.vpn \in Pages
  BY DEF Inv, Types, TlbTypes, Entry
<1>2. IsPresent(e.pid, e.vpn) /\ Addr(e.pid, e.vpn) = e.frame
  BY DEF Inv, TlbInv, Addr
<1> QED BY <1>1, <1>2 DEF DataInv, InMemory

\* Users are tasks.
LEMMA UserIs == \A p \in Users : p \in Tasks /\ p \in Pids
BY UserOrResident, Constants

\* Steps that move no page and change no contents.
LEMMA SameData ==
  ASSUME DataInv, raced => raced', SameMap, UNCHANGED <<mem, swap, expected>>,
         Pending' <=> Pending,
         Pending => Req' = Req /\ (io'.pc = "drain" <=> io.pc = "drain"),
         io.pc = "drain" => io'.indexbuf = io.indexbuf,
         \A p \in Tasks : fault'[p].at = "in" => fault'[p] = fault[p]
  PROVE  DataInv'
<1> SUFFICES ASSUME ~ raced' PROVE (InMemory /\ OnCard /\ OnWay)'
  BY DEF DataInv
<1>1. InMemory /\ OnCard /\ OnWay
  BY DEF DataInv
<1>2. \A p \in Users, v \in Pages : /\ IsPresent(p, v)' <=> IsPresent(p, v)
                                    /\ Away(p, v)' <=> Away(p, v)
                                    /\ IsMapped(p, v) => Addr(p, v)' = Addr(p, v)
  BY SameMoves, UserIs
<1>3. ASSUME NEW s PROVE SlotVal(s)' = SlotVal(s)
  BY DEF SlotVal, Writing
<1>4. InMemory'
  BY <1>1, <1>2 DEF InMemory, IsPresent
<1>5. OnCard'
  <2>1. ASSUME NEW p \in Users, NEW v \in Pages, Away(p, v)'
        PROVE  SlotVal(Addr(p, v))' = expected[p][v]
    <3>1. Away(p, v) /\ Addr(p, v)' = Addr(p, v)
      BY <1>2, <2>1 DEF Away
    <3>2. PICK s : s = Addr(p, v)
      OBVIOUS
    <3>3. SlotVal(s)' = expected[p][v]
      BY <1>1, <1>3, <3>1, <3>2 DEF OnCard
    <3> QED BY <3>1, <3>2, <3>3 DEF SlotVal, Writing
  <2> QED BY <2>1 DEF OnCard
<1>6. OnWay'
  BY <1>1, UserIs DEF OnWay
<1> QED BY <1>4, <1>5, <1>6

\* Steps that do not concern io_proc either.
LEMMA KeepData ==
  ASSUME DataInv, raced => raced', SameMap,
         UNCHANGED <<mem, swap, expected, io, io_task, sem>>,
         \A p \in Tasks : fault'[p].at = "in" => fault'[p] = fault[p]
  PROVE  DataInv'
<1>1. (Pending' <=> Pending) /\ Req' = Req
  BY DEF Pending, Req, TaskVal
<1> QED BY <1>1, SameData

\* The contents of a slot where nothing is written to it.
LEMMA SlotRest ==
  ASSUME ~ Pending \/ Req.type = "READ"
  PROVE  \A s : SlotVal(s) = swap[s]
BY DEF SlotVal, Writing

\* What a task should find in its pages after one of them has changed.
Now(c, v, x) == expected' = [expected EXCEPT ![c][v] = x]

\* No other page is concerned.
LEMMA SetExpected ==
  ASSUME Inv, NEW c \in Users, NEW v \in Pages, NEW x, Now(c, v, x)
  PROVE  /\ expected'[c][v] = x
         /\ \A p \in Users, u \in Pages : ~ (p = c /\ u = v) => expected'[p][u] = expected[p][u]
<1>1. expected \in [Users -> [Pages -> Values]]
  BY DEF Inv, Types, DataTypes
<1>2. \A p \in Users : expected'[p] = IF p = c THEN [expected[c] EXCEPT ![v] = x] ELSE expected[p]
  BY <1>1 DEF Now
<1>3. expected[c] \in [Pages -> Values]
  BY <1>1
<1> QED BY <1>2, <1>3

\* A task writes to its page: no other page is in that frame, nor is it one
\* that io_proc reads from or writes to.
LEMMA StoreData ==
  ASSUME AllInv, SyncInv, DataInv, NEW v \in Pages, NEW x \in Values, Store(v, x)
  PROVE  DataInv'
<1> SUFFICES ASSUME ~ raced' PROVE (InMemory /\ OnCard /\ OnWay)'
  BY DEF DataInv
<1>1. PICK c : c = Current
  OBVIOUS
<1>2. /\ UNCHANGED <<pid_list, sem, io_task, tableVars, swap, io, fault, raced>>
      /\ c \in Users /\ Now(c, v, x)
  BY <1>1 DEF Store, Now
<1>3. PICK e \in Hit(c, v) : mem' = [mem EXCEPT ![e.frame] = x]
  BY <1>1 DEF Store
<1>4. PICK g : g = e.frame
  OBVIOUS
<1>5. Inv /\ FrameInv
  BY DEF AllInv
<1>6. IsPresent(c, v) /\ Addr(c, v) = g
  BY <1>3, <1>4, <1>5 DEF Hit, Inv, TlbInv, Addr
<1>7. Alone /\ Framed /\ Awaited
  BY <1>2, <1>5 DEF FrameInv
<1>8. c \in Tasks /\ g \in RealFrames /\ g \in Frames /\ InUse(g)
  BY <1>2, <1>6, <1>7, UserIs, Constants DEF Framed
<1>9. mem'[g] = x /\ \A f \in Frames : f # g => mem'[f] = mem[f]
  BY <1>3, <1>4, <1>5, <1>8 DEF Inv, Types, DataTypes
<1>10. /\ expected'[c][v] = x
       /\ \A p \in Users, u \in Pages : ~ (p = c /\ u = v) => expected'[p][u] = expected[p][u]
  BY <1>2, <1>5, SetExpected
<1>11. SameMap
  BY <1>2, <1>5, SameTables DEF Inv, tableVars
<1>12. \A p \in Users, u \in Pages : /\ IsPresent(p, u)' <=> IsPresent(p, u)
                                     /\ Away(p, u)' <=> Away(p, u)
                                     /\ IsMapped(p, u) => Addr(p, u)' = Addr(p, u)
  BY <1>11, SameMoves, UserIs
<1>13. InMemory /\ OnCard /\ OnWay
  BY <1>2 DEF DataInv
<1>14. InMemory'
  <2>1. ASSUME NEW p \in Users, NEW u \in Pages, IsPresent(p, u), ~ (p = c /\ u = v)
        PROVE  mem'[Addr(p, u)] = expected'[p][u]
    <3>1. Addr(p, u) # g /\ Addr(p, u) \in Frames
      BY <1>6, <1>7, <1>8, <2>1, UserIs, Constants DEF Framed
    <3> QED BY <1>9, <1>10, <1>13, <2>1, <3>1 DEF InMemory
  <2>2. ASSUME NEW p \in Users, NEW u \in Pages, IsPresent(p, u)
        PROVE  mem'[Addr(p, u)] = expected'[p][u]
    BY <1>6, <1>9, <1>10, <2>1, <2>2
  <2>3. ASSUME NEW p \in Users, NEW u \in Pages, IsPresent(p, u)'
        PROVE  mem'[Addr(p, u)'] = expected'[p][u]
    BY <1>12, <2>2, <2>3 DEF IsPresent
  <2> QED BY <2>3 DEF InMemory
<1>15. (Pending' <=> Pending) /\ Req' = Req
  BY <1>2 DEF Pending, Req, TaskVal
<1>16. Pending /\ Req.type = "WRITE" => Req.frame \in Frames /\ Req.frame # g
  <2> SUFFICES ASSUME Pending, Req.type = "WRITE" PROVE Req.frame \in Frames /\ Req.frame # g
    OBVIOUS
  <2>1. Queued /\ Asked /\ Busy
    BY <1>2, RestNot DEF SyncInv
  <2>2. PICK p \in Tasks : fault[p].at \in {"out", "in"}
    BY <2>1 DEF Busy, Queued
  <2>3. Req.frame \in RealFrames /\ ~ InUse(Req.frame)
    BY <2>1, <2>2 DEF Asked
  <2> QED BY <1>8, <2>3, Constants
<1>17. ASSUME NEW s PROVE SlotVal(s)' = SlotVal(s)
  <2>1. Writing(s)' <=> Writing(s)
    BY <1>15 DEF Writing
  <2> QED BY <1>2, <1>9, <1>15, <1>16, <2>1 DEF SlotVal, Writing
<1>18. OnCard'
  <2>1. ASSUME NEW p \in Users, NEW u \in Pages, Away(p, u)'
        PROVE  SlotVal(Addr(p, u))' = expected'[p][u]
    <3>1. Away(p, u) /\ Addr(p, u)' = Addr(p, u)
      BY <1>12, <2>1 DEF Away
    <3>2. ~ (p = c /\ u = v)
      BY <1>6, <3>1 DEF Away, IsPresent
    <3>3. PICK s : s = Addr(p, u)
      OBVIOUS
    <3>4. SlotVal(s)' = expected'[p][u]
      BY <1>10, <1>13, <1>17, <3>1, <3>2, <3>3 DEF OnCard
    <3> QED BY <3>1, <3>3, <3>4 DEF SlotVal, Writing
  <2> QED BY <2>1 DEF OnCard
<1>19. OnWay'
  <2>1. ASSUME NEW p \in Users, fault[p].at = "in"
        PROVE  /\ fault[p].frame \in Frames /\ fault[p].frame # g
               /\ expected'[p][fault[p].vpn] = expected[p][fault[p].vpn]
    <3>1. fault[p].frame \in Frames /\ fault[p].frame # g
      BY <1>6, <1>7, <1>8, <2>1, UserIs, Constants DEF Awaited
    <3>2. Away(p, fault[p].vpn) /\ fault[p].vpn \in Pages
      BY <1>5, <2>1, UserIs DEF Inv, Faults, FaultOK, Types, FaultTypes, FaultType
    <3>3. ~ (p = c /\ fault[p].vpn = v)
      BY <1>6, <3>2 DEF Away, IsPresent
    <3> QED BY <1>10, <3>1, <3>2, <3>3
  <2> QED BY <1>2, <1>9, <1>13, <1>15, <2>1 DEF OnWay
<1> QED BY <1>14, <1>18, <1>19

\* A new page: a task finds what is in its frame.
LEMMA TakeNewData ==
  ASSUME AllInv, DataInv, NEW c, NEW v, NEW f, Take(c, v, f), TakeNew(c, v, f)
  PROVE  DataInv'
<1> SUFFICES ASSUME ~ raced' PROVE (InMemory /\ OnCard /\ OnWay)'
  BY DEF DataInv
<1>1. /\ c \in Tasks /\ v \in Pages /\ c = Current /\ f \in Frames /\ raced' = (raced \/ InTransit)
      /\ UNCHANGED <<mem, swap, io, sem, io_task>> /\ fault' = [fault EXCEPT ![c].at = "write"]
      /\ SetMap(c, v, PteOf(1, f))
      /\ c \in Users => Now(c, v, mem[f])
      /\ c \notin Users => expected' = expected
  BY DEF Take, TakeNew, Now
<1>2. Inv
  BY DEF AllInv
<1>3. ~ raced /\ \A p \in Tasks : p # c => ~ Moving(p)
  BY <1>1, <1>2, NoOther
<1>4. InMemory /\ OnCard
  BY <1>3 DEF DataInv
<1> DEFINE one == 1
<1>5. one \in 0 .. 1 /\ f \in Frames \cup Slots /\ SetMap(c, v, PteOf(one, f)) /\ one # 0
  BY <1>1
<1> HIDE DEF one
<1>6. Moved(c, v, one, f)
  BY <1>1, <1>5, SetMoves
<1>7. /\ c \in Users => expected'[c][v] = mem[f]
      /\ \A p \in Users, u \in Pages : ~ (p = c /\ u = v) => expected'[p][u] = expected[p][u]
  <2>1. CASE c \in Users
    <3>1. PICK x : x = mem[f]
      OBVIOUS
    <3> QED BY <1>1, <1>2, <2>1, <3>1, SetExpected
  <2> QED BY <1>1, <2>1
<1>8. (Pending' <=> Pending) /\ Req' = Req
  BY <1>1 DEF Pending, Req, TaskVal
<1>9. ASSUME NEW s PROVE SlotVal(s)' = SlotVal(s)
  BY <1>1, <1>8 DEF SlotVal, Writing
<1>10. InMemory'
  <2>1. ASSUME NEW p \in Users, NEW u \in Pages, IsPresent(p, u)'
        PROVE  mem'[Addr(p, u)'] = expected'[p][u]
    <3>1. p \in Pids /\ IsMapped(p, u)'
      BY <2>1, UserIs DEF IsPresent
    <3>2. CASE p = c /\ u = v
      BY <1>1, <1>6, <1>7, <2>1, <3>1, <3>2 DEF Moved
    <3>3. CASE ~ (p = c /\ u = v)
      BY <1>1, <1>4, <1>6, <1>7, <2>1, <3>1, <3>3 DEF Moved, InMemory
    <3> QED BY <3>2, <3>3
  <2> QED BY <2>1 DEF InMemory
<1>11. OnCard'
  <2>1. ASSUME NEW p \in Users, NEW u \in Pages, Away(p, u)'
        PROVE  SlotVal(Addr(p, u))' = expected'[p][u]
    <3>1. p \in Pids /\ IsMapped(p, u)' /\ ~ (p = c /\ u = v)
      BY <1>5, <1>6, <2>1, UserIs DEF Away, Moved
    <3>2. Away(p, u) /\ Addr(p, u)' = Addr(p, u)
      BY <1>6, <2>1, <3>1 DEF Moved
    <3>3. PICK s : s = Addr(p, u)
      OBVIOUS
    <3>4. SlotVal(s)' = expected'[p][u]
      BY <1>4, <1>7, <1>9, <3>1, <3>2, <3>3 DEF OnCard
    <3> QED BY <3>2, <3>3, <3>4 DEF SlotVal, Writing
  <2> QED BY <2>1 DEF OnCard
<1>12. OnWay'
  <2>1. fault'[c].at = "write" /\ \A p \in Tasks : p # c => fault'[p] = fault[p]
    BY <1>1, <1>2, Constants DEF Inv, Types, FaultTypes, FaultType
  <2> QED BY <1>3, <2>1, UserIs DEF OnWay, Moving
<1> QED BY <1>10, <1>11, <1>12

\* The page that has been read is in the frame.
LEMMA PageInData ==
  ASSUME AllInv, SyncInv, DataInv, PageIn
  PROVE  DataInv'
<1> SUFFICES ASSUME ~ raced' PROVE (InMemory /\ OnCard /\ OnWay)'
  BY DEF DataInv
<1>1. PICK c, v, f : c = Current /\ v = Vpn /\ f = fault[c].frame
  OBVIOUS
<1>2. /\ UNCHANGED <<mem, swap, expected, io, sem, io_task, raced>> /\ panic = 0
      /\ fault' = [fault EXCEPT ![c].at = "write"]
  BY <1>1 DEF PageIn, dataVars, At
<1>3. Inv /\ Reserved /\ FrameInv
  BY DEF AllInv
<1>4. /\ c \in Tasks /\ v \in Pages /\ f \in Frames /\ fault[c].at = "in" /\ v = fault[c].vpn
      /\ SetMap(c, v, PteOf(1, f))
  BY <1>1, <1>3, PageInMap
<1>5. c \in Users
  BY <1>3, <1>4, UserOrResident DEF Reserved, Resident
<1>6. \A p \in Tasks : p # c => ~ Moving(p)
  BY <1>2, <1>3, <1>4 DEF FrameInv, Alone, Moving
<1>7. AtRest
  BY <1>1, <1>2, <1>4, <1>6, Calm DEF SyncInv
<1>8. ~ Pending /\ ~ Pending'
  <2>1. ~ Pending
    BY <1>7, RestNot
  <2> QED BY <1>2, <2>1 DEF Pending, TaskVal
<1>9. InMemory /\ OnCard /\ mem[f] = expected[c][v]
  BY <1>1, <1>2, <1>4, <1>5, <1>8 DEF DataInv, OnWay
<1> DEFINE one == 1
<1>10. one \in 0 .. 1 /\ f \in Frames \cup Slots /\ SetMap(c, v, PteOf(one, f)) /\ one # 0
  BY <1>4
<1> HIDE DEF one
<1>11. Moved(c, v, one, f)
  BY <1>4, <1>10, SetMoves
<1>12. InMemory'
  <2>1. ASSUME NEW p \in Users, NEW u \in Pages, IsPresent(p, u)'
        PROVE  mem[Addr(p, u)'] = expected[p][u]
    <3>1. p \in Pids /\ IsMapped(p, u)'
      BY <2>1, UserIs DEF IsPresent
    <3>2. CASE p = c /\ u = v
      BY <1>9, <1>11, <2>1, <3>1, <3>2 DEF Moved
    <3>3. CASE ~ (p = c /\ u = v)
      BY <1>9, <1>11, <2>1, <3>1, <3>3 DEF Moved, InMemory
    <3> QED BY <3>2, <3>3
  <2> QED BY <1>2, <2>1 DEF InMemory
<1>13. \A s : SlotVal(s) = swap[s] /\ SlotVal(s)' = swap[s]
  BY <1>2, <1>8 DEF SlotVal, Writing
<1>14. OnCard'
  <2>1. ASSUME NEW p \in Users, NEW u \in Pages, Away(p, u)'
        PROVE  swap[Addr(p, u)'] = expected[p][u]
    <3>1. p \in Pids /\ IsMapped(p, u)' /\ ~ (p = c /\ u = v)
      BY <1>10, <1>11, <2>1, UserIs DEF Away, Moved
    <3>2. Away(p, u) /\ Addr(p, u)' = Addr(p, u)
      BY <1>11, <2>1, <3>1 DEF Moved
    <3> QED BY <1>9, <1>13, <3>2 DEF OnCard
  <2>2. \A p, u : SlotVal(Addr(p, u))' = swap[Addr(p, u)']
    BY <1>2, <1>8 DEF SlotVal, Writing
  <2> QED BY <1>2, <2>1, <2>2 DEF OnCard
<1>15. OnWay'
  <2>1. fault'[c].at = "write" /\ \A p \in Tasks : p # c => fault'[p] = fault[p]
    BY <1>2, <1>3, <1>4, Constants DEF Inv, Types, FaultTypes, FaultType
  <2> QED BY <1>6, <2>1, UserIs DEF OnWay, Moving
<1> QED BY <1>12, <1>14, <1>15

\* swap_in asks for its page: the request changes the contents of no slot.
LEMMA TakeOldData ==
  ASSUME AllInv, SyncInv, DataInv, NEW c, NEW v, NEW f, NEW s, NEW t, Take(c, v, f),
         TakeOld(c, v, f, s, t)
  PROVE  DataInv'
<1> SUFFICES ASSUME ~ raced' PROVE (InMemory /\ OnCard /\ OnWay)'
  BY DEF DataInv
<1>1. SameMap /\ UNCHANGED <<mem, swap, expected, io>> /\ (raced => raced')
  BY DEF Take, TakeOld
<1>2. AtRest /\ Posted(c, "READ", f, s)
  BY TakeOldSync DEF AllInv
<1>3. ~ Pending /\ Pending' /\ Req'.type = "READ" /\ io.pc # "drain"
  BY <1>2, RestNot DEF Posted, AtRest, Quiet
<1>4. InMemory /\ OnCard
  BY <1>1 DEF DataInv
<1>5. \A p \in Users, u \in Pages : /\ IsPresent(p, u)' <=> IsPresent(p, u)
                                    /\ Away(p, u)' <=> Away(p, u)
                                    /\ IsMapped(p, u) => Addr(p, u)' = Addr(p, u)
  BY <1>1, SameMoves, UserIs
<1>6. InMemory'
  BY <1>1, <1>4, <1>5 DEF InMemory, IsPresent
<1>7. OnCard'
  <2>1. \A x : SlotVal(x) = swap[x]
    BY <1>3, SlotRest
  <2>2. \A p, u : SlotVal(Addr(p, u))' = swap[Addr(p, u)']
    BY <1>1, <1>3 DEF SlotVal, Writing
  <2> QED BY <1>1, <1>4, <1>5, <2>1, <2>2 DEF OnCard, Away
<1>8. OnWay'
  BY <1>1, <1>3 DEF OnWay
<1> QED BY <1>6, <1>7, <1>8

\* swap_out asks for the page of its victim to be written: from then on the
\* slot counts, although nothing is on the card yet and the frame is free.
LEMMA SwapData ==
  ASSUME SwapFits, AllInv, SyncInv, DataInv,
         NEW c, NEW v, NEW f, NEW q, NEW w, NEW s, NEW t, Swap(c, v, f, q, w, s, t)
  PROVE  DataInv'
<1> SUFFICES ASSUME ~ raced' PROVE (InMemory /\ OnCard /\ OnWay)'
  BY DEF DataInv
<1>1. /\ q \in Tasks /\ w \in Pages /\ s \in Slots /\ SetMap(q, w, PteOf(0, s))
      /\ UNCHANGED <<mem, swap, expected, io>>
  BY DEF Swap, dataVars
<1>2. Inv /\ Reserved /\ FrameInv /\ TouchInv /\ SlotInv
  BY DEF AllInv
<1>3. ~ raced /\ IsPresent(q, w) /\ Addr(q, w) = f
  BY <1>2, SwapHolds
<1>4. ~ SlotUsed(s)
  BY <1>2, SwapSlots
<1>5. AtRest /\ Posted(c, "WRITE", f, s)
  BY <1>2, SwapSync
<1>6. /\ ~ Pending /\ Pending' /\ Req'.type = "WRITE" /\ Req'.slot = s /\ Req'.frame = f
      /\ io.pc # "drain"
  BY <1>5, RestNot DEF Posted, AtRest, Quiet
<1>7. InMemory /\ OnCard /\ Stored
  BY <1>2, <1>3 DEF DataInv, SlotInv
<1> DEFINE zero == 0
<1>8. zero \in 0 .. 1 /\ s \in Frames \cup Slots /\ SetMap(q, w, PteOf(zero, s)) /\ zero # 1
  BY <1>1
<1> HIDE DEF zero
<1>9. Moved(q, w, zero, s)
  BY <1>1, <1>8, SetMoves
<1>10. InMemory'
  <2>1. ASSUME NEW p \in Users, NEW u \in Pages, IsPresent(p, u)'
        PROVE  mem[Addr(p, u)'] = expected[p][u]
    <3>1. p \in Pids /\ IsMapped(p, u)' /\ ~ (p = q /\ u = w)
      BY <1>8, <1>9, <2>1, UserIs DEF IsPresent, Moved
    <3> QED BY <1>7, <1>9, <2>1, <3>1 DEF Moved, InMemory
  <2> QED BY <1>1, <2>1 DEF InMemory
<1>11. OnCard'
  <2>1. ASSUME NEW p \in Users, NEW u \in Pages, Away(p, u)'
        PROVE  SlotVal(Addr(p, u))' = expected[p][u]
    <3>1. p \in Pids /\ p \in Tasks /\ IsMapped(p, u)'
      BY <2>1, UserIs DEF Away
    <3>2. PICK x : x = Addr(p, u)'
      OBVIOUS
    <3>3. SlotVal(Addr(p, u))' = IF x = s THEN mem[f] ELSE swap[x]
      BY <1>1, <1>6, <3>2 DEF SlotVal, Writing
    <3>4. CASE p = q /\ u = w
      <4>1. x = s
        BY <1>9, <3>1, <3>2, <3>4 DEF Moved
      <4> QED BY <1>3, <1>7, <3>3, <3>4, <4>1 DEF InMemory
    <3>5. CASE ~ (p = q /\ u = w)
      <4>1. Away(p, u) /\ Addr(p, u) = x
        BY <1>9, <2>1, <3>1, <3>2, <3>5 DEF Moved
      <4>2. x # s
        BY <1>4, <1>7, <3>1, <4>1 DEF Stored
      <4>3. SlotVal(x) = swap[x]
        BY <1>6, SlotRest
      <4> QED BY <1>7, <3>3, <4>1, <4>2, <4>3 DEF OnCard
    <3> QED BY <3>4, <3>5
  <2> QED BY <1>1, <2>1 DEF OnCard
<1>12. OnWay'
  BY <1>1, <1>6 DEF OnWay
<1> QED BY <1>10, <1>11, <1>12

\* io_proc waits for a request, or reads it, or wakes who waits: the request
\* that is pending stays what it is.
LEMMA IoQuietData ==
  ASSUME Inv, SyncInv, DataInv, IoInit \/ IoDown \/ IoFetch \/ IoUp
  PROVE  DataInv'
<1> SUFFICES ASSUME ~ raced' PROVE DataInv'
  BY DEF DataInv
<1>1. /\ UNCHANGED <<pid_list, tableVars, mem, swap, expected, io_task, fault, raced>>
      /\ Executes(IoProc)
  BY DEF IoInit, IoDown, IoFetch, IoUp, dataVars
<1>2. SameMap
  BY <1>1, SameTables DEF Inv, tableVars
<1>3. in[IoProc] = "ready" /\ (AtRest \/ Busy)
  BY <1>1, IoRuns
<1>4. io \in IoType /\ sem \in [Sems -> Int] /\ "io_tasks" \in Sems /\ "io_done" \in Sems
  BY DEF Inv, Types, IoTypes, Sems
<1>5. CASE IoInit
  <2>1. io.pc = "init" /\ io'.pc = "down" /\ TaskVal' = 0
    BY <1>4, <1>5 DEF IoInit, IoType, TaskVal
  <2> QED BY <1>1, <1>2, <2>1, SameData DEF Pending
<1>6. CASE IoDown
  <2>1. io.pc = "down" /\ io'.pc = "fetch" /\ TaskVal' = TaskVal - 1 /\ TaskVal \in Int
    BY <1>4, <1>6 DEF IoDown, IoType, TaskVal
  <2>2. (Pending' <=> Pending) /\ Req' = Req
    BY <1>1, <2>1 DEF Pending, Req
  <2> QED BY <1>1, <1>2, <2>1, <2>2, SameData
<1>7. CASE IoFetch
  <2>1. io.pc = "fetch" /\ io'.pc = "fill" /\ io'.req = io_task
    BY <1>4, <1>7 DEF IoFetch, IoType
  <2>2. Pending /\ Pending' /\ Req' = Req
    BY <1>3, <2>1 DEF AtRest, Quiet, Busy, Pending, Req
  <2> QED BY <1>1, <1>2, <2>1, <2>2, SameData
<1>8. CASE IoUp
  <2>1. io.pc = "up" /\ io'.pc = "down" /\ TaskVal' = TaskVal
    BY <1>4, <1>8 DEF IoUp, IoType, TaskVal
  <2>2. TaskVal = 0
    BY <1>3, <2>1 DEF AtRest, Quiet, Busy, Pending
  <2> QED BY <1>1, <1>2, <2>1, <2>2, SameData DEF Pending
<1> QED BY <1>5, <1>6, <1>7, <1>8

\* The first half of a copy: indexbuf gets the page that is to be written, or
\* what is in the slot of the fault that waits.
LEMMA IoFillData ==
  ASSUME AllInv, SyncInv, DataInv, IoFill
  PROVE  DataInv'
<1> SUFFICES ASSUME ~ raced' PROVE (InMemory /\ OnCard /\ OnWay)'
  BY DEF DataInv
<1>1. /\ UNCHANGED <<pid_list, tableVars, mem, swap, expected, io_task, sem, fault, raced>>
      /\ io.pc = "fill"
  BY DEF IoFill, dataVars
<1>2. Inv /\ SlotInv
  BY DEF AllInv
<1>3. \/ Req.type = "WRITE" /\ io' = [io EXCEPT !.pc = "drain", !.indexbuf = mem[Req.frame]]
      \/ Req.type = "READ" /\ io' = [io EXCEPT !.pc = "drain", !.indexbuf = swap[Req.slot]]
  BY <1>1 DEF IoFill, Req
<1>4. /\ io'.pc = "drain" /\ io'.req = io.req
      /\ \/ Req.type = "WRITE" /\ io'.indexbuf = mem[Req.frame]
         \/ Req.type = "READ" /\ io'.indexbuf = swap[Req.slot]
  BY <1>2, <1>3 DEF Inv, Types, IoTypes, IoType
<1>5. Pending /\ Pending' /\ Req' = Req
  BY <1>1, <1>4 DEF Pending, Req
<1>6. SameMap
  BY <1>1, <1>2, SameTables DEF Inv, tableVars
<1>7. \A p \in Users, v \in Pages : /\ IsPresent(p, v)' <=> IsPresent(p, v)
                                    /\ Away(p, v)' <=> Away(p, v)
                                    /\ IsMapped(p, v) => Addr(p, v)' = Addr(p, v)
  BY <1>6, SameMoves, UserIs
<1>8. InMemory /\ OnCard /\ Asked /\ Known
  BY <1>1, <1>2 DEF DataInv, SyncInv, SlotInv
<1>9. InMemory'
  BY <1>1, <1>7, <1>8 DEF InMemory, IsPresent
<1>10. ASSUME NEW s PROVE SlotVal(s)' = SlotVal(s)
  <2>1. Writing(s)' <=> Writing(s)
    BY <1>5 DEF Writing
  <2> QED BY <1>1, <1>4, <1>5, <2>1 DEF SlotVal, Writing
<1>11. OnCard'
  <2>1. ASSUME NEW p \in Users, NEW v \in Pages, Away(p, v)'
        PROVE  SlotVal(Addr(p, v))' = expected[p][v]
    <3>1. Away(p, v) /\ Addr(p, v)' = Addr(p, v)
      BY <1>7, <2>1 DEF Away
    <3>2. PICK s : s = Addr(p, v)
      OBVIOUS
    <3>3. SlotVal(s)' = expected[p][v]
      BY <1>8, <1>10, <3>1, <3>2 DEF OnCard
    <3> QED BY <3>1, <3>2, <3>3 DEF SlotVal, Writing
  <2> QED BY <1>1, <2>1 DEF OnCard
<1>12. OnWay'
  <2>1. ASSUME NEW p \in Users, fault[p].at = "in"
        PROVE  io'.indexbuf = expected[p][fault[p].vpn]
    <3>1. PICK v : v = fault[p].vpn
      OBVIOUS
    <3>2. p \in Tasks /\ v \in Pages /\ Away(p, v)
      BY <1>2, <2>1, <3>1, UserIs DEF Inv, Faults, FaultOK, Types, FaultTypes, FaultType
    <3>3. Req.type = "READ" /\ Req.slot = fault[p].slot
      BY <1>5, <1>8, <2>1, <3>2 DEF Asked
    <3>4. Req.slot = Addr(p, v)
      BY <1>8, <2>1, <3>1, <3>2, <3>3 DEF Known, Moving, Away
    <3>5. SlotVal(Req.slot) = swap[Req.slot]
      BY <3>3, SlotRest
    <3>6. SlotVal(Req.slot) = expected[p][v]
      BY <1>8, <3>2, <3>4 DEF OnCard
    <3> QED BY <1>4, <3>1, <3>3, <3>5, <3>6
  <2> QED BY <1>1, <1>5, <2>1 DEF OnWay
<1> QED BY <1>9, <1>11, <1>12

\* The second half of a copy: the page is on the card, or in the frame that
\* the fault has taken, in which no other page is.
LEMMA IoDrainData ==
  ASSUME AllInv, SyncInv, DataInv, IoDrain
  PROVE  DataInv'
<1> SUFFICES ASSUME ~ raced' PROVE (InMemory /\ OnCard /\ OnWay)'
  BY DEF DataInv
<1>1. PICK r, b : r = io.req /\ b = io.indexbuf
  OBVIOUS
<1>2. /\ UNCHANGED <<pid_list, tableVars, expected, io_task, sem, fault, raced>>
      /\ io.pc = "drain" /\ io'.pc = "up"
      /\ \/ r.type = "WRITE" /\ swap' = [swap EXCEPT ![r.slot] = b] /\ mem' = mem
         \/ r.type = "READ" /\ mem' = [mem EXCEPT ![r.frame] = b] /\ swap' = swap
  BY <1>1 DEF IoDrain
<1>3. Inv /\ FrameInv
  BY DEF AllInv
<1>4. r.frame \in Frames /\ r.slot \in Slots /\ Req = r
  BY <1>1, <1>2, <1>3 DEF Inv, Types, IoTypes, IoType, RequestType, Req
<1>5. Pending /\ ~ Pending'
  BY <1>2 DEF Pending
<1>6. SameMap
  BY <1>2, <1>3, SameTables DEF Inv, tableVars
<1>7. \A p \in Users, v \in Pages : /\ IsPresent(p, v)' <=> IsPresent(p, v)
                                    /\ Away(p, v)' <=> Away(p, v)
                                    /\ IsMapped(p, v) => Addr(p, v)' = Addr(p, v)
  BY <1>6, SameMoves, UserIs
<1>8. InMemory /\ OnCard /\ OnWay /\ Queued /\ Asked /\ Busy /\ Awaited
  BY <1>2, <1>3, <1>5, RestNot DEF DataInv, SyncInv, FrameInv
<1>9. PICK z \in Tasks : fault[z].at \in {"out", "in"}
  BY <1>8 DEF Busy, Queued
<1>10. \A p \in Users, v \in Pages : Away(p, v) => Addr(p, v) \in Slots
  BY <1>3, UserIs DEF Inv, Placed, Addr
<1>11. ASSUME NEW s \in Slots PROVE swap'[s] = SlotVal(s)
  <2>1. CASE r.type = "WRITE" /\ s = r.slot
    BY <1>1, <1>2, <1>3, <1>4, <1>5, <2>1 DEF Inv, Types, DataTypes, SlotVal, Writing
  <2>2. CASE ~ (r.type = "WRITE" /\ s = r.slot)
    <3>1. SlotVal(s) = swap[s]
      BY <1>4, <2>2 DEF SlotVal, Writing
    <3> QED BY <1>2, <1>3, <1>4, <2>2, <3>1 DEF Inv, Types, DataTypes
  <2> QED BY <2>1, <2>2
<1>12. OnCard'
  <2>1. ASSUME NEW p \in Users, NEW v \in Pages, Away(p, v)'
        PROVE  swap'[Addr(p, v)'] = expected[p][v]
    <3>1. Away(p, v) /\ Addr(p, v)' = Addr(p, v)
      BY <1>7, <2>1 DEF Away
    <3>2. PICK s \in Slots : s = Addr(p, v)
      BY <1>10, <3>1
    <3> QED BY <1>8, <1>11, <3>1, <3>2 DEF OnCard
  <2>2. \A p, v : SlotVal(Addr(p, v))' = swap'[Addr(p, v)']
    BY <1>5 DEF SlotVal, Writing
  <2> QED BY <1>2, <2>1, <2>2 DEF OnCard
<1>13. CASE r.type = "WRITE"
  <2>1. mem' = mem /\ \A p \in Users : fault'[p].at # "in"
    BY <1>2, <1>4, <1>5, <1>8, <1>13, UserIs DEF Asked
  <2> QED BY <1>2, <1>7, <1>8, <1>12, <2>1 DEF InMemory, OnWay, IsPresent
<1>14. CASE r.type = "READ"
  <2>1. mem'[r.frame] = b /\ \A g \in Frames : g # r.frame => mem'[g] = mem[g]
    BY <1>2, <1>3, <1>4, <1>14 DEF Inv, Types, DataTypes
  <2>2. fault[z].at = "in" /\ fault[z].frame = r.frame
    BY <1>4, <1>5, <1>8, <1>9, <1>14 DEF Asked
  <2>3. \A p \in Users, v \in Pages : IsPresent(p, v) => Addr(p, v) \in Frames /\ Addr(p, v) # r.frame
    BY <1>3, <1>8, <2>2, UserIs DEF Inv, Placed, Addr, Awaited
  <2>4. InMemory'
    BY <1>2, <1>7, <1>8, <2>1, <2>3 DEF InMemory, IsPresent
  <2>5. \A p \in Users : fault[p].at = "in" => fault[p].frame = r.frame /\ b = expected[p][fault[p].vpn]
    BY <1>1, <1>2, <1>4, <1>5, <1>8, UserIs DEF Asked, OnWay
  <2>6. OnWay'
    BY <1>2, <1>5, <2>1, <2>5 DEF OnWay
  <2> QED BY <1>12, <2>4, <2>6
<1> QED BY <1>2, <1>13, <1>14

\* At first no page has contents.
LEMMA InitData == Init => DataInv
<1> SUFFICES ASSUME Init PROVE DataInv
  OBVIOUS
<1>1. \A p \in Users, v \in Pages : ~ IsMapped(p, v)
  BY PagesPairs, UserIs DEF Init, EmptyPde, Walked, IsMapped
<1>2. \A p \in Users : fault[p].at = "user"
  BY UserIs DEF Init, Idle
<1> QED BY <1>1, <1>2 DEF DataInv, InMemory, OnCard, OnWay, IsPresent, Away

\* Every step keeps the contents.
LEMMA StepData ==
  ASSUME SwapFits, AllInv, SyncInv, DataInv, [Next]_vars
  PROVE  DataInv'
<1>0. Inv
  BY DEF AllInv
<1>1. CASE UNCHANGED vars \/ Tick
  <2>1. UNCHANGED <<tableVars, pid_list, mem, swap, expected, io, io_task, sem, fault, raced>>
    BY <1>1 DEF vars, dataVars, Tick
  <2>2. SameMap
    BY <1>0, <2>1, SameTables DEF Inv, tableVars
  <2> QED BY <2>1, <2>2, KeepData
<1>2. CASE Spawn
  <2>1. UNCHANGED <<pt_pool_slist, page_table_pool, mem, swap, expected, io, io_task, sem, fault, raced>>
    BY <1>2 DEF Spawn, dataVars
  <2>2. PICK r : r = slist_alloc_ret(pid_list)
    OBVIOUS
  <2>3. /\ r \in Tasks /\ pid_list[r].valid = 0
        /\ \A p \in Tasks : pid_list[p].valid = 1 => pid_list'[p].valid = 1
    BY <1>0, <1>2, <2>2, SpawnList
  <2>4. page_dir' = [page_dir EXCEPT ![r] = page_dir_init(@)]
    BY <1>2, <2>2 DEF Spawn
  <2>5. SameMap
    BY <1>0, <2>1, <2>3, <2>4, NewDir DEF Inv, Types
  <2> QED BY <2>1, <2>5, KeepData
<1>3. ASSUME NEW v \in Pages, TlbException(v) PROVE DataInv'
  <2>1. PICK p, r : Look(p, v, r)
    BY <1>0, <1>3, LookCases
  <2>2. /\ p \in Pids /\ r.at = "walk" /\ r \in FaultType /\ fault' = [fault EXCEPT ![p] = r]
        /\ SameMap /\ UNCHANGED <<mem, swap, expected, io, io_task, sem, raced>>
    BY <2>1 DEF Look, dataVars
  <2>3. fault'[p] = r /\ \A q \in Tasks : q # p => fault'[q] = fault[q]
    BY <1>0, <2>2, Constants DEF Inv, Types, FaultTypes
  <2> QED BY <2>2, <2>3, KeepData
<1>4. CASE Rejoin \/ TlbWrite
  <2>1. PICK c : c = Current
    OBVIOUS
  <2>2. /\ UNCHANGED <<pid_list, tableVars, mem, swap, expected, io, io_task, sem, raced>>
        /\ fault' = [fault EXCEPT ![c].at = "frame"] \/ fault' = [fault EXCEPT ![c] = Idle]
    BY <1>4, <2>1 DEF Rejoin, TlbWrite, dataVars
  <2>3. SameMap
    BY <1>0, <2>2, SameTables DEF Inv, tableVars
  <2>4. \A p \in Tasks : fault'[p].at = "in" => fault'[p] = fault[p]
    BY <1>0, <2>2, Constants DEF Inv, Types, FaultTypes, FaultType, Idle
  <2> QED BY <2>2, <2>3, <2>4, KeepData
<1>5. CASE TakeFrame
  BY <1>0, <1>5, TakeCases, TakeNewData, TakeOldData
<1>6. CASE Evict
  <2>1. CASE UNCHANGED <<sem, io_task, swap_area_slist, pm_slist, page_table_pool, fault, raced, pid_list,
                         pm_owner, pt_pool_slist, page_dir, dataVars, io>>
    <3>1. SameMap
      BY <1>0, <2>1, SameTables DEF Inv
    <3> QED BY <2>1, <3>1, KeepData DEF dataVars
  <2> QED BY <1>0, <1>6, <2>1, EvictCases, SwapData
<1>7. CASE FsCall
  BY <1>7 DEF FsCall, DataInv
<1>8. CASE IoStep
  BY <1>0, <1>8, IoQuietData, IoFillData, IoDrainData DEF IoStep
<1> QED BY <1>1, <1>2, <1>3, <1>4, <1>5, <1>6, <1>7, <1>8, PageInData, StoreData DEF Next, Fault

\* If the swap area has room for the pages that tasks touch, memory is
\* consistent as long as no two faults that need a frame overlap and no call of
\* the file system comes between the two halves of a copy: swap_out gives the
\* frame away before its page has been written, and swap_in reads the slot
\* number before it blocks, and yet a task finds what it has written.
THEOREM MemoryData == SwapFits /\ Spec => []DataOK
<1> SUFFICES ASSUME SwapFits PROVE Spec => []DataOK
  OBVIOUS
<1> DEFINE I == AllInv /\ SyncInv /\ DataInv
<1>1. Init => I
  BY InitAll, InitSync, InitData
<1>2. I /\ [Next]_vars => I'
  BY StepAll, StepSync, StepData
<1>3. I => DataOK
  BY DataParts DEF AllInv
<1> QED BY <1>1, <1>2, <1>3, PTL DEF Spec

=============================================================================
