------------------------------- MODULE Memory -------------------------------
(***************************************************************************)
(* Virtual memory: the TLB exceptions (kernel/exception/tlb.c), frames,    *)
(* page tables and swapping (kernel/mm/memory.c) and io_proc, the task     *)
(* that copies pages to and from the swap area.                            *)
(*                                                                         *)
(* A page is the 8 KB unit a pte manages, and has one value as contents.   *)
(* TLB_exception_helper is a chain of steps: while the running task is in  *)
(* the middle of it (`fault`) nothing else can happen, except where the    *)
(* task blocks on io_done and another one runs.                            *)
(*                                                                         *)
(* Scheduling is abstracted from SchedOps: all tasks have priority 1, and  *)
(* one that has been woken has scheduler_priority 2 until it is selected   *)
(* (`boosted`); among tasks of the same priority, which wait_time decides  *)
(* between, any may be selected or woken.                                  *)
(***************************************************************************)
EXTENDS SlistOps, FiniteSets

CONSTANTS
  MAX_TASK_NUM,
  PM_SLIST_SIZE,       \* one more than there are frames
  PT_SLIST_SIZE,       \* PAGE_TABLE_POOL_SLIST_SIZE
  SWAP_AREA_SIZE,      \* one more than there are slots in the swap area
  TLB_ENTRY_NUMBER,
  PDE_NUMBER, PTE_NUMBER,
  Values,              \* contents of a page
  Touches(_),          \* the pages a task touches
  FsCallers,           \* the tasks that call the file system
  Foreign              \* what such a call leaves in the buffer of the card

ASSUME MemoryAssumption ==
  /\ MAX_TASK_NUM \in Nat /\ MAX_TASK_NUM > 2
  /\ PM_SLIST_SIZE \in Nat /\ PM_SLIST_SIZE > 3
  /\ PT_SLIST_SIZE \in Nat /\ PT_SLIST_SIZE > 1 /\ SWAP_AREA_SIZE \in Nat \ {0}
  /\ TLB_ENTRY_NUMBER \in Nat \ {0}
  /\ PDE_NUMBER \in Nat \ {0} /\ PTE_NUMBER \in Nat \ {0}
  /\ Values # {} /\ Foreign \in Values /\ FsCallers \subseteq 1 .. MAX_TASK_NUM - 1

Pids == 0 .. MAX_TASK_NUM - 1
Tasks == 1 .. MAX_TASK_NUM - 1
Shell == 1
IoProc == 2
Users == Tasks \ {Shell, IoProc}

\* An address is the page directory number and the page table number.
Pages == (0 .. PDE_NUMBER - 1) \X (0 .. PTE_NUMBER - 1)
Stack == <<PDE_NUMBER - 1, PTE_NUMBER - 1>>

\* pm_alloc() returns -1 when there is no frame, and the code may go on with
\* it: "frame -1" is the memory just below PM_BASE, which is the kernel's.
\* Likewise slot 0 is the sectors just below SWAP_AREA_BASE.
Frames == -1 .. PM_SLIST_SIZE - 2
Slots == 0 .. SWAP_AREA_SIZE - 1
Pool == 0 .. PT_SLIST_SIZE - 2

Sems == {"io_tasks", "io_done"}

VARIABLES
  current_running,     \* its pid
  in,                  \* pcb field `queue`: "ready", a semaphore's, or none
  boosted,             \* the tasks with scheduler_priority 2
  removed,             \* the tasks swap_out has taken from their queues
  panic,               \* 1 once the kernel has stopped
  pid_list,
  sem,                 \* the values of the semaphores
  pm_slist, pm_owner,  \* free frames; pm_pid and pm_vpn
  pt_pool_slist, page_dir, page_table_pool,
  swap_area_slist,
  tlb,                 \* a set of entries
  mem, swap,           \* contents of the frames and of the slots
  io_task,             \* the request to io_proc
  io,                  \* where io_proc is, the request it has read, and indexbuf
  fault,               \* where each task is in TLB_exception_helper
  expected,            \* history: what a task should find in its pages
  raced                \* history: two faults needed frames at the same time, or
                       \* a call of the file system changed indexbuf

schedVars == <<current_running, in, boosted, removed, panic>>
tableVars == <<pm_slist, pm_owner, pt_pool_slist, page_dir, page_table_pool, swap_area_slist>>
dataVars == <<mem, swap, expected>>
vars == <<schedVars, pid_list, sem, io_task, tableVars, tlb, dataVars, io, fault, raced>>

Current == current_running

Idle == [at |-> "user", vpn |-> Stack, refill |-> 0, victim |-> 0, frame |-> 0, slot |-> 0]

NoRequest == [type |-> "READ", frame |-> 0, slot |-> 0]

EmptyPde == [valid |-> 0, pool_num |-> 0]
EmptyPte == [valid |-> 0, present |-> 0, addr |-> 0]

\* What memory and the swap area hold at first.
BootValue == CHOOSE x \in Values : TRUE

page_dir_init(pd) == [d \in DOMAIN pd |-> [pd[d] EXCEPT !.valid = 0]]
page_table_init(pt) == [t \in DOMAIN pt |-> [pt[t] EXCEPT !.valid = 0]]

\* What the next call of each of these returns; the lists change by slist_alloc.
\* A failure is -1 for the first two, and slot 0 for the last: an address below
\* the swap area.
pt_pool_alloc == slist_alloc_ret(pt_pool_slist) - 1
pm_alloc == slist_alloc_ret(pm_slist) - 1
swap_area_alloc == slist_alloc_ret(swap_area_slist)

\* The lists after these calls.
pm_free(f) == slist_free(pm_slist, f + 1, PM_SLIST_SIZE)

\* Faulty variant of swap_area_free: nothing is freed.
swap_area_free_none(s) == swap_area_slist

swap_area_free(s) == slist_free(swap_area_slist, s, SWAP_AREA_SIZE)

\* init_memory and init_task.
Init ==
  /\ pid_list = slist_alloc(slist_alloc(slist_init(MAX_TASK_NUM)))
  /\ current_running = 0 /\ panic = 0 /\ removed = {} /\ boosted = {}
  /\ in = [p \in Pids |-> IF p \in {Shell, IoProc} THEN "ready" ELSE "none"]
  /\ sem = [i \in Sems |-> 0]
  /\ pm_slist = slist_init(PM_SLIST_SIZE)
  /\ pm_owner = [f \in Frames |-> [pid |-> 0, vpn |-> Stack]]
  /\ pt_pool_slist = slist_init(PT_SLIST_SIZE)
  /\ page_dir = [p \in Pids |-> [d \in 0 .. PDE_NUMBER - 1 |-> EmptyPde]]
  /\ page_table_pool = [n \in Pool |-> [t \in 0 .. PTE_NUMBER - 1 |-> EmptyPte]]
  /\ swap_area_slist = slist_init(SWAP_AREA_SIZE)
  /\ tlb = {}
  /\ mem = [f \in Frames |-> BootValue] /\ swap = [s \in Slots |-> BootValue]
  /\ io_task = NoRequest
  /\ io = [pc |-> "init", req |-> NoRequest, indexbuf |-> BootValue]
  /\ fault = [p \in Pids |-> Idle]
  /\ expected = [p \in Users |-> [v \in Pages |-> BootValue]]
  /\ raced = FALSE

-----------------------------------------------------------------------------
\* The tasks in a queue, given `in` and `removed`.
InQueue(q, i, r) == {p \in Tasks : i[p] = q /\ p \notin r}

\* scheduler(), with the queues as they are after the step, b being `boosted`.
SwitchTask(b) ==
  LET ready == InQueue("ready", in', removed')
  IN  IF ready = {}
      THEN /\ panic' = 1 /\ boosted' = b
           /\ UNCHANGED current_running
      ELSE /\ current_running' \in IF ready \cap b # {} THEN ready \cap b ELSE ready
           /\ boosted' = b \ {current_running'}
           /\ UNCHANGED panic

\* Faulty variant of Woken: a waiter is woken only when another one is left.
Woken_strict(s, r) ==
  IF sem[s] + 1 < 0 /\ InQueue(s, in, r) # {} THEN {{p} : p \in InQueue(s, in, r)} ELSE {{}}

\* do_semaphore_up(s), r being `removed`: the task that it wakes, if any.
Woken(s, r) ==
  IF sem[s] + 1 <= 0 /\ InQueue(s, in, r) # {} THEN {{p} : p \in InQueue(s, in, r)} ELSE {{}}

\* `in` after the tasks w have been woken.
InAfter(w) == [p \in Pids |-> IF p \in w THEN "ready" ELSE in[p]]

\* do_semaphore_down(s) by the running task, after w have been woken.
SemDown(s, w) ==
  IF sem[s] - 1 < 0
  THEN in' = [InAfter(w) EXCEPT ![Current] = s] /\ SwitchTask(boosted \cup w)
  ELSE in' = InAfter(w) /\ boosted' = boosted \cup w /\ UNCHANGED <<current_running, panic>>

Running(p) == panic = 0 /\ Current = p
UserMode == panic = 0 /\ fault[Current].at = "user"

\* The running task is at this point of TLB_exception_helper.
At(a) == panic = 0 /\ fault[Current].at = a

Hit(p, v) == {e \in tlb : e.pid = p /\ e.vpn = v /\ e.valid = 1}

\* p is in user mode with its stack mapped, so that it can execute.
Executes(p) == Running(p) /\ UserMode /\ Hit(p, Stack) # {}

Pte(p, v) == page_table_pool[page_dir[p][v[1]].pool_num][v[2]]

Vpn == fault[Current].vpn

\* The page the running task has touched is not in memory.
NeedsFrame == Pte(Current, Vpn).valid = 0 \/ Pte(Current, Vpn).present = 0

\* The slot of that page, which swap_in reads before it calls swap_out.
Address == IF Pte(Current, Vpn).valid = 1 THEN Pte(Current, Vpn).addr ELSE 0

\* Another task is waiting for a page to be written or read.
InTransit == \E p \in Tasks \ {Current} : fault[p].at \in {"out", "in"}

-----------------------------------------------------------------------------
\* irq_timer.
Tick ==
  /\ UserMode
  /\ UNCHANGED <<in, removed>>
  /\ SwitchTask(boosted)
  /\ UNCHANGED <<pid_list, sem, io_task, tableVars, tlb, dataVars, io, fault, raced>>

\* The shell starts a task (init_pcb).  By the time a command has been typed
\* io_proc has run.
Spawn ==
  /\ Executes(Shell)
  /\ io.pc # "init"
  /\ ~ slist_is_insufficient(pid_list)
  /\ LET pid == slist_alloc_ret(pid_list)
     IN  /\ pid_list' = slist_alloc(pid_list)
         /\ in' = [in EXCEPT ![pid] = "ready"]
         /\ page_dir' = [page_dir EXCEPT ![pid] = page_dir_init(@)]
  /\ UNCHANGED <<current_running, boosted, removed, panic, sem, io_task, pm_slist, pm_owner,
                 pt_pool_slist, page_table_pool, swap_area_slist, tlb, dataVars, io, fault,
                 raced>>

\* A task writes to a page that the TLB maps.
Store(v, x) ==
  /\ Current \in Users
  /\ UserMode
  /\ \E e \in Hit(Current, v) : mem' = [mem EXCEPT ![e.frame] = x]
  /\ expected' = [expected EXCEPT ![Current][v] = x]
  /\ UNCHANGED <<schedVars, pid_list, sem, io_task, tableVars, tlb, swap, io, fault, raced>>

-----------------------------------------------------------------------------
\* TLB_exception_helper up to the lookup in the page table.
TlbException(v) ==
  LET p == Current
      new == pt_pool_alloc
  IN  /\ UserMode /\ p \in Tasks
      /\ v \in IF p \in Users THEN Touches(p) ELSE {Stack}
      /\ Hit(p, v) = {}
      /\ fault' = [fault EXCEPT ![p] =
           [Idle EXCEPT !.at = "walk", !.vpn = v,
                        !.refill = IF \E e \in tlb : e.pid = p /\ e.vpn = v THEN 0 ELSE 1]]
      /\ \/ /\ page_dir[p][v[1]].valid = 1
            /\ UNCHANGED <<panic, pt_pool_slist, page_dir, page_table_pool>>
         \/ /\ page_dir[p][v[1]].valid = 0 /\ new # -1
            /\ pt_pool_slist' = slist_alloc(pt_pool_slist)
            /\ page_dir' = [page_dir EXCEPT ![p][v[1]] = [valid |-> 1, pool_num |-> new]]
            /\ page_table_pool' = [page_table_pool EXCEPT ![new] = page_table_init(@)]
            /\ UNCHANGED panic
         \/ /\ page_dir[p][v[1]].valid = 0 /\ new = -1
            /\ panic' = 1
            /\ UNCHANGED <<pt_pool_slist, page_dir, page_table_pool>>
      /\ UNCHANGED <<current_running, in, boosted, removed, pid_list, sem, io_task, pm_slist, pm_owner,
                     swap_area_slist, tlb, dataVars, io, raced>>

\* A request to io_proc, and waiting for it.
Request(type, f, s) ==
  /\ io_task' = [type |-> type, frame |-> f, slot |-> s]
  /\ sem' = [sem EXCEPT !["io_tasks"] = @ + 1, !["io_done"] = @ - 1]
  /\ \E w \in Woken("io_tasks", removed') : SemDown("io_done", w)

\* Faulty variant of swap_scheduler: the first two frames are not left out.
swap_scheduler_all(t) == t % (PM_SLIST_SIZE - 1)

swap_scheduler(t) == 2 + (t % (PM_SLIST_SIZE - 3))

\* The owner q of the page that is swapped out leaves its queue.
Withdrawn(q) == {q} \ {Current}

\* Faulty variant of set_TLB_invalid.
set_TLB_invalid_none(q, w) == tlb

set_TLB_invalid(q, w) ==
  {IF e.pid = q /\ e.vpn = w THEN [e EXCEPT !.valid = 0, !.frame = 0] ELSE e : e \in tlb}

\* swap_out until it blocks, for the frame f.
SwapOut(f) ==
  LET q == pm_owner[f].pid
      w == pm_owner[f].vpn
      s == swap_area_alloc
      n == page_dir[q][w[1]].pool_num
  IN  /\ removed' = removed \cup Withdrawn(q)
      /\ pm_slist' = pm_free(f)
      /\ swap_area_slist' = slist_alloc(swap_area_slist)
      /\ page_table_pool' = [page_table_pool EXCEPT ![n][w[2]].present = 0,
                                                    ![n][w[2]].addr = s]
      /\ tlb' = set_TLB_invalid(q, w)
      /\ Request("WRITE", f, s)
      /\ fault' = [fault EXCEPT ![Current].at = "out", ![Current].victim = q,
                                 ![Current].slot = Address]
      /\ raced' = (raced \/ InTransit)

\* Any of the frames may be chosen.  If another swap_out has removed its owner,
\* which is then in no queue, queue_remove follows a null pointer and the kernel
\* is lost.
Evict ==
  /\ At("walk") /\ NeedsFrame
  /\ slist_is_insufficient(pm_slist)
  /\ \E t \in 0 .. PM_SLIST_SIZE - 1 :
       IF pm_owner[swap_scheduler(t)].pid \in removed
       THEN /\ panic' = 1
            /\ UNCHANGED <<current_running, in, boosted, removed, sem, io_task, pm_slist,
                           swap_area_slist, page_table_pool, tlb, fault, raced>>
       ELSE SwapOut(swap_scheduler(t))
  /\ UNCHANGED <<pid_list, pm_owner, pt_pool_slist, page_dir, dataVars, io>>

\* The rest of swap_out.
Rejoin ==
  /\ At("out")
  /\ removed' = removed \ {fault[Current].victim}
  /\ fault' = [fault EXCEPT ![Current].at = "frame"]
  /\ UNCHANGED <<current_running, in, boosted, panic, pid_list, sem, io_task, tableVars, tlb,
                 dataVars, io, raced>>

\* swap_in for the running task, with the frame f, until it blocks.
swap_in(f, address) ==
  /\ Request("READ", f, address)
  /\ fault' = [fault EXCEPT ![Current].at = "in", ![Current].frame = f, ![Current].slot = address]

\* A frame is taken, and a new page is mapped to it or an old one swapped in.
TakeFrame ==
  LET p == Current
      v == Vpn
      n == page_dir[p][v[1]].pool_num
      f == pm_alloc
      address == IF At("walk") THEN Address ELSE fault[p].slot
  IN  /\ \/ At("walk") /\ NeedsFrame /\ ~ slist_is_insufficient(pm_slist)
         \/ At("frame")
      /\ pm_slist' = slist_alloc(pm_slist)
      /\ UNCHANGED removed
      /\ raced' = (raced \/ InTransit)
      /\ \/ /\ Pte(p, v).valid = 0
            /\ pm_owner' = [pm_owner EXCEPT ![f] = [pid |-> p, vpn |-> v]]
            /\ page_table_pool' = [page_table_pool EXCEPT
                 ![n][v[2]] = [valid |-> 1, present |-> 1, addr |-> f]]
            /\ expected' = IF p \in Users THEN [expected EXCEPT ![p][v] = mem[f]] ELSE expected
            /\ fault' = [fault EXCEPT ![p].at = "write"]
            /\ UNCHANGED <<current_running, in, boosted, panic, sem, io_task>>
         \/ /\ Pte(p, v).valid = 1
            /\ swap_in(f, address)
            /\ UNCHANGED <<pm_owner, page_table_pool, expected>>
      /\ UNCHANGED <<pid_list, pt_pool_slist, page_dir, swap_area_slist, tlb, mem, swap, io>>

\* Faulty variant of Owned: pm_pid and pm_vpn are not set.
Owned_none(f, p, v) == pm_owner

Owned(f, p, v) == [pm_owner EXCEPT ![f] = [pid |-> p, vpn |-> v]]

\* The rest of swap_in.
PageIn ==
  LET p == Current
      v == Vpn
      f == fault[p].frame
      n == page_dir[p][v[1]].pool_num
  IN  /\ At("in")
      /\ swap_area_slist' = swap_area_free(fault[p].slot)
      /\ page_table_pool' = [page_table_pool EXCEPT ![n][v[2]].present = 1, ![n][v[2]].addr = f]
      /\ pm_owner' = Owned(f, p, v)
      /\ fault' = [fault EXCEPT ![p].at = "write"]
      /\ UNCHANGED <<schedVars, pid_list, sem, io_task, pm_slist, pt_pool_slist, page_dir,
                     tlb, dataVars, io, raced>>

\* The TLB entry is written: over the one that was found invalid (tlbp, tlbwi),
\* or over any (tlbwr, and tlbwi if the entry has gone in the meantime).
TlbWrite ==
  LET p == Current
      e == [pid |-> p, vpn |-> Vpn, frame |-> Pte(p, Vpn).addr, valid |-> 1]
      old == {x \in tlb : x.pid = p /\ x.vpn = Vpn}
  IN  /\ At("write") \/ (At("walk") /\ ~ NeedsFrame)
      /\ \/ /\ fault[p].refill = 0 /\ old # {}
            /\ tlb' = (tlb \ old) \cup {e}
         \/ /\ fault[p].refill = 1 \/ old = {}
            /\ \E x \in SUBSET tlb :
                 /\ Cardinality(x) <= 1
                 /\ Cardinality(tlb \ x) < TLB_ENTRY_NUMBER
                 /\ tlb' = (tlb \ x) \cup {e}
      /\ fault' = [fault EXCEPT ![p] = Idle]
      /\ UNCHANGED <<schedVars, pid_list, sem, io_task, tableVars, dataVars, io, raced>>

-----------------------------------------------------------------------------
\* sw_io_proc: the three semaphore_init calls before its loop.
IoInit ==
  /\ Executes(IoProc) /\ io.pc = "init"
  /\ sem' = [i \in Sems |-> 0]
  /\ io' = [io EXCEPT !.pc = "down"]
  /\ UNCHANGED <<schedVars, io_task, pid_list, tableVars, tlb, dataVars, fault, raced>>

IoDown ==
  /\ Executes(IoProc) /\ io.pc = "down"
  /\ UNCHANGED removed
  /\ SemDown("io_tasks", {})
  /\ sem' = [sem EXCEPT !["io_tasks"] = @ - 1]
  /\ io' = [io EXCEPT !.pc = "fetch"]
  /\ UNCHANGED <<io_task, pid_list, tableVars, tlb, dataVars, fault, raced>>

\* io_proc reads io_task and calls sdwrite or sdread with what it has read.
IoFetch ==
  /\ Executes(IoProc) /\ io.pc = "fetch"
  /\ io' = [io EXCEPT !.pc = "fill", !.req = io_task]
  /\ UNCHANGED <<schedVars, pid_list, sem, io_task, tableVars, tlb, dataVars, fault, raced>>

\* A block passes through indexbuf.  io_proc is a task like the others, and may
\* be interrupted between the two halves of the copy: sdwrite fills the buffer
\* from memory, sdread from the card ...
IoFill ==
  LET r == io.req
  IN  /\ Executes(IoProc) /\ io.pc = "fill"
      /\ \/ r.type = "WRITE" /\ io' = [io EXCEPT !.pc = "drain", !.indexbuf = mem[r.frame]]
         \/ r.type = "READ" /\ io' = [io EXCEPT !.pc = "drain", !.indexbuf = swap[r.slot]]
      /\ UNCHANGED <<schedVars, pid_list, sem, io_task, tableVars, tlb, dataVars, fault, raced>>

\* ... and then goes to the card or to memory.
IoDrain ==
  LET r == io.req
  IN  /\ Executes(IoProc) /\ io.pc = "drain"
      /\ \/ /\ r.type = "WRITE"
            /\ swap' = [swap EXCEPT ![r.slot] = io.indexbuf]
            /\ UNCHANGED mem
         \/ /\ r.type = "READ"
            /\ mem' = [mem EXCEPT ![r.frame] = io.indexbuf]
            /\ UNCHANGED swap
      /\ io' = [pc |-> "up", req |-> NoRequest, indexbuf |-> BootValue]
      /\ UNCHANGED <<schedVars, pid_list, sem, io_task, tableVars, tlb, expected, fault, raced>>

\* Another task calls the file system, which uses the same functions and hence
\* their buffers: "todo: conflict" (arch/mips/pmon/common.c:133 and 173).  Only a
\* call between the two halves of a copy makes a difference.
FsCall ==
  /\ Current \in FsCallers /\ Executes(Current)
  /\ io.pc = "drain"
  /\ io' = [io EXCEPT !.indexbuf = Foreign]
  /\ raced' = TRUE
  /\ UNCHANGED <<schedVars, pid_list, sem, io_task, tableVars, tlb, dataVars, fault>>

IoUp ==
  /\ Executes(IoProc) /\ io.pc = "up"
  /\ \E w \in Woken("io_done", removed) : in' = InAfter(w) /\ boosted' = boosted \cup w
  /\ sem' = [sem EXCEPT !["io_done"] = @ + 1]
  /\ io' = [io EXCEPT !.pc = "down"]
  /\ UNCHANGED <<current_running, removed, panic, io_task, pid_list, tableVars, tlb, dataVars,
                 fault, raced>>

-----------------------------------------------------------------------------
Fault == (\E v \in Pages : TlbException(v)) \/ Evict \/ Rejoin
         \/ TakeFrame \/ PageIn \/ TlbWrite

IoStep == IoInit \/ IoDown \/ IoFetch \/ IoFill \/ IoDrain \/ IoUp

Next ==
  \/ Tick \/ Spawn \/ Fault \/ IoStep \/ FsCall
  \/ \E v \in Pages, x \in Values : Store(v, x)

Spec == Init /\ [][Next]_vars

KernelStep == Evict \/ Rejoin \/ TakeFrame \/ PageIn \/ TlbWrite

\* The processor goes on executing the kernel; a time slice is long enough for
\* io_proc to fault on its stack and to make a step; and neither io_proc nor a
\* task that it has woken is left out for ever by scheduler().
Fairness ==
  /\ WF_vars(KernelStep)
  /\ SF_vars(IoStep)
  /\ SF_vars(Current = IoProc /\ TlbException(Stack))
  /\ \A p \in Tasks \ {Shell} : SF_vars(Tick /\ current_running' = p)

LiveSpec == Spec /\ Fairness

-----------------------------------------------------------------------------
Pte0 == [valid : 0 .. 1, present : 0 .. 1, addr : Frames \cup Slots]

\* Types.  In particular indices into pm_pid, page_table_pool and the swap area
\* stay in range, but for the two values noted at Frames and Slots.
TypeOK ==
  /\ current_running \in Pids /\ panic \in 0 .. 1 /\ removed \subseteq Tasks
  /\ boosted \subseteq Tasks
  /\ in \in [Pids -> Sems \cup {"ready", "none"}]
  /\ pid_list \in SlistType(MAX_TASK_NUM)
  /\ sem \in [Sems -> Int]
  /\ pm_slist \in SlistType(PM_SLIST_SIZE)
  /\ pm_owner \in [Frames -> [pid : Pids, vpn : Pages]]
  /\ pt_pool_slist \in SlistType(PT_SLIST_SIZE)
  /\ page_dir \in [Pids -> [0 .. PDE_NUMBER - 1 -> [valid : 0 .. 1, pool_num : Pool]]]
  /\ page_table_pool \in [Pool -> [0 .. PTE_NUMBER - 1 -> Pte0]]
  /\ swap_area_slist \in SlistType(SWAP_AREA_SIZE)
  /\ tlb \subseteq [pid : Tasks, vpn : Pages, frame : Frames, valid : 0 .. 1]
  /\ Cardinality(tlb) <= TLB_ENTRY_NUMBER
  /\ mem \in [Frames -> Values] /\ swap \in [Slots -> Values]
  /\ io_task \in [type : {"READ", "WRITE"}, frame : Frames, slot : Slots]
  /\ io \in [pc : {"init", "down", "fetch", "fill", "drain", "up"},
             req : [type : {"READ", "WRITE"}, frame : Frames, slot : Slots],
             indexbuf : Values]
  /\ fault \in [Pids -> [at : {"user", "walk", "out", "frame", "in", "write"}, vpn : Pages,
                         refill : 0 .. 1, victim : Pids, frame : Frames, slot : Slots]]
  /\ expected \in [Users -> [Pages -> Values]]
  /\ raced \in BOOLEAN

\* The pages that a page table describes.
Mapped == {x \in Tasks \X Pages : page_dir[x[1]][x[2][1]].valid = 1 /\ Pte(x[1], x[2]).valid = 1}
Present == {x \in Mapped : Pte(x[1], x[2]).present = 1}

\* The TLB never maps what the page table does not: swap_out invalidates the
\* entry of the page it takes, whoever is running and wherever the entry is.
TlbOK ==
  \A e \in tlb : e.valid = 1 =>
    <<e.pid, e.vpn>> \in Present /\ Pte(e.pid, e.vpn).addr = e.frame

\* The pages of the shell and of io_proc are never swapped out, so that a page
\* fault of io_proc never waits for io_proc, and the shell never blocks: they
\* have got frames 0 and 1 before any other task can touch memory, and
\* swap_scheduler leaves these out.
ReservedOK ==
  \A p \in {Shell, IoProc} : fault[p].at \in {"user", "walk", "write"}

\* Unless there was a race: a page in memory has a frame of its own, which
\* pm_slist, pm_pid and pm_vpn know of.
FramesOK ==
  ~ raced => \A x \in Present :
    LET f == Pte(x[1], x[2]).addr
    IN  /\ f # -1 /\ pm_slist[f + 1].valid = 1
        /\ pm_owner[f] = [pid |-> x[1], vpn |-> x[2]]

\* The pages that user tasks touch, which the swap area has room for.  The code
\* does not check this: slist_alloc returns 0 when there is no slot left.
Touched == {x \in Users \X Pages : x[2] \in Touches(x[1])}
SwapFits == Cardinality(Touched) < SWAP_AREA_SIZE

\* Unless there was a race: every page that is not in memory has a slot of
\* its own, and no other slot is in use.
SlotsOK ==
  ~ raced =>
    /\ {s \in Slots \ {0} : swap_area_slist[s].valid = 1}
         = {Pte(x[1], x[2]).addr : x \in Mapped \ Present}
    /\ \A x, y \in Mapped \ Present : Pte(x[1], x[2]).addr = Pte(y[1], y[2]).addr => x = y

\* "otherwise the memory will be inconsistent" (kernel/mm/memory.c:92): a task
\* finds in its pages what it has written there.
Consistent ==
  Current \in Users /\ UserMode =>
    \A e \in tlb : e.pid = Current /\ e.valid = 1 => mem[e.frame] = expected[Current][e.vpn]

\* Memory is consistent, however the pages of one task are swapped out by the
\* faults of another, unless two faults that need a frame overlap or a call of
\* the file system comes between the two halves of a copy of io_proc's.
DataOK == ~ raced => Consistent

\* A page fault ends: io_proc serves every request and wakes the task again,
\* whatever overlaps.
FaultEnds ==
  \A p \in Users : []<>(fault[p].at = "user" \/ panic = 1)
=============================================================================
