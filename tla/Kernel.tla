------------------------------- MODULE Kernel -------------------------------
(***************************************************************************)
(* Tasks, the scheduler, and the synchronisation calls of the kernel:      *)
(* kernel/sched/sched.c, kernel/lock/*.c, the timer and network interrupts *)
(* and the dispatch of system calls.                                       *)
(*                                                                         *)
(* Interrupts are disabled in the kernel, so a system call or an interrupt *)
(* is one action, up to the point where do_wait switches to another task.  *)
(* What a blocked task still has to do in the kernel when it runs again is *)
(* `cont`: nothing ("user"), or the rest of do_mutex_lock_acquire.  While  *)
(* current_running has such a continuation no other action is possible.    *)
(***************************************************************************)
EXTENDS SchedOps, SlistOps, FiniteSets

CONSTANTS
  MAX_LOCKS_NUM,   \* the locks of locks[], which kill() releases
  NUserLocks,      \* mutexes that are not in locks[] (the mailboxes have one)
  NSems, NConds, NBarriers,
  SemValues,       \* what do_semaphore_init is called with
  Goals,           \* what do_barrier_init is called with
  MaxCount,        \* bound on the counters of semaphores and conditions
  Priorities,      \* task_info priorities
  TickMod,         \* the tick counter wraps at TickMod (2^32 in the code)
  SleepTicks,      \* sleep_time / TIME_SLICE
  MaxWait,         \* no system call is made when a wait_time exceeds this
  Syscalls         \* the system calls the tasks of this instance make

ASSUME LocksAssumption ==
  /\ MAX_LOCKS_NUM \in Nat /\ NUserLocks \in Nat
  /\ NSems \in Nat /\ NConds \in Nat /\ NBarriers \in Nat
ASSUME ValuesAssumption ==
  /\ SemValues \subseteq Int /\ Goals \subseteq Int /\ MaxCount \in Nat
  /\ Priorities \subseteq Nat \ {0}
  /\ TickMod \in Nat \ {0} /\ SleepTicks \subseteq Nat /\ MaxWait \in Nat

TableLocks == 0 .. MAX_LOCKS_NUM - 1
Locks == 0 .. MAX_LOCKS_NUM + NUserLocks - 1
Sems == 1 .. NSems
Conds == 1 .. NConds
Barriers == 1 .. NBarriers

QueueIds ==
  {Ready, SleepQ, RecvQ} \cup {WaitQ(p) : p \in Pids} \cup {LockQ(x) : x \in Locks}
  \cup {SemQ(x) : x \in Sems} \cup {CondQ(x) : x \in Conds}
  \cup {BarrierQ(x) : x \in Barriers}

VARIABLES
  k,               \* the scheduling state (SchedOps)
  pid_list,        \* the free list of pids (SlistOps)
  priority,        \* pcb field
  awakened_time,   \* pcb field
  lock_num,        \* pcb field
  cont,            \* where the task resumes: see above
  lock,            \* mutex_lock_t: status and owner
  sem,             \* semaphore_t's value
  cond,            \* condition_t's waiting_num
  barrier,         \* barrier_t's goal and arrived
  time_elapsed     \* ticks since boot

vars == <<k, pid_list, priority, awakened_time, lock_num, cont, lock, sem,
          cond, barrier, time_elapsed>>
taskVars == <<pid_list, priority>>
syncVars == <<sem, cond, barrier>>

Live == {p \in Tasks : pid_list[p].valid = 1}

User == <<"user", 0>>
Entry(x) == <<"entry", x>>   \* at the start of do_mutex_lock_acquire(x)
Loop(x) == <<"loop", x>>     \* in its while loop, after do_wait
Conts == {User} \cup {Entry(x) : x \in Locks} \cup {Loop(x) : x \in Locks}

-----------------------------------------------------------------------------
\* init_task: main is running, the shell and io_proc have been created.
\* init_mutex_locks, and the first do_*_init of every object, are done.
Init ==
  /\ pid_list = slist_alloc(slist_alloc(slist_init(MAX_TASK_NUM)))
  /\ \E a, b \in Priorities :
       priority = [p \in Pids |-> IF p = 1 THEN a ELSE IF p = 2 THEN b ELSE 0]
  /\ k = [queue |-> [q \in QueueIds |-> IF q = Ready THEN <<1, 2>> ELSE <<>>],
          in |-> [p \in Pids |-> IF p \in {1, 2} THEN Ready ELSE NoQueue],
          status |-> [p \in Pids |-> IF p = 0 THEN "RUNNING"
                                     ELSE IF p \in {1, 2} THEN "READY" ELSE "BLOCKED"],
          scheduler_priority |-> priority,
          wait_time |-> [p \in Pids |-> 0],
          current |-> 0,
          panic |-> 0]
  /\ awakened_time = [p \in Pids |-> 0]
  /\ lock_num = [p \in Pids |-> 0]
  /\ cont = [p \in Pids |-> User]
  /\ lock = [x \in Locks |-> [status |-> "UNLOCKED", owner |-> 0]]
  /\ sem \in [Sems -> {IF v < 0 THEN 0 ELSE v : v \in SemValues}]
  /\ cond = [x \in Conds |-> 0]
  /\ barrier \in [Barriers -> [goal : {IF g < 1 THEN 1 ELSE g : g \in Goals}, arrived : {0}]]
  /\ time_elapsed = 0

\* current_running is in user mode: it may be interrupted or make a call.
UserMode == k.panic = 0 /\ cont[k.current] = User

\* A task makes the system call `name`.  The shell makes no blocking ones.
Calls(name) ==
  /\ name \in Syscalls
  /\ UserMode
  /\ k.current # 0
  /\ k.current = Shell => name \in {"spawn", "kill"}
  /\ \A p \in Live : k.wait_time[p] <= MaxWait

Current == k.current

-----------------------------------------------------------------------------
\* irq_timer.
Tick ==
  /\ UserMode
  /\ time_elapsed' = (time_elapsed + 1) % TickMod
  /\ \E k1 \in check_sleeping(k, awakened_time, time_elapsed') : k' \in scheduler(k1)
  /\ UNCHANGED <<taskVars, awakened_time, lock_num, cont, lock, syncVars>>

\* irq_mac: a package has arrived.
IrqMac ==
  /\ UserMode
  /\ k.queue[RecvQ] # <<>>
  /\ k' \in do_unblock_one(k, RecvQ, priority)
  /\ UNCHANGED <<taskVars, awakened_time, lock_num, cont, lock, syncVars, time_elapsed>>

\* init_pcb.
Spawn(pr) ==
  /\ Calls("spawn")
  /\ ~ slist_is_insufficient(pid_list)
  /\ LET pid == slist_alloc_ret(pid_list)
     IN  /\ pid_list' = slist_alloc(pid_list)
         /\ priority' = [priority EXCEPT ![pid] = pr]
         /\ lock_num' = [lock_num EXCEPT ![pid] = 0]
         /\ cont' = [cont EXCEPT ![pid] = User]
         /\ k' = [k EXCEPT
                    !.queue[WaitQ(pid)] = <<>>,
                    !.queue[Ready] = Append(@, pid),
                    !.in[pid] = Ready,
                    !.status[pid] = "READY",
                    !.scheduler_priority[pid] = pr,
                    !.wait_time[pid] = 0]
  /\ UNCHANGED <<awakened_time, lock, syncVars, time_elapsed>>

\* Faulty variant of Released: the last entry of locks[] is left out.
Released_short(pid) ==
  LET owned == {x \in TableLocks : lock[x].owner = pid /\ x < MAX_LOCKS_NUM - 1}
  IN  {x \in owned : Cardinality({y \in owned : y < x}) < lock_num[pid]}

\* The locks kill(pid) releases: those of locks[] it owns, in index order,
\* until lock_num is used up.
Released(pid) ==
  LET owned == {x \in TableLocks : lock[x].owner = pid}
  IN  {x \in owned : Cardinality({y \in owned : y < x}) < lock_num[pid]}

\* kill(pid) after queue_remove: each released lock on which tasks are blocked
\* (B) wakes the one do_unblock_one selects, in index order (o is the order, w
\* the selected positions), and then those who wait for pid wake.
Ordered(B) == {o \in [1 .. Cardinality(B) -> B] :
                 /\ ToSet(o) = B
                 /\ \A i, j \in DOMAIN o : i < j => o[i] < o[j]}

Picks(k1, B) == {w \in [B -> 1 .. MAX_TASK_NUM] :
                   \A x \in B : w[x] \in SelectedIn(k1.queue[LockQ(x)], priority, k1.wait_time)}

KillWoken(k1, pid, B, o, w) ==
  Wake(k1,
       [id \in QueueIds |-> IF id = WaitQ(pid) THEN <<>>
                            ELSE IF \E x \in B : id = LockQ(x)
                                 THEN RemoveAt(k1.queue[id], w[id[2]])
                            ELSE k1.queue[id]],
       [i \in DOMAIN o |-> k1.queue[LockQ(o[i])][w[o[i]]]] \o k1.queue[WaitQ(pid)],
       UNION {ToSet(k1.queue[LockQ(x)]) : x \in B})

BlockedOn(k1, pid) == {x \in Released(pid) : k1.queue[LockQ(x)] # <<>>}

KillWakes(k1, pid) ==
  LET B == BlockedOn(k1, pid)
  IN  {KillWoken(k1, pid, B, o, w) : o \in Ordered(B), w \in Picks(k1, B)}

\* Faulty variant of Killable: the shell can be killed.
Killable_shell(pid) == slist_is_valid(pid_list, pid, MAX_TASK_NUM)

Killable(pid) == pid # Shell /\ slist_is_valid(pid_list, pid, MAX_TASK_NUM)

\* queue_remove(pcb[pid].queue, &pcb[pid]).
KillRemove(q, i) == [k EXCEPT !.queue[q] = RemoveAt(@, i)]

kill(pid) ==
  /\ Killable(pid)
  /\ pid_list' = slist_free(pid_list, pid, MAX_TASK_NUM)
  /\ \E i \in DOMAIN k.queue[k.in[pid]] :
       /\ k.queue[k.in[pid]][i] = pid
       /\ \E k1 \in KillWakes(KillRemove(k.in[pid], i), pid) :
            k' \in IF pid = Current THEN scheduler(k1) ELSE {k1}
  /\ lock_num' = [lock_num EXCEPT ![pid] = @ - Cardinality(Released(pid))]
  /\ lock' = [x \in Locks |-> IF x \in Released(pid)
                              THEN [status |-> "UNLOCKED", owner |-> 0] ELSE lock[x]]
  /\ UNCHANGED <<priority, awakened_time, cont, syncVars, time_elapsed>>

Kill(pid) == Calls("kill") /\ kill(pid)

Exit == Calls("exit") /\ kill(Current)

\* Faulty variant of Waitable: pid_is_valid is not asked.
Waitable_any(pid) == pid # Current

Waitable(pid) == slist_is_valid(pid_list, pid, MAX_TASK_NUM) /\ pid # Current

\* wait(pid).
Wait(pid) ==
  /\ Calls("wait")
  /\ Waitable(pid)
  /\ k' \in do_wait(k, WaitQ(pid), "WAITING")
  /\ UNCHANGED <<taskVars, awakened_time, lock_num, cont, lock, syncVars, time_elapsed>>

do_sleep(t) ==
  /\ Calls("sleep")
  /\ awakened_time' = [awakened_time EXCEPT ![Current] = (time_elapsed + t) % TickMod]
  /\ k' \in do_wait(k, SleepQ, "SLEEPING")
  /\ UNCHANGED <<taskVars, lock_num, cont, lock, syncVars, time_elapsed>>

do_wait_recv_package ==
  /\ Calls("recv")
  /\ k' \in do_wait(k, RecvQ, "BLOCKED")
  /\ UNCHANGED <<taskVars, awakened_time, lock_num, cont, lock, syncVars, time_elapsed>>

-----------------------------------------------------------------------------
\* Faulty variant of AcquireLoop: `if` for `while`.
AcquireLoop_if(x) ==
  \/ /\ lock[x].status = "LOCKED"
     /\ k' \in do_wait(k, LockQ(x), "BLOCKED")
     /\ UNCHANGED <<lock, lock_num, cont>>
  \/ /\ lock[x].status = "UNLOCKED"
     /\ lock_num' = [lock_num EXCEPT ![Current] = @ + 1]
     /\ lock' = [lock EXCEPT ![x] = [status |-> "LOCKED", owner |-> Current]]
     /\ UNCHANGED <<k, cont>>

\* The while loop of do_mutex_lock_acquire and what follows it.
AcquireLoop(x) ==
  \/ /\ lock[x].status = "LOCKED"
     /\ k' \in do_wait(k, LockQ(x), "BLOCKED")
     /\ cont' = [cont EXCEPT ![Current] = Loop(x)]
     /\ UNCHANGED <<lock, lock_num>>
  \/ /\ lock[x].status = "UNLOCKED"
     /\ lock_num' = [lock_num EXCEPT ![Current] = @ + 1]
     /\ lock' = [lock EXCEPT ![x] = [status |-> "LOCKED", owner |-> Current]]
     /\ cont' = [cont EXCEPT ![Current] = User]
     /\ UNCHANGED k

do_mutex_lock_acquire(x) ==
  /\ Calls("lock")
  /\ lock[x].owner # Current
  /\ AcquireLoop(x)
  /\ UNCHANGED <<taskVars, awakened_time, syncVars, time_elapsed>>

\* current_running goes on in the kernel where it left off.
Resume(x) ==
  /\ k.panic = 0
  /\ \/ cont[Current] = Loop(x) /\ AcquireLoop(x)
     \/ cont[Current] = Entry(x) /\ lock[x].owner # Current /\ AcquireLoop(x)
     \/ /\ cont[Current] = Entry(x) /\ lock[x].owner = Current
        /\ cont' = [cont EXCEPT ![Current] = User]
        /\ UNCHANGED <<k, lock, lock_num>>
  /\ UNCHANGED <<taskVars, awakened_time, syncVars, time_elapsed>>

\* The end of do_mutex_lock_release.
Unlock(x) ==
  /\ lock_num' = [lock_num EXCEPT ![Current] = @ - 1]
  /\ lock' = [lock EXCEPT ![x] = [status |-> "UNLOCKED", owner |-> 0]]

do_mutex_lock_release(x) ==
  /\ Calls("lock")
  /\ lock[x].owner = Current
  /\ k' \in do_unblock_one(k, LockQ(x), priority)
  /\ Unlock(x)
  /\ UNCHANGED <<taskVars, awakened_time, cont, syncVars, time_elapsed>>

-----------------------------------------------------------------------------
\* Called while no task waits on the object, as the init calls are meant to.
do_semaphore_init(x, v) ==
  /\ Calls("sem")
  /\ k.queue[SemQ(x)] = <<>>
  /\ sem' = [sem EXCEPT ![x] = IF v < 0 THEN 0 ELSE v]
  /\ UNCHANGED <<k, taskVars, awakened_time, lock_num, cont, lock, cond, barrier, time_elapsed>>

\* Faulty variant of Owed.
Owed_strict(v) == v < 0

\* The test of do_semaphore_up, after ++s->value: somebody is waiting.
Owed(v) == v <= 0

do_semaphore_up(x) ==
  /\ Calls("sem")
  /\ sem[x] < MaxCount
  /\ sem' = [sem EXCEPT ![x] = @ + 1]
  /\ IF Owed(sem[x] + 1) THEN k' \in do_unblock_one(k, SemQ(x), priority) ELSE UNCHANGED k
  /\ UNCHANGED <<taskVars, awakened_time, lock_num, cont, lock, cond, barrier, time_elapsed>>

do_semaphore_down(x) ==
  /\ Calls("sem")
  /\ sem[x] > - MaxCount
  /\ sem' = [sem EXCEPT ![x] = @ - 1]
  /\ IF sem[x] - 1 < 0 THEN k' \in do_wait(k, SemQ(x), "BLOCKED") ELSE UNCHANGED k
  /\ UNCHANGED <<taskVars, awakened_time, lock_num, cont, lock, cond, barrier, time_elapsed>>

do_condition_init(x) ==
  /\ Calls("cond")
  /\ k.queue[CondQ(x)] = <<>>
  /\ cond' = [cond EXCEPT ![x] = 0]
  /\ UNCHANGED <<k, taskVars, awakened_time, lock_num, cont, lock, sem, barrier, time_elapsed>>

do_condition_wait(x, m) ==
  /\ Calls("cond")
  /\ cond[x] < MaxCount
  /\ cond' = [cond EXCEPT ![x] = @ + 1]
  /\ cont' = [cont EXCEPT ![Current] = Entry(m)]
  /\ \/ /\ lock[m].owner = Current
        /\ \E k1 \in do_unblock_one(k, LockQ(m), priority) :
             k' \in do_wait(k1, CondQ(x), "BLOCKED")
        /\ Unlock(m)
     \/ /\ lock[m].owner # Current
        /\ k' \in do_wait(k, CondQ(x), "BLOCKED")
        /\ UNCHANGED <<lock, lock_num>>
  /\ UNCHANGED <<taskVars, awakened_time, sem, barrier, time_elapsed>>

do_condition_signal(x) ==
  /\ Calls("cond")
  /\ cond[x] > 0
  /\ cond' = [cond EXCEPT ![x] = @ - 1]
  /\ k' \in do_unblock_one(k, CondQ(x), priority)
  /\ UNCHANGED <<taskVars, awakened_time, lock_num, cont, lock, sem, barrier, time_elapsed>>

do_condition_broadcast(x) ==
  /\ Calls("cond")
  /\ cond[x] > 0
  /\ cond' = [cond EXCEPT ![x] = 0]
  /\ k' = do_unblock_all(k, CondQ(x))
  /\ UNCHANGED <<taskVars, awakened_time, lock_num, cont, lock, sem, barrier, time_elapsed>>

do_barrier_init(x, g) ==
  /\ Calls("barrier")
  /\ k.queue[BarrierQ(x)] = <<>>
  /\ barrier' = [barrier EXCEPT ![x] = [goal |-> IF g < 1 THEN 1 ELSE g, arrived |-> 0]]
  /\ UNCHANGED <<k, taskVars, awakened_time, lock_num, cont, lock, sem, cond, time_elapsed>>

\* Faulty variant of BarrierOpens: `arrived` is not reset.
BarrierOpens_once(x) ==
  /\ barrier' = [barrier EXCEPT ![x].arrived = @ + 1]
  /\ k' = do_unblock_all(k, BarrierQ(x))

BarrierOpens(x) ==
  /\ barrier' = [barrier EXCEPT ![x].arrived = 0]
  /\ k' = do_unblock_all(k, BarrierQ(x))

do_barrier_wait(x) ==
  /\ Calls("barrier")
  /\ IF barrier[x].arrived + 1 = barrier[x].goal
     THEN BarrierOpens(x)
     ELSE /\ barrier' = [barrier EXCEPT ![x].arrived = @ + 1]
          /\ k' \in do_wait(k, BarrierQ(x), "WAITING")
  /\ UNCHANGED <<taskVars, awakened_time, lock_num, cont, lock, sem, cond, time_elapsed>>

-----------------------------------------------------------------------------
TaskCall ==
  \/ \E pr \in Priorities : Spawn(pr)
  \/ \E pid \in Pids : Kill(pid) \/ Wait(pid)
  \/ Exit
  \/ \E t \in SleepTicks : do_sleep(t)
  \/ do_wait_recv_package

LockCall == \E x \in Locks : do_mutex_lock_acquire(x) \/ do_mutex_lock_release(x)

SyncCall ==
  \/ \E x \in Sems : \/ \E v \in SemValues : do_semaphore_init(x, v)
                     \/ do_semaphore_up(x) \/ do_semaphore_down(x)
  \/ \E x \in Conds : \/ \E m \in Locks : do_condition_wait(x, m)
                      \/ do_condition_signal(x) \/ do_condition_broadcast(x)
                      \/ do_condition_init(x)
  \/ \E x \in Barriers : \/ \E g \in Goals : do_barrier_init(x, g)
                         \/ do_barrier_wait(x)

Next == Tick \/ IrqMac \/ TaskCall \/ LockCall \/ SyncCall \/ \E x \in Locks : Resume(x)

Spec == Init /\ [][Next]_vars

\* The timer keeps firing (irq_timer sets it again), and it interrupts any task
\* that stays in user mode: weak fairness of Tick, its guard written out.
TimerFires == []<><<Tick>>_vars \/ []<>(~ UserMode)

LiveSpec == Spec /\ TimerFires

-----------------------------------------------------------------------------
\* The kernel's data keep their types; in particular scheduler_priority and
\* wait_time never go below zero and current_running is always a pcb.
TypeOK ==
  /\ k \in KType(QueueIds)
  /\ pid_list \in SlistType(MAX_TASK_NUM)
  /\ priority \in [Pids -> Priorities \cup {0}]
  /\ awakened_time \in [Pids -> 0 .. TickMod - 1] /\ time_elapsed \in 0 .. TickMod - 1
  /\ lock_num \in [Pids -> Int] /\ cont \in [Pids -> Conts]
  /\ lock \in [Locks -> [status : {"LOCKED", "UNLOCKED"}, owner : Pids]]
  /\ sem \in [Sems -> Int] /\ cond \in [Conds -> Nat]
  /\ barrier \in [Barriers -> [goal : Nat \ {0}, arrived : Nat]]

\* Every live task is in exactly one queue, once, and its pcb names that
\* queue; no dead task is in any: kill() takes the task from wherever it
\* sleeps, waits or is blocked, and a reused pid finds no trace of its
\* predecessor.
QueueOK == Partitioned(k.queue, k.in, Live)

\* There is always a task to run: the kernel never panics, and after the
\* first interrupt current_running is a live task of the ready queue.
RunningOK ==
  /\ k.panic = 0
  /\ k.current # 0 => k.current \in Live /\ k.in[k.current] = Ready

\* Whoever waits for a task waits for one that is still alive: kill() wakes
\* all of them, and wait() refuses a dead pid.
WaitersOK == \A p \in Tasks : p \notin Live => k.queue[WaitQ(p)] = <<>>

\* A lock of locks[] is held by a live task, one that knows it: kill() frees
\* exactly the locks of the killed task, and lock_num counts them.
LocksOK ==
  /\ \A x \in Locks : lock[x].status = "LOCKED" <=> lock[x].owner # 0
  /\ NUserLocks = 0 =>
       /\ \A x \in Locks : lock[x].owner # 0 => lock[x].owner \in Live
       /\ \A p \in Live : lock_num[p] = Cardinality({x \in Locks : lock[x].owner = p})

\* A mutex that is free while tasks are blocked on it has been promised: a task
\* that do_unblock_one woke is in the ready queue and will take it when it
\* runs.  (Killing that task breaks the promise: see the README.)
LockPromised ==
  \A x \in Locks :
    lock[x].status = "UNLOCKED" /\ k.queue[LockQ(x)] # <<>> /\ "kill" \notin Syscalls =>
      \E p \in Live : k.in[p] = Ready /\ cont[p] \in {Loop(x), Entry(x)}

\* Semaphores, conditions and barriers count their waiters: never fewer than
\* there are, and exactly those when no task is killed.
CountsOK ==
  /\ \A x \in Sems : LET n == Len(k.queue[SemQ(x)])
                           v == IF sem[x] < 0 THEN - sem[x] ELSE 0
                       IN  n <= v /\ ("kill" \notin Syscalls => n = v)
  /\ \A x \in Conds : LET n == Len(k.queue[CondQ(x)])
                        IN  n <= cond[x] /\ ("kill" \notin Syscalls => n = cond[x])
  /\ \A x \in Barriers : LET n == Len(k.queue[BarrierQ(x)])
                               a == barrier[x].arrived
                           IN  /\ n <= a /\ a < barrier[x].goal
                               /\ "kill" \notin Syscalls => n = a

\* The priority a task gains when it is unblocked never accumulates: it has
\* spent the last gain in order to run and block again.
Ceiling(p) == IF priority[p] > 2 THEN priority[p] ELSE 2

BoostOK ==
  \A p \in Live :
    k.scheduler_priority[p] <= IF k.in[p] = Ready /\ p # k.current
                               THEN Ceiling(p) ELSE Ceiling(p) - 1

\* Position i of s has the greatest priority, and among those the longest
\* wait_time.
Best(s, pri, i) ==
  \A j \in DOMAIN s :
    \/ pri[s[j]] < pri[s[i]]
    \/ pri[s[j]] = pri[s[i]] /\ k.wait_time[s[j]] <= k.wait_time[s[i]]

\* The loops do what they say, "select the one possesses max priority and max
\* wait_time" (kernel/sched/sched.c:108), in every queue the kernel gets to.
SelectionOK ==
  \A q \in QueueIds : k.queue[q] # <<>> =>
    LET pri == IF q = Ready THEN k.scheduler_priority ELSE priority
        i == Selected(k.queue[q], pri, k.wait_time)
    IN  i \in DOMAIN k.queue[q] /\ Best(k.queue[q], pri, i)

\* A ready task is not left waiting for ever, however often the others sleep
\* and are woken: wait_time grows until scheduler() selects it.
ReadyRuns ==
  \A p \in Tasks : (p \in Live /\ k.in[p] = Ready) ~> (k.current = p \/ p \notin Live)

\* A sleeper is woken in the end, although check_sleeping wakes only one task
\* in a tick and the tick counter wraps around.
SleeperWakes == \A p \in Tasks : (k.in[p] = SleepQ) ~> (k.in[p] = Ready)
=============================================================================
