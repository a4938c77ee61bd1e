------------------------------ MODULE SchedOps ------------------------------
(***************************************************************************)
(* The scheduler of kernel/sched/sched.c as operators on its state.        *)
(*                                                                         *)
(* A scheduling state k is a record:                                       *)
(*   queue    what each queue holds, head first (Queue shows that the      *)
(*            linked queues of queue.c are such sequences)                 *)
(*   in       the pcb field `queue`: the queue a task was last put in      *)
(*   status, scheduler_priority, wait_time   the pcb fields                *)
(*   current  the pid of current_running                                   *)
(*   panic    1 once the kernel has stopped in panic()                     *)
(*                                                                         *)
(* The running task stays in the ready queue.  An operator that has to     *)
(* select a task returns the set of its outcomes, which has one element:   *)
(* the position is whatever the code's loop computes.                      *)
(***************************************************************************)
EXTENDS Integers, Sequences, SequencesExt

CONSTANT MAX_TASK_NUM
ASSUME TaskNumAssumption == MAX_TASK_NUM \in Nat /\ MAX_TASK_NUM > 2

\* pcb[0] is main, which runs only until the first timer interrupt.
Pids == 0 .. MAX_TASK_NUM - 1
Tasks == 1 .. MAX_TASK_NUM - 1
Shell == 1

Statuses == {"BLOCKED", "RUNNING", "READY", "SLEEPING", "WAITING"}

\* The queues: tagged with what they belong to.
Ready == <<"ready", 0>>
SleepQ == <<"sleep", 0>>
RecvQ == <<"recv", 0>>
WaitQ(p) == <<"wait", p>>
LockQ(x) == <<"lock", x>>
SemQ(x) == <<"sem", x>>
CondQ(x) == <<"cond", x>>
BarrierQ(x) == <<"barrier", x>>
NoQueue == <<"none", 0>>

-----------------------------------------------------------------------------
\* Faulty variant of ScanStep: wait_time is ignored, a tie goes to the first.
ScanStep_first(s, pri, wait, a, i) ==
  LET b == IF pri[s[i]] > a.max_priority
           THEN [sel |-> i, max_priority |-> pri[s[i]], max_wait_time |-> wait[s[i]]]
           ELSE a
  IN  IF pri[s[i]] = b.max_priority /\ b.sel = 0
      THEN [b EXCEPT !.sel = i, !.max_wait_time = wait[s[i]]]
      ELSE b

\* One turn of the loop over a queue s in scheduler() and do_unblock_one(),
\* at position i; a is the best position so far with its values.
ScanStep(s, pri, wait, a, i) ==
  LET b == IF pri[s[i]] > a.max_priority
           THEN [sel |-> i, max_priority |-> pri[s[i]], max_wait_time |-> wait[s[i]]]
           ELSE a
  IN  IF pri[s[i]] = b.max_priority /\ wait[s[i]] >= b.max_wait_time
      THEN [b EXCEPT !.sel = i, !.max_wait_time = wait[s[i]]]
      ELSE b

\* The position the loop ends with.
Selected(s, pri, wait) ==
  LET scan[i \in 0 .. Len(s)] ==
        IF i = 0 THEN [sel |-> 0, max_priority |-> 1, max_wait_time |-> 0]
        ELSE ScanStep(s, pri, wait, scan[i - 1], i)
  IN  scan[Len(s)].sel

SelectedIn(s, pri, wait) == {i \in DOMAIN s : i = Selected(s, pri, wait)}

-----------------------------------------------------------------------------
\* Faulty variant of Spend: running costs no priority.
Spend_none(n) == n

\* What a task's scheduler_priority becomes when it is given the processor.
Spend(n) == IF n > 1 THEN n - 1 ELSE n

\* Faulty variant of SwitchTo: those passed over gain no wait_time.
SwitchTo_no_aging(k, i) ==
  LET p == k.queue[Ready][i]
  IN  [k EXCEPT
        !.current = p,
        !.status = [x \in Pids |-> IF x = p THEN "RUNNING"
                                   ELSE IF x = k.current /\ @[x] = "RUNNING" THEN "READY"
                                   ELSE @[x]],
        !.scheduler_priority[p] = Spend(@),
        !.wait_time[p] = 0]

\* The task at position i of the ready queue becomes current_running.
SwitchTo(k, i) ==
  LET p == k.queue[Ready][i]
  IN  [k EXCEPT
        !.current = p,
        !.status = [x \in Pids |-> IF x = p THEN "RUNNING"
                                   ELSE IF x = k.current /\ @[x] = "RUNNING" THEN "READY"
                                   ELSE @[x]],
        !.scheduler_priority[p] = Spend(@),
        !.wait_time = [x \in Pids |-> IF x = p THEN 0
                                      ELSE IF x \in ToSet(k.queue[Ready])
                                           THEN @[x] + 1 ELSE @[x]]]

scheduler(k) ==
  IF k.queue[Ready] = <<>> THEN {[k EXCEPT !.panic = 1]}
  ELSE {SwitchTo(k, i) :
          i \in SelectedIn(k.queue[Ready], k.scheduler_priority, k.wait_time)}

\* queue_remove and queue_push: the task at position i of src goes to dst.
Move(k, src, i, dst) ==
  LET p == k.queue[src][i]
  IN  [k EXCEPT !.queue[src] = RemoveAt(@, i), !.queue[dst] = Append(@, p), !.in[p] = dst]

\* current_running leaves the ready queue for dst, and another task runs.
do_wait(k, dst, s) ==
  UNION {scheduler([Move(k, Ready, i, dst) EXCEPT !.status[k.current] = s]) :
           i \in {j \in DOMAIN k.queue[Ready] : k.queue[Ready][j] = k.current}}

\* The tasks `woken` enter the ready queue in that order, with a raised
\* priority; q is the queues without them, `scanned` the tasks a selection
\* loop passed over.
Wake(k, q, woken, scanned) ==
  [k EXCEPT
     !.queue = [q EXCEPT ![Ready] = q[Ready] \o woken],
     !.in = [x \in Pids |-> IF x \in ToSet(woken) THEN Ready ELSE @[x]],
     !.status = [x \in Pids |-> IF x \in ToSet(woken) THEN "READY" ELSE @[x]],
     !.scheduler_priority =
        [x \in Pids |-> IF x \in ToSet(woken) THEN @[x] + 1 ELSE @[x]],
     !.wait_time = [x \in Pids |-> IF x \in ToSet(woken) THEN 0
                                   ELSE IF x \in scanned THEN @[x] + 1
                                   ELSE @[x]]]

do_unblock_one(k, src, priority) ==
  LET s == k.queue[src]
  IN  IF s = <<>> THEN {k}
      ELSE {Wake(k, [k.queue EXCEPT ![src] = RemoveAt(@, i)], <<s[i]>>, ToSet(s)) :
              i \in SelectedIn(s, priority, k.wait_time)}

\* Faulty variant of do_unblock_all: the tasks are pushed but not dequeued.
do_unblock_all_keep(k, src) == Wake(k, k.queue, k.queue[src], {})

do_unblock_all(k, src) ==
  Wake(k, [k.queue EXCEPT ![src] = <<>>], k.queue[src], {})

\* Faulty variant of Due.
Due_strict(t, ticks) == t < ticks

Due(t, ticks) == t <= ticks

\* The loop of check_sleeping ends with the first sleeper it wakes: pushing p
\* on the ready queue has made p->next NULL.  The status it sets is not p's.
check_sleeping(k, awakened_time, ticks) ==
  LET s == k.queue[SleepQ]
      due == {i \in DOMAIN s : Due(awakened_time[s[i]], ticks)}
  IN  IF due = {} THEN {k}
      ELSE {[Move(k, SleepQ, i, Ready) EXCEPT !.status[k.current] = "READY"] :
              i \in {j \in due : \A m \in due : j <= m}}

-----------------------------------------------------------------------------
\* The scheduling states over the queues `ids`.
KType(ids) ==
  [queue : [ids -> Seq(Tasks)],
   in : [Pids -> ids \cup {NoQueue}],
   status : [Pids -> Statuses],
   scheduler_priority : [Pids -> Nat],
   wait_time : [Pids -> Nat],
   current : Pids,
   panic : 0 .. 1]

\* The queues q hold each task of `live` once and no other, and `in` tells in
\* which of them it is.
Partitioned(q, in, live) ==
  /\ \A id \in DOMAIN q : /\ IsInjective(q[id])
                         /\ \A p \in ToSet(q[id]) : p \in live /\ in[p] = id
  /\ \A p \in live : in[p] \in DOMAIN q /\ p \in ToSet(q[in[p]])
=============================================================================
