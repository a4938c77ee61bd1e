---------------------------- MODULE KernelProofs ----------------------------
(***************************************************************************)
(* The kernel for any number of tasks, locks, semaphores, conditions and   *)
(* barriers: first what the scheduler's operators do to the queues (a task *)
(* that is moved, woken or removed leaves them partitioned); then the      *)
(* queues and the running task of the kernel; then what it promises to     *)
(* those who synchronise (locks and their owners, the counts of            *)
(* semaphores, conditions and barriers, the promise of a free lock to a    *)
(* task that has been woken for it), the bound on the dynamic priority and *)
(* what the selection loops select.  Each invariant of the last part is    *)
(* inductive together with IInv.                                           *)
(***************************************************************************)
EXTENDS Kernel, SlistOpsProofs, SequenceTheorems, WellFoundedInduction

-----------------------------------------------------------------------------
\* Sequences.

\* RemoveAt, which models queue_remove, element by element.
LEMMA RemoveAtFacts ==
  ASSUME NEW S, NEW s \in Seq(S), NEW i \in DOMAIN s
  PROVE  /\ RemoveAt(s, i) \in Seq(S)
         /\ Len(RemoveAt(s, i)) = Len(s) - 1
         /\ \A j \in 1 .. Len(s) - 1 :
              RemoveAt(s, i)[j] = IF j < i THEN s[j] ELSE s[j + 1]
<1> DEFINE a == SubSeq(s, 1, i - 1)
           b == SubSeq(s, i + 1, Len(s))
           c == a \o b
<1>1. Len(s) \in Nat /\ i \in 1 .. Len(s)
  OBVIOUS
<1>2. a \in Seq(S) /\ Len(a) = i - 1 /\ \A j \in 1 .. i - 1 : a[j] = s[j]
  BY <1>1
<1>3. b \in Seq(S) /\ Len(b) = Len(s) - i /\ \A j \in 1 .. Len(s) - i : b[j] = s[j + i]
  BY <1>1
<1>4. /\ c \in Seq(S) /\ Len(c) = Len(a) + Len(b)
      /\ \A j \in 1 .. Len(a) + Len(b) :
           c[j] = IF j <= Len(a) THEN a[j] ELSE b[j - Len(a)]
  BY <1>2, <1>3, ConcatProperties
<1>5. RemoveAt(s, i) = c
  BY DEF RemoveAt
<1> HIDE DEF a, b, c
<1>6. Len(c) = Len(s) - 1 /\ Len(a) + Len(b) = Len(s) - 1
  BY <1>1, <1>2, <1>3, <1>4
<1>7. ASSUME NEW j \in 1 .. Len(s) - 1
      PROVE  c[j] = IF j < i THEN s[j] ELSE s[j + 1]
  <2>0. c[j] = IF j <= Len(a) THEN a[j] ELSE b[j - Len(a)]
    BY <1>4, <1>6
  <2>1. CASE j < i
    BY <1>1, <1>2, <2>0, <2>1
  <2>2. CASE ~ (j < i)
    <3>1. j - (i - 1) \in 1 .. Len(s) - i /\ (j - (i - 1)) + i = j + 1 /\ ~ (j <= i - 1)
      BY <1>1, <2>2
    <3>2. b[j - (i - 1)] = s[(j - (i - 1)) + i]
      BY <1>3, <3>1
    <3> QED BY <1>2, <2>0, <2>2, <3>1, <3>2
  <2> QED BY <2>1, <2>2
<1> QED BY <1>4, <1>5, <1>6, <1>7

\* Removing an element of a sequence without repetitions removes it from the
\* sequence's set.
LEMMA RemoveAtSet ==
  ASSUME NEW S, NEW s \in Seq(S), IsInjective(s), NEW i \in DOMAIN s
  PROVE  /\ RemoveAt(s, i) \in Seq(S)
         /\ IsInjective(RemoveAt(s, i))
         /\ ToSet(RemoveAt(s, i)) = ToSet(s) \ {s[i]}
<1> DEFINE r == RemoveAt(s, i)
           f(j) == IF j < i THEN j ELSE j + 1
<1>0. /\ r \in Seq(S) /\ DOMAIN r = 1 .. Len(s) - 1
      /\ \A j \in DOMAIN r : r[j] = IF j < i THEN s[j] ELSE s[j + 1]
  <2>1. /\ r \in Seq(S) /\ Len(r) = Len(s) - 1
        /\ \A j \in 1 .. Len(s) - 1 : r[j] = IF j < i THEN s[j] ELSE s[j + 1]
    BY RemoveAtFacts, Zenon
  <2> HIDE DEF r
  <2>2. DOMAIN r = 1 .. Len(s) - 1
    BY <2>1
  <2> QED BY <2>1, <2>2, Zenon
<1>1. /\ r \in Seq(S) /\ DOMAIN r = 1 .. Len(s) - 1
      /\ \A j \in DOMAIN r : r[j] = s[f(j)] /\ f(j) \in DOMAIN s /\ f(j) # i
  <2> HIDE DEF r
  <2> SUFFICES ASSUME NEW j \in DOMAIN r
               PROVE  r[j] = s[f(j)] /\ f(j) \in DOMAIN s /\ f(j) # i
    BY <1>0
  <2> QED BY <1>0
<1>2. \A j, m \in DOMAIN r : f(j) = f(m) => j = m
  BY <1>1
<1>3. \A m \in DOMAIN s : m # i => \E j \in DOMAIN r : f(j) = m
  <2> SUFFICES ASSUME NEW m \in DOMAIN s, m # i PROVE \E j \in DOMAIN r : f(j) = m
    OBVIOUS
  <2>1. CASE m < i
    BY <1>1, <2>1
  <2>2. CASE ~ (m < i)
    <3>1. m - 1 \in DOMAIN r /\ f(m - 1) = m
      BY <1>1, <2>2
    <3> QED BY <3>1
  <2> QED BY <2>1, <2>2
<1> HIDE DEF r, f
<1>4. IsInjective(r)
  BY <1>1, <1>2 DEF IsInjective
<1>5. \A x \in ToSet(r) : x \in ToSet(s) /\ x # s[i]
  BY <1>1 DEF IsInjective, ToSet
<1>6. \A x \in ToSet(s) : x # s[i] => x \in ToSet(r)
  BY <1>1, <1>3 DEF ToSet
<1> QED BY <1>1, <1>4, <1>5, <1>6 DEF r

\* Concatenating sequences without common elements.
LEMMA ConcatSet ==
  ASSUME NEW S, NEW s \in Seq(S), NEW t \in Seq(S), IsInjective(s), IsInjective(t),
         ToSet(s) \cap ToSet(t) = {}
  PROVE  /\ s \o t \in Seq(S)
         /\ IsInjective(s \o t)
         /\ ToSet(s \o t) = ToSet(s) \cup ToSet(t)
<1> DEFINE c == s \o t
<1>1. /\ c \in Seq(S) /\ DOMAIN c = 1 .. Len(s) + Len(t)
      /\ \A j \in 1 .. Len(s) : c[j] = s[j]
      /\ \A j \in 1 .. Len(s) + Len(t) : ~ (j <= Len(s)) => c[j] = t[j - Len(s)]
  BY ConcatProperties
<1>2. DOMAIN s = 1 .. Len(s) /\ DOMAIN t = 1 .. Len(t) /\ Len(s) \in Nat /\ Len(t) \in Nat
  OBVIOUS
<1> HIDE DEF c
<1>3. ASSUME NEW j \in DOMAIN c
      PROVE  \/ j \in DOMAIN s /\ c[j] = s[j] /\ c[j] \in ToSet(s)
             \/ j - Len(s) \in DOMAIN t /\ c[j] = t[j - Len(s)] /\ c[j] \in ToSet(t)
  <2>1. CASE j <= Len(s)
    BY <1>1, <1>2, <2>1 DEF ToSet
  <2>2. CASE ~ (j <= Len(s))
    <3>1. j - Len(s) \in DOMAIN t
      BY <1>1, <1>2, <2>2
    <3> QED BY <1>1, <2>2, <3>1 DEF ToSet
  <2> QED BY <2>1, <2>2
<1>4. ASSUME NEW j \in DOMAIN c, NEW m \in DOMAIN c, c[j] = c[m]
      PROVE  j = m
  <2>1. CASE c[j] \in ToSet(s)
    <3>1. j \in DOMAIN s /\ c[j] = s[j] /\ m \in DOMAIN s /\ c[m] = s[m]
      BY <1>3, <1>4, <2>1
    <3> QED BY <3>1, <1>4 DEF IsInjective
  <2>2. CASE c[j] \notin ToSet(s)
    <3>1. /\ j - Len(s) \in DOMAIN t /\ c[j] = t[j - Len(s)]
          /\ m - Len(s) \in DOMAIN t /\ c[m] = t[m - Len(s)]
      BY <1>3, <1>4, <2>2
    <3>2. j - Len(s) = m - Len(s)
      BY <3>1, <1>4 DEF IsInjective
    <3> QED BY <3>2, <1>1, <1>2
  <2> QED BY <2>1, <2>2
<1>5. \A x \in ToSet(s) : x \in ToSet(c)
  BY <1>1, <1>2 DEF ToSet
<1>6. \A x \in ToSet(t) : x \in ToSet(c)
  <2> SUFFICES ASSUME NEW j \in DOMAIN t PROVE t[j] \in ToSet(c)
    BY DEF ToSet
  <2>1. j + Len(s) \in DOMAIN c /\ ~ (j + Len(s) <= Len(s)) /\ (j + Len(s)) - Len(s) = j
    BY <1>1, <1>2
  <2>2. c[j + Len(s)] = t[j]
    BY <1>1, <2>1
  <2> QED BY <2>1, <2>2 DEF ToSet
<1>7. \A x \in ToSet(c) : x \in ToSet(s) \cup ToSet(t)
  BY <1>3 DEF ToSet
<1>8. IsInjective(c)
  BY <1>4 DEF IsInjective
<1> QED BY <1>1, <1>5, <1>6, <1>7, <1>8 DEF c

\* The empty queue, what a queue is after queue_init or unblock_all.
LEMMA EmptySet == <<>> \in Seq(Tasks) /\ IsInjective(<<>>) /\ ToSet(<<>>) = {}
  BY DEF IsInjective, ToSet

\* A queue of one task.
LEMMA OneSet ==
  ASSUME NEW p \in Tasks
  PROVE  <<p>> \in Seq(Tasks) /\ IsInjective(<<p>>) /\ ToSet(<<p>>) = {p}
<1>1. <<p>> \in Seq(Tasks) /\ DOMAIN <<p>> = {1} /\ <<p>>[1] = p
  OBVIOUS
<1> QED BY <1>1 DEF IsInjective, ToSet

\* queue_push: a task that is in no queue is appended to one.
LEMMA AppendSet ==
  ASSUME NEW s \in Seq(Tasks), IsInjective(s), NEW p \in Tasks, p \notin ToSet(s)
  PROVE  /\ Append(s, p) \in Seq(Tasks)
         /\ IsInjective(Append(s, p))
         /\ ToSet(Append(s, p)) = ToSet(s) \cup {p}
<1>1. Append(s, p) = s \o <<p>>
  BY AppendIsConcat
<1> DEFINE one == <<p>>
<1>2. one \in Seq(Tasks) /\ IsInjective(one) /\ ToSet(one) = {p}
  BY OneSet
<1> HIDE DEF one
<1>3. ToSet(s) \cap ToSet(one) = {}
  BY <1>2
<1>4. /\ s \o one \in Seq(Tasks) /\ IsInjective(s \o one)
      /\ ToSet(s \o one) = ToSet(s) \cup ToSet(one)
  BY <1>2, <1>3, ConcatSet
<1> QED BY <1>1, <1>2, <1>4, Zenon DEF one

-----------------------------------------------------------------------------
\* Partitioned queues.

\* The tasks `gone` are taken out of their queues.
LEMMA DropPartition ==
  ASSUME NEW q, NEW q2, NEW in, NEW live, NEW gone,
         Partitioned(q, in, live), DOMAIN q2 = DOMAIN q,
         \A id \in DOMAIN q : IsInjective(q2[id]) /\ ToSet(q2[id]) = ToSet(q[id]) \ gone
  PROVE  Partitioned(q2, in, live \ gone)
BY DEF Partitioned

-----------------------------------------------------------------------------
\* The operators of the scheduler.

\* A scheduling state whose queues hold the tasks `live`.
Sound(kk, ids, live) == kk \in KType(ids) /\ Partitioned(kk.queue, kk.in, live)

\* From kk to k2, tasks have only been woken.
Wakes(kk, k2, ids) ==
  /\ k2.current = kk.current
  /\ k2.panic = kk.panic
  /\ \A p \in Pids : k2.in[p] = kk.in[p] \/ k2.in[p] = Ready
  /\ \A id \in ids : id # Ready /\ kk.queue[id] = <<>> => k2.queue[id] = <<>>

\* From kk to k2, another task has been given the processor.
Switches(kk, k2, live) ==
  /\ k2.queue = kk.queue /\ k2.in = kk.in /\ k2.panic = kk.panic
  /\ k2.current \in live /\ kk.in[k2.current] = Ready

\* SwitchTo keeps the types.
LEMMA SwitchToType ==
  ASSUME NEW ids, Ready \in ids, NEW kk \in KType(ids), NEW i \in DOMAIN kk.queue[Ready]
  PROVE  /\ SwitchTo(kk, i) \in KType(ids)
         /\ SwitchTo(kk, i).queue = kk.queue
         /\ SwitchTo(kk, i).in = kk.in
         /\ SwitchTo(kk, i).panic = kk.panic
         /\ SwitchTo(kk, i).current = kk.queue[Ready][i]
<1> DEFINE p == kk.queue[Ready][i]
           k2 == SwitchTo(kk, i)
           pri == [kk.scheduler_priority EXCEPT ![p] = Spend(@)]
           sta == [x \in Pids |-> IF x = p THEN "RUNNING"
                                  ELSE IF x = kk.current /\ kk.status[x] = "RUNNING" THEN "READY"
                                  ELSE kk.status[x]]
           wai == [x \in Pids |-> IF x = p THEN 0
                                  ELSE IF x \in ToSet(kk.queue[Ready])
                                       THEN kk.wait_time[x] + 1 ELSE kk.wait_time[x]]
<1>1. kk.queue[Ready] \in Seq(Tasks) /\ p \in Tasks /\ p \in Pids
  BY TaskNumAssumption DEF KType, Tasks, Pids
<1>2. pri \in [Pids -> Nat]
  BY <1>1 DEF KType, Spend
<1>3. sta \in [Pids -> Statuses]
  BY DEF KType, Statuses
<1>4. wai \in [Pids -> Nat]
  BY DEF KType
<1>5. k2 = [kk EXCEPT !.current = p, !.status = sta, !.scheduler_priority = pri, !.wait_time = wai]
  BY DEF SwitchTo, KType
<1> HIDE DEF p, k2, pri, sta, wai
<1>6. /\ k2 \in KType(ids) /\ k2.queue = kk.queue /\ k2.in = kk.in /\ k2.panic = kk.panic
      /\ k2.current = p
  BY <1>1, <1>2, <1>3, <1>4, <1>5 DEF KType
<1> QED BY <1>6 DEF k2, p

\* scheduler() gives the processor to a task of the ready queue; it does not
\* panic when there is one.
LEMMA SchedulerFacts ==
  ASSUME NEW ids, Ready \in ids, NEW live, NEW kk, Sound(kk, ids, live),
         \E p \in live : kk.in[p] = Ready,
         NEW k2 \in scheduler(kk)
  PROVE  Sound(k2, ids, live) /\ Switches(kk, k2, live)
<1>1. kk \in KType(ids) /\ DOMAIN kk.queue = ids /\ kk.queue[Ready] \in Seq(Tasks)
  BY DEF Sound, KType
<1>2. \A x \in ToSet(kk.queue[Ready]) : x \in live /\ kk.in[x] = Ready
  BY <1>1 DEF Sound, Partitioned
<1>3. PICK p \in live : p \in ToSet(kk.queue[Ready])
  BY <1>1 DEF Sound, Partitioned
<1>4. kk.queue[Ready] # <<>>
  BY <1>3, EmptySet
<1>5. PICK i \in DOMAIN kk.queue[Ready] : k2 = SwitchTo(kk, i)
  BY <1>4 DEF scheduler, SelectedIn
<1>6. kk.queue[Ready][i] \in ToSet(kk.queue[Ready])
  BY DEF ToSet
<1> QED BY <1>1, <1>2, <1>5, <1>6, SwitchToType DEF Sound, Switches

\* A sequence without elements is empty.
LEMMA NoElements ==
  ASSUME NEW S, NEW s \in Seq(S), ToSet(s) = {}
  PROVE  s = <<>>
<1>1. DOMAIN s = {}
  BY DEF ToSet
<1>2. Len(s) = 0
  BY <1>1
<1> QED BY <1>2

\* What a queue of a sound state is.
LEMMA SoundQueue ==
  ASSUME NEW ids, NEW live, NEW kk, Sound(kk, ids, live), NEW id \in ids
  PROVE  /\ kk.queue[id] \in Seq(Tasks) /\ IsInjective(kk.queue[id])
         /\ \A p \in ToSet(kk.queue[id]) : p \in live /\ p \in Tasks /\ kk.in[p] = id
<1>1. kk.queue[id] \in Seq(Tasks) /\ DOMAIN kk.queue = ids
  BY DEF Sound, KType
<1>2. \A p \in ToSet(kk.queue[id]) : p \in Tasks
  BY <1>1 DEF ToSet
<1> QED BY <1>1, <1>2 DEF Sound, Partitioned

\* Where a task of a sound state is.
LEMMA SoundTask ==
  ASSUME NEW ids, NEW live, NEW kk, Sound(kk, ids, live), NEW p \in live
  PROVE  p \in Tasks /\ p \in Pids /\ kk.in[p] \in ids /\ p \in ToSet(kk.queue[kk.in[p]])
<1>1. kk.in[p] \in ids /\ p \in ToSet(kk.queue[kk.in[p]])
  BY DEF Sound, KType, Partitioned
<1>2. p \in Tasks
  BY <1>1, SoundQueue
<1> QED BY <1>1, <1>2, TaskNumAssumption DEF Tasks, Pids

\* Move keeps the queues partitioned.
LEMMA MoveFacts ==
  ASSUME NEW ids, NEW live, NEW kk, Sound(kk, ids, live),
         NEW src \in ids, NEW dst \in ids, src # dst, NEW i \in DOMAIN kk.queue[src]
  PROVE  /\ Sound(Move(kk, src, i, dst), ids, live)
         /\ Move(kk, src, i, dst).in = [kk.in EXCEPT ![kk.queue[src][i]] = dst]
         /\ Move(kk, src, i, dst).current = kk.current
         /\ Move(kk, src, i, dst).panic = kk.panic
         /\ \A id \in ids : id # dst /\ kk.queue[id] = <<>> =>
                            Move(kk, src, i, dst).queue[id] = <<>>
<1> DEFINE p == kk.queue[src][i]
           k2 == Move(kk, src, i, dst)
           q == kk.queue
           q1 == [q EXCEPT ![src] = RemoveAt(q[src], i)]
           q2 == [q1 EXCEPT ![dst] = Append(q[dst], p)]
           in2 == [kk.in EXCEPT ![p] = dst]
<1>1. kk \in KType(ids) /\ q \in [ids -> Seq(Tasks)] /\ Partitioned(q, kk.in, live)
  BY DEF Sound, KType
<1>2. p \in ToSet(q[src])
  BY DEF ToSet
<1>3. p \in live /\ p \in Tasks /\ p \in Pids /\ kk.in[p] = src
  BY <1>2, SoundQueue, TaskNumAssumption DEF Tasks, Pids
<1>4. /\ RemoveAt(q[src], i) \in Seq(Tasks) /\ IsInjective(RemoveAt(q[src], i))
      /\ ToSet(RemoveAt(q[src], i)) = ToSet(q[src]) \ {p}
  BY SoundQueue, RemoveAtSet
<1>5. p \notin ToSet(q[dst])
  BY <1>3, SoundQueue
<1>6. /\ Append(q[dst], p) \in Seq(Tasks) /\ IsInjective(Append(q[dst], p))
      /\ ToSet(Append(q[dst], p)) = ToSet(q[dst]) \cup {p}
  BY <1>3, <1>5, SoundQueue, AppendSet
<1>7. \A id \in ids : id # src => p \notin ToSet(q[id])
  BY <1>3, SoundQueue
<1>8. k2 = [kk EXCEPT !.queue = q2, !.in = in2]
  BY <1>1 DEF KType, Move
<1>9. in2 \in [Pids -> ids \cup {NoQueue}]
  BY <1>1, <1>3 DEF KType
<1>10. q1 \in [ids -> Seq(Tasks)] /\ q2 \in [ids -> Seq(Tasks)]
  BY <1>1, <1>4, <1>6
<1>11. Partitioned(q1, kk.in, live \ {p})
  <2>1. \A id \in ids : IsInjective(q1[id]) /\ ToSet(q1[id]) = ToSet(q[id]) \ {p}
    BY <1>1, <1>4, <1>7, SoundQueue
  <2> HIDE DEF q1
  <2> QED BY <1>1, <1>10, <2>1, DropPartition
<1>12. Partitioned(q2, in2, live)
  <2>1. \A id \in ids : id # dst => q2[id] = q1[id]
    BY <1>10
  <2>2. q1[dst] = q[dst] /\ q2[dst] = Append(q[dst], p)
    BY <1>1, <1>10
  <2>3. \A x \in live : x # p => in2[x] = kk.in[x]
    BY <1>1 DEF KType
  <2>4. in2[p] = dst
    BY <1>1, <1>3 DEF KType
  <2>5. DOMAIN q1 = ids /\ DOMAIN q2 = ids
    BY <1>10
  <2> HIDE DEF p, q, q1, q2, in2
  <2>6. ASSUME NEW id \in ids
        PROVE  /\ IsInjective(q2[id])
               /\ \A x \in ToSet(q2[id]) : x \in live /\ in2[x] = id
    <3>1. CASE id = dst
      <4>1. \A x \in ToSet(q[dst]) : x \in live /\ x # p /\ kk.in[x] = dst
        BY <1>11, <2>2, <2>5 DEF Partitioned
      <4> QED BY <1>3, <1>6, <2>2, <2>3, <2>4, <3>1, <4>1
    <3>2. CASE id # dst
      BY <1>11, <2>1, <2>3, <2>5, <3>2 DEF Partitioned
    <3> QED BY <3>1, <3>2
  <2>7. ASSUME NEW x \in live
        PROVE  in2[x] \in ids /\ x \in ToSet(q2[in2[x]])
    <3>1. CASE x = p
      BY <1>6, <2>2, <2>4, <3>1
    <3>2. CASE x # p
      <4>1. in2[x] = kk.in[x] /\ kk.in[x] \in ids /\ x \in ToSet(q1[kk.in[x]])
        BY <1>11, <2>3, <2>5, <3>2 DEF Partitioned
      <4>2. CASE kk.in[x] = dst
        BY <1>6, <2>2, <4>1, <4>2
      <4>3. CASE kk.in[x] # dst
        BY <2>1, <4>1, <4>3
      <4> QED BY <4>2, <4>3
    <3> QED BY <3>1, <3>2
  <2> QED BY <2>5, <2>6, <2>7 DEF Partitioned
<1> HIDE DEF k2, q2, in2
<1>13. /\ k2 \in KType(ids) /\ k2.queue = q2 /\ k2.in = in2
       /\ k2.current = kk.current /\ k2.panic = kk.panic
  BY <1>1, <1>8, <1>9, <1>10 DEF KType
<1>14. ASSUME NEW id \in ids, id # dst, kk.queue[id] = <<>>
       PROVE  k2.queue[id] = <<>>
  <2>1. id # src
    BY <1>14
  <2> QED BY <1>1, <1>13, <1>14, <2>1 DEF q2
<1> QED BY <1>12, <1>13, <1>14 DEF Sound, in2, k2

\* A task's status matters to no queue.
LEMMA StatusFacts ==
  ASSUME NEW ids, NEW live, NEW kk, Sound(kk, ids, live), NEW c \in Pids, NEW s \in Statuses
  PROVE  /\ Sound([kk EXCEPT !.status[c] = s], ids, live)
         /\ [kk EXCEPT !.status[c] = s].queue = kk.queue
         /\ [kk EXCEPT !.status[c] = s].in = kk.in
         /\ [kk EXCEPT !.status[c] = s].current = kk.current
         /\ [kk EXCEPT !.status[c] = s].panic = kk.panic
<1> DEFINE k2 == [kk EXCEPT !.status[c] = s]
<1>1. /\ k2 \in KType(ids) /\ k2.queue = kk.queue /\ k2.in = kk.in
      /\ k2.current = kk.current /\ k2.panic = kk.panic
  BY DEF Sound, KType
<1> HIDE DEF k2
<1>2. Sound(k2, ids, live)
  BY <1>1 DEF Sound
<1> QED BY <1>1, <1>2 DEF k2

\* current_running leaves the ready queue for dst: the tasks stay partitioned,
\* and another task of the ready queue runs.
LEMMA DoWaitFacts ==
  ASSUME NEW ids, Ready \in ids, NEW live, NEW kk, Sound(kk, ids, live),
         NEW dst \in ids, dst # Ready, NEW s \in Statuses,
         \E p \in live : p # kk.current /\ kk.in[p] = Ready,
         NEW k2 \in do_wait(kk, dst, s)
  PROVE  /\ Sound(k2, ids, live)
         /\ k2.in = [kk.in EXCEPT ![kk.current] = dst]
         /\ k2.panic = kk.panic
         /\ k2.current \in live /\ k2.in[k2.current] = Ready
         /\ \A id \in ids : id # dst /\ kk.queue[id] = <<>> => k2.queue[id] = <<>>
<1>1. PICK i \in DOMAIN kk.queue[Ready] :
        /\ kk.queue[Ready][i] = kk.current
        /\ k2 \in scheduler([Move(kk, Ready, i, dst) EXCEPT !.status[kk.current] = s])
  BY DEF do_wait
<1> DEFINE k1 == Move(kk, Ready, i, dst)
           k3 == [k1 EXCEPT !.status[kk.current] = s]
<1>2. kk.current \in Pids /\ kk.in \in [Pids -> ids \cup {NoQueue}]
  BY DEF Sound, KType
<1>3. /\ Sound(k1, ids, live)
      /\ k1.in = [kk.in EXCEPT ![kk.current] = dst]
      /\ k1.panic = kk.panic
      /\ \A id \in ids : id # dst /\ kk.queue[id] = <<>> => k1.queue[id] = <<>>
  BY <1>1, MoveFacts
<1> HIDE DEF k1
<1>4. Sound(k3, ids, live) /\ k3.queue = k1.queue /\ k3.in = k1.in /\ k3.panic = k1.panic
  BY <1>2, <1>3, StatusFacts
<1>5. k2 \in scheduler(k3)
  BY <1>1 DEF k1
<1> HIDE DEF k3
<1>6. \A p \in live : p # kk.current => k3.in[p] = kk.in[p]
  BY <1>2, <1>3, <1>4, SoundTask
<1>7. Sound(k2, ids, live) /\ Switches(k3, k2, live)
  BY <1>4, <1>5, <1>6, SchedulerFacts
<1> QED BY <1>3, <1>4, <1>7 DEF Switches

\* The sleeper that check_sleeping wakes goes to the ready queue.
LEMMA CheckSleepingFacts ==
  ASSUME NEW ids, Ready \in ids, SleepQ \in ids, NEW live, NEW kk, Sound(kk, ids, live),
         NEW awake, NEW ticks,
         NEW k2 \in check_sleeping(kk, awake, ticks)
  PROVE  Sound(k2, ids, live) /\ Wakes(kk, k2, ids)
<1>1. CASE k2 = kk
  BY <1>1 DEF Wakes
<1>2. CASE k2 # kk
  <2>1. PICK i \in DOMAIN kk.queue[SleepQ] :
          k2 = [Move(kk, SleepQ, i, Ready) EXCEPT !.status[kk.current] = "READY"]
    BY <1>2 DEF check_sleeping
  <2> DEFINE k1 == Move(kk, SleepQ, i, Ready)
  <2>2. SleepQ # Ready
    BY DEF SleepQ, Ready
  <2>3. kk.current \in Pids /\ "READY" \in Statuses /\ kk.in \in [Pids -> ids \cup {NoQueue}]
    BY DEF Sound, KType, Statuses
  <2>4. /\ Sound(k1, ids, live)
        /\ k1.in = [kk.in EXCEPT ![kk.queue[SleepQ][i]] = Ready]
        /\ k1.current = kk.current /\ k1.panic = kk.panic
        /\ \A id \in ids : id # Ready /\ kk.queue[id] = <<>> => k1.queue[id] = <<>>
    BY <2>2, MoveFacts
  <2> HIDE DEF k1
  <2>5. /\ Sound(k2, ids, live) /\ k2.queue = k1.queue /\ k2.in = k1.in
        /\ k2.current = k1.current /\ k2.panic = k1.panic
    BY <2>1, <2>3, <2>4, StatusFacts DEF k1
  <2>6. \A p \in Pids : k2.in[p] = kk.in[p] \/ k2.in[p] = Ready
    BY <2>3, <2>4, <2>5
  <2> QED BY <2>4, <2>5, <2>6 DEF Wakes
<1> QED BY <1>1, <1>2

\* Wake, given queues q from which exactly the woken tasks have been taken.
LEMMA WakeFacts ==
  ASSUME NEW ids, Ready \in ids, NEW live, NEW kk, Sound(kk, ids, live),
         NEW q \in [ids -> Seq(Tasks)], NEW woken \in Seq(Tasks), NEW scanned,
         IsInjective(woken), ToSet(woken) \subseteq live,
         \A id \in ids : IsInjective(q[id]) /\ ToSet(q[id]) = ToSet(kk.queue[id]) \ ToSet(woken)
  PROVE  Sound(Wake(kk, q, woken, scanned), ids, live) /\ Wakes(kk, Wake(kk, q, woken, scanned), ids)
<1> DEFINE k2 == Wake(kk, q, woken, scanned)
           W == ToSet(woken)
           q2 == [q EXCEPT ![Ready] = q[Ready] \o woken]
           in2 == [x \in Pids |-> IF x \in W THEN Ready ELSE kk.in[x]]
           sta == [x \in Pids |-> IF x \in W THEN "READY" ELSE kk.status[x]]
           pri == [x \in Pids |-> IF x \in W THEN kk.scheduler_priority[x] + 1
                                  ELSE kk.scheduler_priority[x]]
           wai == [x \in Pids |-> IF x \in W THEN 0
                                  ELSE IF x \in scanned THEN kk.wait_time[x] + 1
                                  ELSE kk.wait_time[x]]
<1>1. kk \in KType(ids) /\ kk.queue \in [ids -> Seq(Tasks)] /\ Partitioned(kk.queue, kk.in, live)
  BY DEF Sound, KType
<1>2. k2 = [kk EXCEPT !.queue = q2, !.in = in2, !.status = sta,
                     !.scheduler_priority = pri, !.wait_time = wai]
  BY <1>1 DEF KType, Wake
<1>3. /\ in2 \in [Pids -> ids \cup {NoQueue}] /\ sta \in [Pids -> Statuses]
      /\ pri \in [Pids -> Nat] /\ wai \in [Pids -> Nat]
  BY <1>1 DEF KType, Statuses
<1>4. ToSet(q[Ready]) \cap W = {}
  OBVIOUS
<1>5. /\ q[Ready] \o woken \in Seq(Tasks) /\ IsInjective(q[Ready] \o woken)
      /\ ToSet(q[Ready] \o woken) = ToSet(q[Ready]) \cup W
  BY <1>4, ConcatSet
<1>6. q2 \in [ids -> Seq(Tasks)]
  BY <1>5
<1>7. Partitioned(q, kk.in, live \ W)
  <2> HIDE DEF W
  <2>1. \A id \in ids : IsInjective(q[id]) /\ ToSet(q[id]) = ToSet(kk.queue[id]) \ W
    BY DEF W
  <2> QED BY <1>1, <2>1, DropPartition
<1>8. Partitioned(q2, in2, live)
  <2>1. /\ \A id \in ids : id # Ready => q2[id] = q[id]
        /\ q2[Ready] = q[Ready] \o woken
        /\ DOMAIN q = ids /\ DOMAIN q2 = ids
    BY <1>6
  <2>2. \A x \in live : in2[x] = IF x \in W THEN Ready ELSE kk.in[x]
    BY SoundTask
  <2>3. W \subseteq live
    OBVIOUS
  <2> HIDE DEF q2, in2, W
  <2>4. \A id \in ids : \A x \in ToSet(q[id]) : x \in live /\ x \notin W /\ kk.in[x] = id
    BY <1>7, <2>1 DEF Partitioned
  <2>5. ASSUME NEW id \in ids
        PROVE  IsInjective(q2[id]) /\ \A x \in ToSet(q2[id]) : x \in live /\ in2[x] = id
    <3>1. CASE id = Ready
      BY <1>5, <2>1, <2>2, <2>3, <2>4, <3>1
    <3>2. CASE id # Ready
      BY <2>1, <2>2, <2>4, <3>2
    <3> QED BY <3>1, <3>2
  <2>6. ASSUME NEW x \in live
        PROVE  in2[x] \in ids /\ x \in ToSet(q2[in2[x]])
    <3>1. CASE x \in W
      BY <1>5, <2>1, <2>2, <3>1
    <3>2. CASE x \notin W
      <4>1. in2[x] = kk.in[x] /\ kk.in[x] \in ids /\ x \in ToSet(q[kk.in[x]])
        BY <1>7, <2>1, <2>2, <3>2 DEF Partitioned
      <4>2. CASE kk.in[x] = Ready
        BY <1>5, <2>1, <4>1, <4>2
      <4>3. CASE kk.in[x] # Ready
        BY <2>1, <4>1, <4>3
      <4> QED BY <4>2, <4>3
    <3> QED BY <3>1, <3>2
  <2> QED BY <2>1, <2>5, <2>6 DEF Partitioned
<1>9. ASSUME NEW id \in ids, id # Ready, kk.queue[id] = <<>>
      PROVE  q2[id] = <<>>
  <2>1. q2[id] = q[id]
    BY <1>9
  <2>2. ToSet(q[id]) = {}
    BY <1>9, EmptySet
  <2> QED BY <2>1, <2>2, NoElements
<1>10. \A p \in Pids : in2[p] = kk.in[p] \/ in2[p] = Ready
  OBVIOUS
<1> HIDE DEF k2, q2, in2, sta, pri, wai
<1>11. /\ k2 \in KType(ids) /\ k2.queue = q2 /\ k2.in = in2
       /\ k2.current = kk.current /\ k2.panic = kk.panic
  BY <1>1, <1>2, <1>3, <1>6 DEF KType
<1> QED BY <1>8, <1>9, <1>10, <1>11 DEF Sound, Wakes, k2

\* do_unblock_one wakes at most one task.
LEMMA UnblockOneFacts ==
  ASSUME NEW ids, Ready \in ids, NEW live, NEW kk, Sound(kk, ids, live),
         NEW src \in ids, NEW prio,
         NEW k2 \in do_unblock_one(kk, src, prio)
  PROVE  Sound(k2, ids, live) /\ Wakes(kk, k2, ids)
<1>1. CASE k2 = kk
  BY <1>1 DEF Wakes
<1>2. CASE k2 # kk
  <2> DEFINE s == kk.queue[src]
             q(i) == [kk.queue EXCEPT ![src] = RemoveAt(s, i)]
  <2>1. PICK i \in DOMAIN s : k2 = Wake(kk, q(i), <<s[i]>>, ToSet(s))
    BY <1>2 DEF do_unblock_one, SelectedIn
  <2>2. kk.queue \in [ids -> Seq(Tasks)]
    BY DEF Sound, KType
  <2>3. s[i] \in ToSet(s)
    BY DEF ToSet
  <2>4. s[i] \in live /\ s[i] \in Tasks /\ kk.in[s[i]] = src
    BY <2>3, SoundQueue
  <2>5. /\ RemoveAt(s, i) \in Seq(Tasks) /\ IsInjective(RemoveAt(s, i))
        /\ ToSet(RemoveAt(s, i)) = ToSet(s) \ {s[i]}
    BY SoundQueue, RemoveAtSet
  <2>6. q(i) \in [ids -> Seq(Tasks)]
    BY <2>2, <2>5
  <2> DEFINE woken == <<s[i]>>
  <2>7. woken \in Seq(Tasks) /\ IsInjective(woken) /\ ToSet(woken) = {s[i]}
    BY <2>4, OneSet
  <2>8. ASSUME NEW id \in ids
        PROVE  IsInjective(q(i)[id]) /\ ToSet(q(i)[id]) = ToSet(kk.queue[id]) \ ToSet(woken)
    <3>1. CASE id = src
      BY <2>2, <2>5, <2>7, <3>1
    <3>2. CASE id # src
      <4>1. q(i)[id] = kk.queue[id] /\ IsInjective(kk.queue[id]) /\ s[i] \notin ToSet(kk.queue[id])
        BY <2>2, <2>4, <3>2, SoundQueue
      <4> HIDE DEF woken, q, s
      <4> QED BY <2>7, <4>1
    <3> QED BY <3>1, <3>2
  <2>9. ToSet(woken) \subseteq live /\ k2 = Wake(kk, q(i), woken, ToSet(s))
    BY <2>1, <2>4, <2>7
  <2> HIDE DEF woken, q, s
  <2> QED BY <2>6, <2>7, <2>8, <2>9, WakeFacts
<1> QED BY <1>1, <1>2

\* do_unblock_all wakes all tasks of a queue.
LEMMA UnblockAllFacts ==
  ASSUME NEW ids, Ready \in ids, NEW live, NEW kk, Sound(kk, ids, live),
         NEW src \in ids
  PROVE  /\ Sound(do_unblock_all(kk, src), ids, live)
         /\ Wakes(kk, do_unblock_all(kk, src), ids)
<1> DEFINE q == [kk.queue EXCEPT ![src] = <<>>]
           woken == kk.queue[src]
<1>1. kk.queue \in [ids -> Seq(Tasks)]
  BY DEF Sound, KType
<1>2. q \in [ids -> Seq(Tasks)] /\ woken \in Seq(Tasks) /\ IsInjective(woken)
  BY <1>1, SoundQueue
<1>3. ToSet(woken) \subseteq live
  BY SoundQueue
<1>4. ASSUME NEW id \in ids
      PROVE  IsInjective(q[id]) /\ ToSet(q[id]) = ToSet(kk.queue[id]) \ ToSet(woken)
  <2>1. CASE id = src
    <3>1. q[id] = <<>> /\ kk.queue[id] = woken
      BY <1>1, <2>1
    <3> QED BY <3>1, EmptySet
  <2>2. CASE id # src
    <3>1. q[id] = kk.queue[id] /\ IsInjective(kk.queue[id])
      BY <1>1, <2>2, SoundQueue
    <3>2. \A x \in ToSet(kk.queue[id]) : x \notin ToSet(woken)
      BY <2>2, SoundQueue
    <3> QED BY <3>1, <3>2
  <2> QED BY <2>1, <2>2
<1> DEFINE none == {}
<1>5. do_unblock_all(kk, src) = Wake(kk, q, woken, none)
  BY DEF do_unblock_all
<1> HIDE DEF q, woken, none
<1>6. \A id \in ids : IsInjective(q[id]) /\ ToSet(q[id]) = ToSet(kk.queue[id]) \ ToSet(woken)
  BY <1>4
<1>7. Sound(Wake(kk, q, woken, none), ids, live) /\ Wakes(kk, Wake(kk, q, woken, none), ids)
  BY <1>2, <1>3, <1>6, WakeFacts
<1> QED BY <1>5, <1>7

-----------------------------------------------------------------------------
\* How long the operators leave the queues, and whom they wake.

\* Outside the ready queue and the queues S, every queue is as it was.
Keeps(kk, k2, ids, S) == \A id \in ids : id # Ready /\ id \notin S => k2.queue[id] = kk.queue[id]

\* Move lengthens dst by one task and touches only src and dst.
LEMMA MoveQueues ==
  ASSUME NEW ids, NEW kk \in KType(ids), NEW src \in ids, NEW dst \in ids, src # dst,
         NEW i \in DOMAIN kk.queue[src]
  PROVE  /\ Len(Move(kk, src, i, dst).queue[dst]) = Len(kk.queue[dst]) + 1
         /\ \A id \in ids : id # src /\ id # dst =>
                            Move(kk, src, i, dst).queue[id] = kk.queue[id]
         /\ Move(kk, src, i, dst).scheduler_priority = kk.scheduler_priority
<1> DEFINE p == kk.queue[src][i]
           q == kk.queue
           q1 == [q EXCEPT ![src] = RemoveAt(q[src], i)]
           q2 == [q1 EXCEPT ![dst] = Append(q[dst], p)]
           in2 == [kk.in EXCEPT ![p] = dst]
<1>1. q \in [ids -> Seq(Tasks)] /\ p \in Tasks /\ q[dst] \in Seq(Tasks)
  BY DEF KType
<1>2. Move(kk, src, i, dst) = [kk EXCEPT !.queue = q2, !.in = in2]
  BY <1>1 DEF Move, KType
<1>3. q2[dst] = Append(q[dst], p) /\ \A id \in ids : id # src /\ id # dst => q2[id] = q[id]
  BY <1>1
<1>4. Len(Append(q[dst], p)) = Len(q[dst]) + 1
  BY <1>1
<1> HIDE DEF q2, in2
<1>5. /\ Move(kk, src, i, dst).queue = q2
      /\ Move(kk, src, i, dst).scheduler_priority = kk.scheduler_priority
  BY <1>2 DEF KType
<1> QED BY <1>3, <1>4, <1>5

\* do_wait lengthens dst by one task and touches no other queue but the ready
\* queue.
LEMMA DoWaitQueues ==
  ASSUME NEW ids, Ready \in ids, NEW live, NEW kk, Sound(kk, ids, live),
         NEW dst \in ids, dst # Ready, NEW s \in Statuses,
         \E p \in live : p # kk.current /\ kk.in[p] = Ready,
         NEW k2 \in do_wait(kk, dst, s)
  PROVE  Len(k2.queue[dst]) = Len(kk.queue[dst]) + 1 /\ Keeps(kk, k2, ids, {dst})
<1>1. PICK i \in DOMAIN kk.queue[Ready] :
        /\ kk.queue[Ready][i] = kk.current
        /\ k2 \in scheduler([Move(kk, Ready, i, dst) EXCEPT !.status[kk.current] = s])
  BY DEF do_wait
<1> DEFINE k1 == Move(kk, Ready, i, dst)
           k3 == [k1 EXCEPT !.status[kk.current] = s]
<1>2. kk \in KType(ids) /\ kk.current \in Pids /\ kk.in \in [Pids -> ids \cup {NoQueue}]
  BY DEF Sound, KType
<1>3. /\ Sound(k1, ids, live)
      /\ k1.in = [kk.in EXCEPT ![kk.queue[Ready][i]] = dst]
  BY MoveFacts
<1>4. /\ Len(k1.queue[dst]) = Len(kk.queue[dst]) + 1
      /\ \A id \in ids : id # Ready /\ id # dst => k1.queue[id] = kk.queue[id]
  BY <1>2, MoveQueues
<1> HIDE DEF k1
<1>5. Sound(k3, ids, live) /\ k3.queue = k1.queue /\ k3.in = k1.in
  BY <1>2, <1>3, StatusFacts
<1>6. k2 \in scheduler(k3)
  BY <1>1 DEF k1
<1> HIDE DEF k3
<1>7. \A p \in live : p # kk.current => k3.in[p] = kk.in[p]
  BY <1>1, <1>2, <1>3, <1>5, SoundTask
<1>8. Switches(k3, k2, live)
  BY <1>5, <1>6, <1>7, SchedulerFacts
<1> QED BY <1>4, <1>5, <1>8 DEF Switches, Keeps

\* check_sleeping touches only the sleepers and the ready queue.
LEMMA CheckSleepingQueues ==
  ASSUME NEW ids, Ready \in ids, SleepQ \in ids, NEW kk \in KType(ids),
         NEW awake, NEW ticks,
         NEW k2 \in check_sleeping(kk, awake, ticks)
  PROVE  Keeps(kk, k2, ids, {SleepQ})
<1>1. CASE k2 = kk
  BY <1>1 DEF Keeps
<1>2. CASE k2 # kk
  <2>1. PICK i \in DOMAIN kk.queue[SleepQ] :
          k2 = [Move(kk, SleepQ, i, Ready) EXCEPT !.status[kk.current] = "READY"]
    BY <1>2 DEF check_sleeping
  <2> DEFINE k1 == Move(kk, SleepQ, i, Ready)
  <2>2. SleepQ # Ready
    BY DEF SleepQ, Ready
  <2>3. \A id \in ids : id # SleepQ /\ id # Ready => k1.queue[id] = kk.queue[id]
    BY <2>2, MoveQueues
  <2>4. k2.queue = k1.queue
    BY <2>1 DEF Move, KType
  <2> HIDE DEF k1
  <2> QED BY <2>3, <2>4 DEF Keeps
<1> QED BY <1>1, <1>2

\* What Wake does to the fields of kk.
Woken(kk, k2, ids, q, woken) ==
  /\ k2.in = [x \in Pids |-> IF x \in ToSet(woken) THEN Ready ELSE kk.in[x]]
  /\ k2.scheduler_priority =
       [x \in Pids |-> IF x \in ToSet(woken) THEN kk.scheduler_priority[x] + 1
                       ELSE kk.scheduler_priority[x]]
  /\ k2.current = kk.current
  /\ \A id \in ids : id # Ready => k2.queue[id] = q[id]

\* Wake, field by field.
LEMMA WakeFields ==
  ASSUME NEW ids, Ready \in ids, NEW kk \in KType(ids), NEW q \in [ids -> Seq(Tasks)],
         NEW woken, NEW scanned
  PROVE  Woken(kk, Wake(kk, q, woken, scanned), ids, q, woken)
<1> DEFINE k2 == Wake(kk, q, woken, scanned)
           q2 == [q EXCEPT ![Ready] = q[Ready] \o woken]
           in2 == [x \in Pids |-> IF x \in ToSet(woken) THEN Ready ELSE kk.in[x]]
           sta == [x \in Pids |-> IF x \in ToSet(woken) THEN "READY" ELSE kk.status[x]]
           pri == [x \in Pids |-> IF x \in ToSet(woken) THEN kk.scheduler_priority[x] + 1
                                  ELSE kk.scheduler_priority[x]]
           wai == [x \in Pids |-> IF x \in ToSet(woken) THEN 0
                                  ELSE IF x \in scanned THEN kk.wait_time[x] + 1
                                  ELSE kk.wait_time[x]]
<1>1. k2 = [kk EXCEPT !.queue = q2, !.in = in2, !.status = sta,
                     !.scheduler_priority = pri, !.wait_time = wai]
  BY DEF KType, Wake
<1>2. \A id \in ids : id # Ready => q2[id] = q[id]
  OBVIOUS
<1> HIDE DEF k2, q2, in2, sta, pri, wai
<1>3. k2.queue = q2 /\ k2.in = in2 /\ k2.scheduler_priority = pri /\ k2.current = kk.current
  BY <1>1 DEF KType
<1> QED BY <1>2, <1>3 DEF Woken, k2, in2, pri

\* One of those who were in src is ready afterwards.
ReadyOne(kk, k2, src) == \E p \in ToSet(kk.queue[src]) : k2.in[p] = Ready

\* do_unblock_one takes one task from a queue that has any, and that task is
\* ready afterwards.
LEMMA UnblockOneQueues ==
  ASSUME NEW ids, Ready \in ids, NEW live, NEW kk, Sound(kk, ids, live),
         NEW src \in ids, src # Ready, NEW prio,
         NEW k2 \in do_unblock_one(kk, src, prio)
  PROVE  /\ Keeps(kk, k2, ids, {src})
         /\ kk.queue[src] = <<>> => k2 = kk
         /\ kk.queue[src] # <<>> => /\ Len(k2.queue[src]) = Len(kk.queue[src]) - 1
                                   /\ ReadyOne(kk, k2, src)
<1> DEFINE s == kk.queue[src]
<1>1. CASE s = <<>>
  BY <1>1 DEF do_unblock_one, Keeps
<1>2. CASE s # <<>>
  <2> DEFINE q(i) == [kk.queue EXCEPT ![src] = RemoveAt(s, i)]
  <2>1. PICK i \in DOMAIN s : k2 = Wake(kk, q(i), <<s[i]>>, ToSet(s))
    BY <1>2 DEF do_unblock_one, SelectedIn
  <2>2. kk \in KType(ids) /\ kk.queue \in [ids -> Seq(Tasks)] /\ s \in Seq(Tasks)
    BY DEF Sound, KType
  <2>3. s[i] \in ToSet(s)
    BY DEF ToSet
  <2>4. s[i] \in Tasks /\ s[i] \in Pids
    BY <2>3, SoundQueue, TaskNumAssumption DEF Tasks, Pids
  <2>5. RemoveAt(s, i) \in Seq(Tasks) /\ Len(RemoveAt(s, i)) = Len(s) - 1
    BY <2>2, RemoveAtFacts
  <2> DEFINE qi == q(i)
  <2>6. /\ qi \in [ids -> Seq(Tasks)] /\ qi[src] = RemoveAt(s, i)
        /\ \A id \in ids : id # src => qi[id] = kk.queue[id]
    BY <2>2, <2>5
  <2> DEFINE woken == <<s[i]>>
  <2>7. ToSet(woken) = {s[i]}
    BY <2>4, OneSet
  <2>8. k2 = Wake(kk, qi, woken, ToSet(s))
    BY <2>1
  <2> HIDE DEF qi, woken, s
  <2>9. Woken(kk, k2, ids, qi, woken)
    BY <2>2, <2>6, <2>8, WakeFields
  <2>10. k2.in[s[i]] = Ready
    BY <2>4, <2>7, <2>9 DEF Woken
  <2> QED BY <1>2, <2>3, <2>5, <2>6, <2>9, <2>10 DEF Keeps, Woken, ReadyOne, s
<1> QED BY <1>1, <1>2

\* do_unblock_all empties the queue.
LEMMA UnblockAllQueues ==
  ASSUME NEW ids, Ready \in ids, NEW kk \in KType(ids), NEW src \in ids, src # Ready
  PROVE  /\ Keeps(kk, do_unblock_all(kk, src), ids, {src})
         /\ do_unblock_all(kk, src).queue[src] = <<>>
<1> DEFINE q == [kk.queue EXCEPT ![src] = <<>>]
           none == {}
           woken == kk.queue[src]
<1>1. /\ q \in [ids -> Seq(Tasks)] /\ q[src] = <<>>
      /\ \A id \in ids : id # src => q[id] = kk.queue[id]
  BY DEF KType
<1> DEFINE k2 == do_unblock_all(kk, src)
<1>2. k2 = Wake(kk, q, woken, none)
  BY DEF do_unblock_all
<1> HIDE DEF q, none, woken, k2
<1>3. Woken(kk, k2, ids, q, woken)
  BY <1>1, <1>2, WakeFields
<1> QED BY <1>1, <1>3 DEF Keeps, Woken, k2

-----------------------------------------------------------------------------
\* The dynamic priority.

\* scheduler_priority is positive and stays within c: strictly below it except
\* for a task that is ready and not running.
Within(kk, c, p) ==
  /\ 1 <= kk.scheduler_priority[p]
  /\ kk.scheduler_priority[p] <= IF kk.in[p] = Ready /\ p # kk.current THEN c[p] ELSE c[p] - 1

Bounded(kk, live, c) == \A p \in live : Within(kk, c, p)

\* A bound on scheduler_priority for which Spend makes room.
Ceilings(c) == c \in [Pids -> Nat] /\ \A p \in Pids : c[p] >= 2

\* SwitchTo spends one unit of the priority of the task it selects.
LEMMA SwitchToPriority ==
  ASSUME NEW ids, Ready \in ids, NEW kk \in KType(ids), NEW i \in DOMAIN kk.queue[Ready]
  PROVE  SwitchTo(kk, i).scheduler_priority =
           [kk.scheduler_priority EXCEPT ![kk.queue[Ready][i]] = Spend(@)]
<1> DEFINE pri == [kk.scheduler_priority EXCEPT ![kk.queue[Ready][i]] = Spend(@)]
<1>1. SwitchTo(kk, i).scheduler_priority = pri
  BY DEF SwitchTo, KType
<1> QED BY <1>1

\* scheduler() keeps the bound: the selected task has spent what it gained.
LEMMA SchedulerBounded ==
  ASSUME NEW ids, Ready \in ids, NEW live, NEW kk, Sound(kk, ids, live),
         \E p \in live : kk.in[p] = Ready, NEW k2 \in scheduler(kk),
         NEW c, Ceilings(c), Bounded(kk, live, c)
  PROVE  Bounded(k2, live, c)
<1>1. kk \in KType(ids) /\ kk.scheduler_priority \in [Pids -> Nat]
  BY DEF Sound, KType
<1>2. kk.queue[Ready] # <<>>
  <2>1. PICK p \in live : p \in ToSet(kk.queue[Ready])
    BY SoundTask
  <2> QED BY <2>1, EmptySet
<1>3. PICK i \in DOMAIN kk.queue[Ready] : k2 = SwitchTo(kk, i)
  BY <1>2 DEF scheduler, SelectedIn
<1> DEFINE t == kk.queue[Ready][i]
<1>4. k2.scheduler_priority = [kk.scheduler_priority EXCEPT ![t] = Spend(@)]
  BY <1>1, <1>3, SwitchToPriority
<1>5. k2.in = kk.in /\ k2.current = t
  BY <1>1, <1>3, SwitchToType
<1> HIDE DEF t
<1>6. ASSUME NEW p \in live
      PROVE  Within(k2, c, p)
  <2>1. p \in Pids /\ c[p] \in Nat /\ c[p] >= 2 /\ kk.scheduler_priority[p] \in Nat
    BY <1>1, SoundTask DEF Ceilings
  <2>2. Within(kk, c, p)
    BY DEF Bounded
  <2>3. CASE p = t
    <3>1. k2.scheduler_priority[p] = Spend(kk.scheduler_priority[p])
      BY <1>1, <1>4, <2>1, <2>3
    <3> QED BY <1>5, <2>1, <2>2, <2>3, <3>1 DEF Spend, Within
  <2>4. CASE p # t
    <3>1. k2.scheduler_priority[p] = kk.scheduler_priority[p]
      BY <1>1, <1>4, <2>1, <2>4
    <3> QED BY <1>5, <2>1, <2>2, <2>4, <3>1 DEF Within
  <2> QED BY <2>3, <2>4
<1> QED BY <1>6 DEF Bounded

\* Waking tasks that were not ready keeps the bound.
LEMMA WokenBounded ==
  ASSUME NEW ids, NEW live, NEW kk, Sound(kk, ids, live), NEW k2, NEW q, NEW woken,
         Woken(kk, k2, ids, q, woken),
         \A p \in ToSet(woken) : kk.in[p] # Ready /\ p # kk.current,
         NEW c, Ceilings(c), Bounded(kk, live, c)
  PROVE  Bounded(k2, live, c)
<1>1. kk.scheduler_priority \in [Pids -> Nat]
  BY DEF Sound, KType
<1>2. ASSUME NEW p \in live
      PROVE  Within(k2, c, p)
  <2>1. p \in Pids /\ c[p] \in Nat /\ kk.scheduler_priority[p] \in Nat
    BY <1>1, SoundTask DEF Ceilings
  <2>2. Within(kk, c, p)
    BY DEF Bounded
  <2>3. /\ k2.current = kk.current
        /\ k2.in[p] = IF p \in ToSet(woken) THEN Ready ELSE kk.in[p]
        /\ k2.scheduler_priority[p] = IF p \in ToSet(woken) THEN kk.scheduler_priority[p] + 1
                                      ELSE kk.scheduler_priority[p]
    BY <2>1 DEF Woken
  <2>4. CASE p \in ToSet(woken)
    BY <2>1, <2>2, <2>3, <2>4 DEF Within
  <2>5. CASE p \notin ToSet(woken)
    BY <2>2, <2>3, <2>5 DEF Within
  <2> QED BY <2>4, <2>5
<1> QED BY <1>2 DEF Bounded

\* A task that changes queue without a gain keeps the bound, be it
\* current_running that blocks or a sleeper that becomes ready.
LEMMA MoveBounded ==
  ASSUME NEW ids, NEW live, NEW kk, Sound(kk, ids, live), NEW src \in ids, NEW dst \in ids,
         src # dst, NEW i \in DOMAIN kk.queue[src],
         dst = Ready \/ kk.queue[src][i] = kk.current,
         NEW s \in Statuses, NEW k2,
         k2 = [Move(kk, src, i, dst) EXCEPT !.status[kk.current] = s],
         NEW c, Ceilings(c), Bounded(kk, live, c)
  PROVE  Bounded(k2, live, c)
<1> DEFINE k1 == Move(kk, src, i, dst)
           t == kk.queue[src][i]
<1>1. /\ kk \in KType(ids) /\ kk.current \in Pids /\ kk.in \in [Pids -> ids \cup {NoQueue}]
      /\ kk.scheduler_priority \in [Pids -> Nat]
  BY DEF Sound, KType
<1>2. Sound(k1, ids, live) /\ k1.in = [kk.in EXCEPT ![t] = dst] /\ k1.current = kk.current
  BY MoveFacts
<1>3. k1.scheduler_priority = kk.scheduler_priority
  BY <1>1, MoveQueues
<1> HIDE DEF k1
<1>4. k2 = [k1 EXCEPT !.status[kk.current] = s]
  BY DEF k1
<1>5. k2.in = k1.in /\ k2.current = k1.current
  BY <1>2, <1>4 DEF Sound, KType
<1>6. k2.scheduler_priority = k1.scheduler_priority
  BY <1>2, <1>4 DEF Sound, KType
<1> HIDE DEF t
<1>7. ASSUME NEW p \in live
      PROVE  Within(k2, c, p)
  <2>1. p \in Pids /\ c[p] \in Nat /\ kk.scheduler_priority[p] \in Nat
    BY <1>1, SoundTask DEF Ceilings
  <2>2. Within(kk, c, p)
    BY DEF Bounded
  <2>3. k2.in[p] = IF p = t THEN dst ELSE kk.in[p]
    BY <1>1, <1>2, <1>5, <2>1
  <2> QED BY <1>2, <1>3, <1>5, <1>6, <2>1, <2>2, <2>3 DEF t, Within
<1> QED BY <1>7 DEF Bounded

\* do_wait keeps the bound.
LEMMA DoWaitBounded ==
  ASSUME NEW ids, Ready \in ids, NEW live, NEW kk, Sound(kk, ids, live),
         NEW dst \in ids, dst # Ready, NEW s \in Statuses,
         \E p \in live : p # kk.current /\ kk.in[p] = Ready,
         NEW k2 \in do_wait(kk, dst, s),
         NEW c, Ceilings(c), Bounded(kk, live, c)
  PROVE  Bounded(k2, live, c)
<1>1. PICK i \in DOMAIN kk.queue[Ready] :
        /\ kk.queue[Ready][i] = kk.current
        /\ k2 \in scheduler([Move(kk, Ready, i, dst) EXCEPT !.status[kk.current] = s])
  BY DEF do_wait
<1> DEFINE k1 == Move(kk, Ready, i, dst)
           k3 == [k1 EXCEPT !.status[kk.current] = s]
<1>2. kk.current \in Pids /\ kk.in \in [Pids -> ids \cup {NoQueue}]
  BY DEF Sound, KType
<1>3. Sound(k1, ids, live) /\ k1.in = [kk.in EXCEPT ![kk.queue[Ready][i]] = dst]
  BY MoveFacts
<1>4. Bounded(k3, live, c)
  BY <1>1, MoveBounded
<1> HIDE DEF k1
<1>5. Sound(k3, ids, live) /\ k3.in = k1.in
  BY <1>2, <1>3, StatusFacts
<1>6. k2 \in scheduler(k3)
  BY <1>1 DEF k1
<1> HIDE DEF k3
<1>7. \A p \in live : p # kk.current => k3.in[p] = kk.in[p]
  BY <1>1, <1>2, <1>3, <1>5, SoundTask
<1> QED BY <1>4, <1>5, <1>6, <1>7, SchedulerBounded

\* check_sleeping keeps the bound.
LEMMA CheckSleepingBounded ==
  ASSUME NEW ids, Ready \in ids, SleepQ \in ids, NEW live, NEW kk, Sound(kk, ids, live),
         NEW awake, NEW ticks,
         NEW k2 \in check_sleeping(kk, awake, ticks),
         NEW c, Ceilings(c), Bounded(kk, live, c)
  PROVE  Bounded(k2, live, c)
<1>1. CASE k2 = kk
  BY <1>1
<1>2. CASE k2 # kk
  <2> DEFINE s == "READY"
             src == SleepQ
             dst == Ready
  <2>1. PICK i \in DOMAIN kk.queue[src] :
          k2 = [Move(kk, src, i, dst) EXCEPT !.status[kk.current] = s]
    BY <1>2 DEF check_sleeping
  <2>2. src \in ids /\ dst \in ids /\ src # dst /\ dst = Ready /\ s \in Statuses
    BY DEF SleepQ, Ready, Statuses
  <2> HIDE DEF s, src, dst
  <2>3. Bounded([Move(kk, src, i, dst) EXCEPT !.status[kk.current] = s], live, c)
    BY <2>2, MoveBounded
  <2> QED BY <2>1, <2>3
<1> QED BY <1>1, <1>2

\* do_unblock_one keeps the bound.
LEMMA UnblockOneBounded ==
  ASSUME NEW ids, Ready \in ids, NEW live, NEW kk, Sound(kk, ids, live),
         kk.current \in live => kk.in[kk.current] = Ready,
         NEW src \in ids, src # Ready, NEW prio,
         NEW k2 \in do_unblock_one(kk, src, prio),
         NEW c, Ceilings(c), Bounded(kk, live, c)
  PROVE  Bounded(k2, live, c)
<1> DEFINE s == kk.queue[src]
<1>1. CASE s = <<>>
  BY <1>1 DEF do_unblock_one
<1>2. CASE s # <<>>
  <2> DEFINE q(i) == [kk.queue EXCEPT ![src] = RemoveAt(s, i)]
  <2>1. PICK i \in DOMAIN s : k2 = Wake(kk, q(i), <<s[i]>>, ToSet(s))
    BY <1>2 DEF do_unblock_one, SelectedIn
  <2>2. kk \in KType(ids) /\ kk.queue \in [ids -> Seq(Tasks)] /\ s \in Seq(Tasks)
    BY DEF Sound, KType
  <2>3. s[i] \in ToSet(s)
    BY DEF ToSet
  <2>4. s[i] \in Tasks /\ s[i] \in live /\ kk.in[s[i]] = src
    BY <2>3, SoundQueue
  <2>5. RemoveAt(s, i) \in Seq(Tasks)
    BY <2>2, RemoveAtFacts
  <2> DEFINE qi == q(i)
             woken == <<s[i]>>
  <2>6. qi \in [ids -> Seq(Tasks)]
    BY <2>2, <2>5
  <2>7. ToSet(woken) = {s[i]}
    BY <2>4, OneSet
  <2>8. k2 = Wake(kk, qi, woken, ToSet(s))
    BY <2>1
  <2> HIDE DEF qi, woken, s
  <2>9. Woken(kk, k2, ids, qi, woken)
    BY <2>2, <2>6, <2>8, WakeFields
  <2>10. \A p \in ToSet(woken) : kk.in[p] # Ready /\ p # kk.current
    BY <2>4, <2>7
  <2> QED BY <2>9, <2>10, WokenBounded
<1> QED BY <1>1, <1>2

\* do_unblock_all keeps the bound.
LEMMA UnblockAllBounded ==
  ASSUME NEW ids, Ready \in ids, NEW live, NEW kk, Sound(kk, ids, live),
         kk.current \in live => kk.in[kk.current] = Ready,
         NEW src \in ids, src # Ready,
         NEW c, Ceilings(c), Bounded(kk, live, c)
  PROVE  Bounded(do_unblock_all(kk, src), live, c)
<1> DEFINE q == [kk.queue EXCEPT ![src] = <<>>]
           none == {}
           woken == kk.queue[src]
           k2 == do_unblock_all(kk, src)
<1>1. kk \in KType(ids) /\ q \in [ids -> Seq(Tasks)]
  BY DEF Sound, KType
<1>2. k2 = Wake(kk, q, woken, none)
  BY DEF do_unblock_all
<1>3. \A p \in ToSet(woken) : kk.in[p] # Ready /\ p # kk.current
  BY SoundQueue
<1> HIDE DEF q, none, woken, k2
<1>4. Woken(kk, k2, ids, q, woken)
  BY <1>1, <1>2, WakeFields
<1>5. Bounded(k2, live, c)
  BY <1>3, <1>4, WokenBounded
<1> QED BY <1>5 DEF k2

-----------------------------------------------------------------------------
\* A set of numbers has a least element: this is how induction is done here.
LEMMA LeastNat ==
  ASSUME NEW T, T \subseteq Nat, T # {}
  PROVE  \E x \in T : \A y \in T : x <= y
<1> DEFINE R == {ss \in Nat \X Nat : ss[1] < ss[2]}
<1>1. IsWellFoundedOn(R, Nat)
  BY NatLessThanWellFounded DEF OpToRel
<1>2. \A x, y \in Nat : x < y => <<x, y>> \in R
  OBVIOUS
<1> HIDE DEF R
<1>3. PICK x \in T : \A y \in T : ~ (<<y, x>> \in R)
  BY <1>1, WFMin
<1>4. ASSUME NEW y \in T PROVE x <= y
  <2>1. x \in Nat /\ y \in Nat
    OBVIOUS
  <2>2. ~ y < x
    BY <1>2, <1>3, <2>1
  <2> QED BY <2>1, <2>2
<1> QED BY <1>4

-----------------------------------------------------------------------------
\* The selection loop.

\* The accumulator before the first turn, and the loop's history.
ScanStart == [sel |-> 0, max_priority |-> 1, max_wait_time |-> 0]

IsScan(f, n, s, pri, wait) ==
  f = [i \in 0 .. n |-> IF i = 0 THEN ScanStart ELSE ScanStep(s, pri, wait, f[i - 1], i)]

\* Position j is not better than what a holds.
Matches(s, pri, wait, a, j) ==
  \/ pri[s[j]] < a.max_priority
  \/ pri[s[j]] = a.max_priority /\ wait[s[j]] <= a.max_wait_time

\* What the loop has found after i turns: its position is one of the first i
\* and the best of them.
Found(s, pri, wait, a, i) ==
  /\ a \in [sel : 0 .. i, max_priority : Nat, max_wait_time : Nat] /\ a.max_priority >= 1
  /\ i = 0 => a.max_priority = 1 /\ a.max_wait_time = 0
  /\ i > 0 => /\ a.sel > 0
              /\ a.max_priority = pri[s[a.sel]] /\ a.max_wait_time = wait[s[a.sel]]
  /\ \A j \in 1 .. i : Matches(s, pri, wait, a, j)

\* One turn of the loop.
LEMMA ScanStepFound ==
  ASSUME NEW s \in Seq(Pids), NEW pri \in [Pids -> Nat], NEW wait \in [Pids -> Nat],
         \A j \in DOMAIN s : pri[s[j]] >= 1,
         NEW i \in Nat, i + 1 \in DOMAIN s, NEW a, Found(s, pri, wait, a, i)
  PROVE  Found(s, pri, wait, ScanStep(s, pri, wait, a, i + 1), i + 1)
<1> DEFINE m == i + 1
           p == pri[s[m]]
           w == wait[s[m]]
           b == ScanStep(s, pri, wait, a, m)
<1>1. p \in Nat /\ w \in Nat /\ p >= 1 /\ m \in Nat
  OBVIOUS
<1>2. \A j \in 1 .. m : j \in 1 .. i \/ j = m
  OBVIOUS
<1>3. CASE p > a.max_priority \/ (p = a.max_priority /\ w >= a.max_wait_time)
  <2>1. b = [sel |-> m, max_priority |-> p, max_wait_time |-> w]
    <3>1. CASE p > a.max_priority
      BY <3>1, <1>1 DEF ScanStep
    <3>2. CASE p = a.max_priority /\ w >= a.max_wait_time
      BY <3>2, <1>1 DEF ScanStep, Found
    <3> QED BY <1>3, <3>1, <3>2
  <2>2. /\ b \in [sel : 0 .. m, max_priority : Nat, max_wait_time : Nat]
        /\ b.sel = m /\ b.max_priority = p /\ b.max_wait_time = w
    BY <1>1, <2>1
  <2>3. a.max_priority \in Nat /\ a.max_wait_time \in Nat
    BY DEF Found
  <2> HIDE DEF b
  <2>4. ASSUME NEW j \in 1 .. m
        PROVE  Matches(s, pri, wait, b, j)
    <3>1. pri[s[j]] \in Nat /\ wait[s[j]] \in Nat
      OBVIOUS
    <3>2. CASE j \in 1 .. i
      <4>1. Matches(s, pri, wait, a, j)
        BY <3>2 DEF Found
      <4>2. b.max_priority = p /\ b.max_wait_time = w
        BY <2>2
      <4> HIDE DEF p, w, m
      <4>3. \/ p > a.max_priority /\ pri[s[j]] <= a.max_priority
            \/ p = a.max_priority /\ w >= a.max_wait_time
        BY <1>3, <2>3, <3>1, <4>1 DEF Matches
      <4>4. CASE p > a.max_priority /\ pri[s[j]] <= a.max_priority
        <5>1. pri[s[j]] < p
          <6> DEFINE x == pri[s[j]]
                     y == a.max_priority
          <6>1. p \in Nat /\ x \in Nat /\ y \in Nat /\ p > y /\ x <= y
            BY <1>1, <2>3, <3>1, <4>4
          <6> HIDE DEF x, y
          <6>2. x < p
            BY <6>1
          <6> QED BY <6>2 DEF x
        <5> QED BY <4>2, <5>1 DEF Matches
      <4>5. CASE p = a.max_priority /\ w >= a.max_wait_time
        <5>0. w \in Nat
          BY <1>1
        <5>1. wait[s[j]] <= a.max_wait_time => wait[s[j]] <= w
          <6> DEFINE x == wait[s[j]]
                     y == a.max_wait_time
          <6>1. x \in Nat /\ y \in Nat /\ w >= y
            BY <2>3, <3>1, <4>5
          <6> HIDE DEF x, y
          <6>2. x <= y => x <= w
            BY <5>0, <6>1
          <6> QED BY <6>2 DEF x, y
        <5> QED BY <4>1, <4>2, <4>5, <5>1 DEF Matches
      <4> QED BY <4>3, <4>4, <4>5
    <3>3. CASE j = m
      BY <1>1, <2>2, <3>3 DEF Matches
    <3> QED BY <1>2, <3>2, <3>3
  <2>5. m # 0 /\ m > 0
    OBVIOUS
  <2>6. p = pri[s[m]] /\ w = wait[s[m]]
    OBVIOUS
  <2> HIDE DEF m, p, w
  <2>7. Found(s, pri, wait, b, m)
    BY <1>1, <2>2, <2>4, <2>5, <2>6 DEF Found
  <2> QED BY <2>7 DEF b, m
<1>4. CASE ~ (p > a.max_priority) /\ ~ (p = a.max_priority /\ w >= a.max_wait_time)
  <2>1. b = a
    BY <1>4 DEF ScanStep
  <2>2. i # 0
    BY <1>1, <1>4 DEF Found
  <2>3. /\ b \in [sel : 0 .. m, max_priority : Nat, max_wait_time : Nat]
        /\ b.sel > 0 /\ b.max_priority = pri[s[b.sel]] /\ b.max_wait_time = wait[s[b.sel]]
        /\ b.max_priority >= 1
    <3>1. /\ a \in [sel : 0 .. i, max_priority : Nat, max_wait_time : Nat]
          /\ a.sel > 0 /\ a.max_priority = pri[s[a.sel]] /\ a.max_wait_time = wait[s[a.sel]]
          /\ a.max_priority >= 1
      BY <2>2 DEF Found
    <3>2. a \in [sel : 0 .. m, max_priority : Nat, max_wait_time : Nat]
      BY <1>1, <3>1
    <3> QED BY <2>1, <3>1, <3>2
  <2> HIDE DEF b
  <2>4. ASSUME NEW j \in 1 .. m
        PROVE  Matches(s, pri, wait, b, j)
    <3>1. CASE j \in 1 .. i
      BY <2>1, <3>1 DEF Found
    <3>2. CASE j = m
      BY <1>1, <1>4, <2>1, <2>3, <3>2 DEF Matches
    <3> QED BY <1>2, <3>1, <3>2
  <2>5. m # 0
    OBVIOUS
  <2> HIDE DEF m
  <2>6. Found(s, pri, wait, b, m)
    BY <1>1, <2>3, <2>4, <2>5 DEF Found
  <2> QED BY <2>6 DEF b, m
<1> QED BY <1>3, <1>4

\* The loop has a history of any length.
LEMMA ScanExists ==
  ASSUME NEW s, NEW pri, NEW wait, NEW n \in Nat
  PROVE  \E f : IsScan(f, n, s, pri, wait)
<1> DEFINE T == {i \in Nat : ~ \E f : IsScan(f, i, s, pri, wait)}
<1> SUFFICES ASSUME T # {} PROVE FALSE
  OBVIOUS
<1>1. PICK m \in T : \A y \in T : m <= y
  <2>1. T \subseteq Nat
    OBVIOUS
  <2> HIDE DEF T
  <2> QED BY <2>1, LeastNat
<1>2. CASE m = 0
  <2> DEFINE f == [i \in 0 .. 0 |-> ScanStart]
  <2>1. f = [i \in 0 .. 0 |-> IF i = 0 THEN ScanStart ELSE ScanStep(s, pri, wait, f[i - 1], i)]
    OBVIOUS
  <2>2. IsScan(f, 0, s, pri, wait)
    BY <2>1, Zenon DEF IsScan
  <2> QED BY <1>2, <2>2
<1>3. CASE m # 0
  <2>1. m \in Nat /\ m - 1 \in Nat /\ m - 1 \notin T
    BY <1>1, <1>3
  <2>2. PICK f : IsScan(f, m - 1, s, pri, wait)
    BY <2>1
  <2> DEFINE last == ScanStep(s, pri, wait, f[m - 1], m)
             g == [i \in 0 .. m |-> IF i = m THEN last ELSE f[i]]
             step(i) == ScanStep(s, pri, wait, g[i - 1], i)
             h == [i \in 0 .. m |-> IF i = 0 THEN ScanStart ELSE step(i)]
  <2>3. ASSUME NEW i \in 0 .. m PROVE g[i] = IF i = 0 THEN ScanStart ELSE step(i)
    <3>1. CASE i = 0
      <4>1. f[0] = ScanStart
        BY <2>1, <2>2 DEF IsScan
      <4> QED BY <1>3, <2>1, <3>1, <4>1
    <3>2. CASE i # 0 /\ i # m
      <4>1. f[i] = ScanStep(s, pri, wait, f[i - 1], i)
        <5>1. i \in 0 .. m - 1
          BY <2>1, <3>2
        <5> QED BY <2>2, <3>2, <5>1 DEF IsScan
      <4>2. g[i] = f[i] /\ g[i - 1] = f[i - 1]
        BY <2>1, <3>2
      <4> QED BY <3>2, <4>1, <4>2
    <3>3. CASE i = m
      <4>1. g[m] = last /\ g[m - 1] = f[m - 1]
        BY <2>1
      <4> QED BY <1>3, <3>3, <4>1
    <3> QED BY <3>1, <3>2, <3>3
  <2>4. g = h
    BY <2>3
  <2>5. IsScan(g, m, s, pri, wait)
    BY <2>4, Zenon DEF IsScan
  <2> QED BY <2>5
<1> QED BY <1>2, <1>3

\* The history is right at every turn.
LEMMA ScanFound ==
  ASSUME NEW s \in Seq(Pids), NEW pri \in [Pids -> Nat], NEW wait \in [Pids -> Nat],
         \A j \in DOMAIN s : pri[s[j]] >= 1,
         NEW f, IsScan(f, Len(s), s, pri, wait)
  PROVE  Found(s, pri, wait, f[Len(s)], Len(s))
<1> DEFINE T == {i \in 0 .. Len(s) : ~ Found(s, pri, wait, f[i], i)}
<1>1. Len(s) \in Nat /\ DOMAIN s = 1 .. Len(s) /\ Len(s) \in 0 .. Len(s)
  OBVIOUS
<1> SUFFICES ASSUME T # {} PROVE FALSE
  BY <1>1
<1>2. PICK m \in T : \A y \in T : m <= y
  <2>1. T \subseteq Nat
    BY <1>1
  <2> HIDE DEF T
  <2> QED BY <2>1, LeastNat
<1>3. CASE m = 0
  <2>1. f[0] = ScanStart
    BY <1>1 DEF IsScan
  <2>2. Found(s, pri, wait, ScanStart, 0)
    BY DEF Found, ScanStart
  <2> QED BY <1>3, <2>1, <2>2
<1>4. CASE m # 0
  <2>1. m - 1 \in Nat /\ m - 1 \in 0 .. Len(s) /\ m \in DOMAIN s /\ m - 1 \notin T
    BY <1>1, <1>2, <1>4
  <2>2. PICK i \in Nat : i = m - 1
    BY <2>1
  <2>3. m = i + 1 /\ Found(s, pri, wait, f[i], i)
    BY <1>1, <2>1, <2>2
  <2>4. f[m] = ScanStep(s, pri, wait, f[m - 1], m)
    BY <1>1, <1>4, <2>1 DEF IsScan
  <2>5. Found(s, pri, wait, ScanStep(s, pri, wait, f[i], i + 1), i + 1)
    BY <2>1, <2>3, ScanStepFound
  <2> QED BY <2>2, <2>3, <2>4, <2>5
<1> QED BY <1>3, <1>4

\* The loop selects a task: one of the greatest priority and, among those, one
\* that has waited longest.
LEMMA SelectedBest ==
  ASSUME NEW s \in Seq(Pids), s # <<>>, NEW pri \in [Pids -> Nat], NEW wait \in [Pids -> Nat],
         \A j \in DOMAIN s : pri[s[j]] >= 1
  PROVE  LET i == Selected(s, pri, wait)
         IN  /\ i \in DOMAIN s
             /\ \A j \in DOMAIN s : \/ pri[s[j]] < pri[s[i]]
                                    \/ pri[s[j]] = pri[s[i]] /\ wait[s[j]] <= wait[s[i]]
<1> DEFINE f == CHOOSE f : f = [i \in 0 .. Len(s) |->
                             IF i = 0 THEN [sel |-> 0, max_priority |-> 1, max_wait_time |-> 0]
                             ELSE ScanStep(s, pri, wait, f[i - 1], i)]
           i == Selected(s, pri, wait)
<1>1. i = f[Len(s)].sel
  BY DEF Selected
<1>2. f = CHOOSE g : IsScan(g, Len(s), s, pri, wait)
  BY Zenon DEF IsScan, ScanStart
<1> HIDE DEF f, i
<1>3. Len(s) \in Nat /\ Len(s) > 0 /\ DOMAIN s = 1 .. Len(s)
  OBVIOUS
<1>4. IsScan(f, Len(s), s, pri, wait)
  BY <1>2, <1>3, ScanExists
<1>5. Found(s, pri, wait, f[Len(s)], Len(s))
  BY <1>4, ScanFound
<1>6. i \in DOMAIN s
  BY <1>1, <1>3, <1>5 DEF Found
<1>7. ASSUME NEW j \in DOMAIN s
      PROVE  \/ pri[s[j]] < pri[s[i]]
             \/ pri[s[j]] = pri[s[i]] /\ wait[s[j]] <= wait[s[i]]
  BY <1>1, <1>3, <1>5 DEF Found, Matches
<1> QED BY <1>6, <1>7 DEF i
-----------------------------------------------------------------------------

\* The part of the invariant about a scheduling state kk with the tasks `live`:
\* apart from the running task ...
KPart(kk, live) ==
  /\ Sound(kk, QueueIds, live)
  /\ kk.panic = 0
  /\ \A p \in Tasks : p \notin live => kk.queue[WaitQ(p)] = <<>>
  /\ Shell \in live /\ kk.in[Shell] = Ready

\* ... and with it.
KInv(kk, live) ==
  /\ KPart(kk, live)
  /\ kk.current # 0 => kk.current \in live /\ kk.in[kk.current] = Ready

\* The inductive invariant: the shell never leaves the ready queue, so that
\* there is always a task to run, and neither it nor main is ever in the middle
\* of a blocking call.
IInv ==
  /\ TypeOK
  /\ KInv(k, Live)
  /\ SlistShape(pid_list, MAX_TASK_NUM)
  /\ cont[0] = User /\ cont[Shell] = User

-----------------------------------------------------------------------------
\* Queues and continuations are told apart by their tags.

\* The tasks are the pids other than that of main, and the shell is one.
LEMMA TasksPids ==
  /\ \A p \in Tasks : p \in Pids /\ p # 0
  /\ 0 \in Pids /\ Shell \in Tasks /\ Shell \in Pids
  /\ \A p \in Pids : p # 0 => p \in Tasks
BY TaskNumAssumption DEF Tasks, Pids, Shell

\* Every queue of the model is in QueueIds.
LEMMA IdsFacts ==
  /\ Ready \in QueueIds /\ SleepQ \in QueueIds /\ RecvQ \in QueueIds
  /\ \A p \in Pids : WaitQ(p) \in QueueIds
  /\ \A x \in Locks : LockQ(x) \in QueueIds
  /\ \A x \in Sems : SemQ(x) \in QueueIds
  /\ \A x \in Conds : CondQ(x) \in QueueIds
  /\ \A x \in Barriers : BarrierQ(x) \in QueueIds
BY DEF QueueIds

\* Queues of different objects are different queues.
LEMMA IdsDistinct ==
  /\ SleepQ # Ready /\ RecvQ # Ready
  /\ \A p : WaitQ(p) # Ready /\ WaitQ(p) # SleepQ /\ WaitQ(p) # RecvQ
  /\ \A x : LockQ(x) # Ready /\ SemQ(x) # Ready /\ CondQ(x) # Ready /\ BarrierQ(x) # Ready
  /\ \A x, p : WaitQ(p) # LockQ(x) /\ WaitQ(p) # SemQ(x) /\ WaitQ(p) # CondQ(x)
               /\ WaitQ(p) # BarrierQ(x)
  /\ \A p, r : WaitQ(p) = WaitQ(r) => p = r
  /\ \A x, y : LockQ(x) = LockQ(y) => x = y
  /\ \A x : LockQ(x)[2] = x
BY DEF Ready, SleepQ, RecvQ, WaitQ, LockQ, SemQ, CondQ, BarrierQ

\* The continuations of the model are in Conts.
LEMMA ContsFacts ==
  /\ User \in Conts
  /\ \A x \in Locks : Entry(x) \in Conts /\ Loop(x) \in Conts
  /\ \A x : Entry(x) # User /\ Loop(x) # User
BY DEF Conts, User, Entry, Loop

-----------------------------------------------------------------------------
\* What a step does to the scheduling state.

\* A wake-up leaves the tasks accounted for and the shell ready.
LEMMA WakesKPart ==
  ASSUME NEW live, NEW k1, NEW k2, KPart(k1, live), Sound(k2, QueueIds, live),
         Wakes(k1, k2, QueueIds)
  PROVE  KPart(k2, live)
BY IdsFacts, IdsDistinct, TasksPids DEF KPart, Wakes

\* do_unblock_one and do_unblock_all preserve the invariant of the
\* scheduling state.
LEMMA WakesKInv ==
  ASSUME NEW live, NEW k1, NEW k2, KInv(k1, live), Sound(k2, QueueIds, live),
         Wakes(k1, k2, QueueIds)
  PROVE  KInv(k2, live)
<1>1. KPart(k2, live)
  BY WakesKPart DEF KInv
<1>2. k1.current \in Pids
  BY DEF KInv, KPart, Sound, KType
<1> QED BY <1>1, <1>2 DEF KInv, Wakes

\* scheduler preserves the invariant of the scheduling state.
LEMMA SchedulerKInv ==
  ASSUME NEW live, NEW k1, KPart(k1, live), NEW k2 \in scheduler(k1)
  PROVE  KInv(k2, live)
<1>1. Sound(k2, QueueIds, live) /\ Switches(k1, k2, live)
  BY IdsFacts, SchedulerFacts DEF KPart
<1> QED BY <1>1 DEF KInv, KPart, Switches

\* do_wait preserves it when the caller is not the shell.
LEMMA DoWaitKInv ==
  ASSUME NEW live, NEW k1, KInv(k1, live), k1.current # 0, k1.current # Shell,
         NEW dst \in QueueIds, dst # Ready, \A p \in Tasks : dst = WaitQ(p) => p \in live,
         NEW s \in Statuses, NEW k2 \in do_wait(k1, dst, s)
  PROVE  KInv(k2, live)
<1>1. Sound(k1, QueueIds, live) /\ Shell \in live /\ k1.in[Shell] = Ready /\ k1.panic = 0
  BY DEF KInv, KPart
<1>2. k1.in \in [Pids -> QueueIds \cup {NoQueue}]
  BY <1>1 DEF Sound, KType
<1>3. /\ Sound(k2, QueueIds, live)
      /\ k2.in = [k1.in EXCEPT ![k1.current] = dst]
      /\ k2.panic = k1.panic
      /\ k2.current \in live /\ k2.in[k2.current] = Ready
      /\ \A id \in QueueIds : id # dst /\ k1.queue[id] = <<>> => k2.queue[id] = <<>>
  BY <1>1, IdsFacts, DoWaitFacts
<1>4. k2.in[Shell] = Ready
  BY <1>1, <1>2, <1>3, TasksPids
<1>5. \A p \in Tasks : p \notin live => k2.queue[WaitQ(p)] = <<>>
  BY <1>3, IdsFacts, TasksPids DEF KInv, KPart
<1> QED BY <1>1, <1>3, <1>4, <1>5 DEF KInv, KPart

-----------------------------------------------------------------------------
\* kill.

\* The task that kill takes from its queue leaves the others partitioned.
LEMMA KillRemoveFacts ==
  ASSUME NEW live, Sound(k, QueueIds, live), NEW id \in QueueIds, NEW i \in DOMAIN k.queue[id],
         NEW pid, k.queue[id][i] = pid
  PROVE  /\ Sound(KillRemove(id, i), QueueIds, live \ {pid})
         /\ KillRemove(id, i).in = k.in
         /\ KillRemove(id, i).current = k.current
         /\ KillRemove(id, i).panic = k.panic
         /\ \A d \in QueueIds : k.queue[d] = <<>> => KillRemove(id, i).queue[d] = <<>>
<1> DEFINE q == k.queue
           q1 == [q EXCEPT ![id] = RemoveAt(q[id], i)]
           k1 == KillRemove(id, i)
<1>1. k \in KType(QueueIds) /\ q \in [QueueIds -> Seq(Tasks)] /\ Partitioned(q, k.in, live)
  BY DEF Sound, KType
<1>2. /\ RemoveAt(q[id], i) \in Seq(Tasks) /\ IsInjective(RemoveAt(q[id], i))
      /\ ToSet(RemoveAt(q[id], i)) = ToSet(q[id]) \ {pid}
  BY SoundQueue, RemoveAtSet
<1>3. pid \in ToSet(q[id])
  BY DEF ToSet
<1>4. \A d \in QueueIds : d # id => pid \notin ToSet(q[d])
  BY <1>3, SoundQueue
<1>5. q1 \in [QueueIds -> Seq(Tasks)]
  BY <1>1, <1>2
<1>6. \A d \in QueueIds : IsInjective(q1[d]) /\ ToSet(q1[d]) = ToSet(q[d]) \ {pid}
  BY <1>1, <1>2, <1>4, SoundQueue
<1>7. \A d \in QueueIds : q[d] = <<>> => q1[d] = <<>>
  BY <1>1
<1>8. k1 = [k EXCEPT !.queue = q1]
  BY <1>1 DEF KillRemove, KType
<1> HIDE DEF q1, k1
<1>9. Partitioned(q1, k.in, live \ {pid})
  BY <1>1, <1>5, <1>6, DropPartition
<1>10. /\ k1 \in KType(QueueIds) /\ k1.queue = q1 /\ k1.in = k.in
       /\ k1.current = k.current /\ k1.panic = k.panic
  BY <1>1, <1>5, <1>8 DEF KType
<1> QED BY <1>7, <1>9, <1>10 DEF Sound, k1

\* From k1 to k2, kill(pid) has woken one task of every lock it releases that
\* has one, none of them ready before, and has touched only the queues of locks,
\* the ready queue and the queue of pid.
KillWoke(k1, k2, pid, live) ==
  /\ \E q, woken : /\ Woken(k1, k2, QueueIds, q, woken)
                   /\ \A p \in ToSet(woken) : p \in live /\ k1.in[p] # Ready
  /\ \A x \in BlockedOn(k1, pid) : \E p \in ToSet(k1.queue[LockQ(x)]) : k2.in[p] = Ready
  /\ Keeps(k1, k2, QueueIds, {WaitQ(pid)} \cup {LockQ(x) : x \in Locks})

\* kill wakes one task of every lock it releases that has one, and all that
\* wait for the killed task.
LEMMA KillWakesFacts ==
  ASSUME NEW live, NEW k1, Sound(k1, QueueIds, live), NEW pid \in Pids,
         NEW k2 \in KillWakes(k1, pid)
  PROVE  /\ Sound(k2, QueueIds, live) /\ Wakes(k1, k2, QueueIds)
         /\ k2.queue[WaitQ(pid)] = <<>>
         /\ KillWoke(k1, k2, pid, live)
<1> DEFINE B == BlockedOn(k1, pid)
<1>1. PICK o \in Ordered(B), w \in Picks(k1, B) : k2 = KillWoken(k1, pid, B, o, w)
  BY DEF KillWakes
<1> DEFINE Q == k1.queue
           n == Cardinality(B)
           h == [i \in DOMAIN o |-> Q[LockQ(o[i])][w[o[i]]]]
           q == [id \in QueueIds |-> IF id = WaitQ(pid) THEN <<>>
                                     ELSE IF \E x \in B : id = LockQ(x)
                                          THEN RemoveAt(Q[id], w[id[2]])
                                     ELSE Q[id]]
           scanned == UNION {ToSet(Q[LockQ(x)]) : x \in B}
           all == Q[WaitQ(pid)]
           e(x) == Q[LockQ(x)][w[x]]
<1>2. B \subseteq Locks /\ B \subseteq TableLocks
  BY LocksAssumption DEF BlockedOn, Released, TableLocks, Locks
<1>3. n \in Nat
  <2>1. IsFiniteSet(TableLocks)
    BY LocksAssumption, FS_Interval DEF TableLocks
  <2> HIDE DEF B
  <2> QED BY <1>2, <2>1, FS_Subset, FS_CardinalityType
<1>4. k1 \in KType(QueueIds) /\ Q \in [QueueIds -> Seq(Tasks)]
  BY DEF Sound, KType
<1> HIDE DEF B
<1>5. /\ o \in [1 .. n -> B] /\ ToSet(o) = B
      /\ \A i, j \in DOMAIN o : i < j => o[i] < o[j]
  BY DEF Ordered
<1> HIDE DEF n
<1>6. \A x \in B : LockQ(x) \in QueueIds /\ w[x] \in DOMAIN Q[LockQ(x)] /\ e(x) \in ToSet(Q[LockQ(x)])
  BY <1>1, <1>2, IdsFacts DEF Picks, SelectedIn, ToSet
<1>7. \A x \in B : e(x) \in live /\ e(x) \in Tasks /\ k1.in[e(x)] = LockQ(x)
  BY <1>6, SoundQueue
<1>8. \A i, j \in DOMAIN o : o[i] = o[j] => i = j
  <2>1. \A i \in DOMAIN o : i \in Nat /\ o[i] \in Int
    <3>1. \A x \in B : x \in Int
      BY <1>2, LocksAssumption DEF TableLocks
    <3>2. \A i \in 1 .. n : i \in Nat
      BY <1>3
    <3> QED BY <1>5, <3>1, <3>2
  <2> QED BY <1>5, <2>1
<1>9. \A i \in DOMAIN o : o[i] \in B
  BY <1>5
<1>10. \A x \in B : \E i \in DOMAIN o : o[i] = x
  BY <1>5 DEF ToSet
<1>11. h \in Seq(Tasks) /\ DOMAIN h = DOMAIN o /\ \A i \in DOMAIN o : h[i] = e(o[i])
  <2>1. DOMAIN o = 1 .. n
    BY <1>5
  <2>2. \A i \in DOMAIN o : e(o[i]) \in Tasks
    BY <1>7, <1>9
  <2>3. h \in [1 .. n -> Tasks] /\ DOMAIN h = DOMAIN o /\ \A i \in DOMAIN o : h[i] = e(o[i])
    BY <2>1, <2>2
  <2> HIDE DEF h, e
  <2> QED BY <1>3, <2>3, SeqDef
<1> HIDE DEF h, q, all, e, Q, scanned
<1>12. IsInjective(h)
  BY <1>7, <1>8, <1>9, <1>11, IdsDistinct DEF IsInjective
<1>13. ToSet(h) = {e(x) : x \in B}
  BY <1>9, <1>10, <1>11 DEF ToSet
<1>14. /\ WaitQ(pid) \in QueueIds /\ all \in Seq(Tasks) /\ IsInjective(all)
       /\ \A p \in ToSet(all) : p \in live /\ k1.in[p] = WaitQ(pid)
  BY IdsFacts, SoundQueue DEF all, Q
<1>15. ToSet(h) \cap ToSet(all) = {}
  BY <1>7, <1>13, <1>14, IdsDistinct
<1> DEFINE woken == h \o all
<1>16. woken \in Seq(Tasks) /\ IsInjective(woken) /\ ToSet(woken) = ToSet(h) \cup ToSet(all)
  BY <1>11, <1>12, <1>14, <1>15, ConcatSet
<1> HIDE DEF woken
<1>17. ToSet(woken) \subseteq live
  BY <1>7, <1>13, <1>14, <1>16
<1>18. ASSUME NEW id \in QueueIds
       PROVE  /\ q[id] \in Seq(Tasks) /\ IsInjective(q[id])
              /\ ToSet(q[id]) = ToSet(Q[id]) \ ToSet(woken)
  <2>1. Q[id] \in Seq(Tasks) /\ IsInjective(Q[id]) /\ \A p \in ToSet(Q[id]) : k1.in[p] = id
    BY SoundQueue DEF Q
  <2>2. CASE id = WaitQ(pid)
    <3>1. q[id] = <<>> /\ Q[id] = all
      BY <2>2 DEF q, all
    <3> QED BY <1>16, <3>1, EmptySet
  <2>3. CASE id # WaitQ(pid) /\ \E x \in B : id = LockQ(x)
    <3>1. PICK x \in B : id = LockQ(x)
      BY <2>3
    <3>2. q[id] = RemoveAt(Q[id], w[x])
      BY <2>3, <3>1, IdsDistinct DEF q
    <3>3. /\ q[id] \in Seq(Tasks) /\ IsInjective(q[id])
          /\ ToSet(q[id]) = ToSet(Q[id]) \ {e(x)}
      BY <1>6, <2>1, <3>1, <3>2, RemoveAtSet DEF e
    <3>4. \A p \in ToSet(Q[id]) : p \in ToSet(woken) <=> p = e(x)
      <4>1. e(x) \in ToSet(woken)
        BY <1>13, <1>16
      <4>2. ASSUME NEW p \in ToSet(Q[id]), p \in ToSet(woken)
            PROVE  p = e(x)
        <5>1. k1.in[p] = LockQ(x) /\ LockQ(x) # WaitQ(pid)
          BY <2>1, <2>3, <3>1
        <5>2. p \in ToSet(h)
          BY <1>14, <1>16, <4>2, <5>1
        <5>3. PICK y \in B : p = e(y)
          BY <1>13, <5>2
        <5>4. LockQ(y) = LockQ(x)
          BY <1>7, <5>1, <5>3
        <5> QED BY <5>3, <5>4, IdsDistinct
      <4> QED BY <4>1, <4>2
    <3> QED BY <3>3, <3>4
  <2>4. CASE id # WaitQ(pid) /\ ~ \E x \in B : id = LockQ(x)
    <3>1. q[id] = Q[id]
      BY <2>4 DEF q
    <3>2. \A p \in ToSet(Q[id]) : p \notin ToSet(woken)
      BY <1>7, <1>13, <1>14, <1>16, <2>1, <2>4
    <3> QED BY <2>1, <3>1, <3>2
  <2> QED BY <2>2, <2>3, <2>4
<1>19. q \in [QueueIds -> Seq(Tasks)] /\ q[WaitQ(pid)] = <<>>
  <2>1. q = [id \in QueueIds |-> q[id]]
    BY DEF q
  <2>2. q[WaitQ(pid)] = <<>>
    BY <1>14 DEF q
  <2> QED BY <1>18, <2>1, <2>2
<1>20. k2 = Wake(k1, q, woken, scanned)
  BY <1>1 DEF KillWoken, woken, h, q, all, Q, scanned
<1>21. Sound(k2, QueueIds, live) /\ Wakes(k1, k2, QueueIds)
  BY <1>16, <1>17, <1>18, <1>19, <1>20, IdsFacts, WakeFacts DEF Q
<1>22. k2.queue[WaitQ(pid)] = q[WaitQ(pid)]
  <2> DEFINE id == WaitQ(pid)
  <2>1. id \in QueueIds /\ id # Ready /\ Ready \in QueueIds
    BY <1>14, IdsFacts, IdsDistinct
  <2> HIDE DEF id
  <2>2. k2.queue = [q EXCEPT ![Ready] = q[Ready] \o woken]
    BY <1>4, <1>20 DEF Wake, KType
  <2>3. k2.queue[id] = q[id]
    BY <1>19, <2>1, <2>2
  <2> QED BY <2>3 DEF id
<1>23. Woken(k1, k2, QueueIds, q, woken)
  BY <1>4, <1>19, <1>20, IdsFacts, WakeFields
<1>24. \A p \in ToSet(woken) : p \in live /\ k1.in[p] # Ready
  BY <1>7, <1>13, <1>14, <1>16, IdsDistinct
<1>25. \A x \in B : \E p \in ToSet(Q[LockQ(x)]) : k2.in[p] = Ready
  <2> SUFFICES ASSUME NEW x \in B PROVE k2.in[e(x)] = Ready
    BY <1>6
  <2>1. e(x) \in ToSet(woken) /\ e(x) \in Pids
    BY <1>7, <1>13, <1>16, TasksPids
  <2> QED BY <1>23, <2>1 DEF Woken
<1>26. Keeps(k1, k2, QueueIds, {WaitQ(pid)} \cup {LockQ(x) : x \in Locks})
  <2> SUFFICES ASSUME NEW id \in QueueIds, id # Ready, id # WaitQ(pid),
                      \A x \in Locks : id # LockQ(x)
               PROVE  k2.queue[id] = k1.queue[id]
    BY DEF Keeps
  <2>1. q[id] = Q[id]
    BY <1>2 DEF q
  <2> QED BY <1>23, <2>1 DEF Woken, Q
<1>27. KillWoke(k1, k2, pid, live)
  BY <1>23, <1>24, <1>25, <1>26 DEF KillWoke, B, Q
<1> QED BY <1>19, <1>21, <1>22, <1>27

-----------------------------------------------------------------------------
\* The steps.

\* TypeOK without the scheduling state.
RestType ==
  /\ pid_list \in SlistType(MAX_TASK_NUM)
  /\ priority \in [Pids -> Priorities \cup {0}]
  /\ awakened_time \in [Pids -> 0 .. TickMod - 1] /\ time_elapsed \in 0 .. TickMod - 1
  /\ lock_num \in [Pids -> Int] /\ cont \in [Pids -> Conts]
  /\ lock \in [Locks -> [status : {"LOCKED", "UNLOCKED"}, owner : Pids]]
  /\ sem \in [Sems -> Int] /\ cond \in [Conds -> Nat]
  /\ barrier \in [Barriers -> [goal : Nat \ {0}, arrived : Nat]]

\* Neither main nor the shell is inside a blocking call.
ContOK == cont[0] = User /\ cont[Shell] = User

PidsOK == SlistShape(pid_list, MAX_TASK_NUM)

\* IInv in the four parts the actions are checked against.
LEMMA IInvParts == IInv <=> KInv(k, Live) /\ RestType /\ PidsOK /\ ContOK
BY DEF IInv, TypeOK, RestType, PidsOK, ContOK, KInv, KPart, Sound

\* The same for the next state.
LEMMA IInvPartsNext == IInv' <=> KInv(k', Live') /\ RestType' /\ PidsOK' /\ ContOK'
BY DEF IInv, TypeOK, RestType, PidsOK, ContOK, KInv, KPart, Sound

\* Whoever makes a call that may block is neither main nor the shell.
LEMMA BlockingCaller ==
  ASSUME IInv, NEW name, Calls(name), name \notin {"spawn", "kill"}
  PROVE  k.current \in Pids /\ k.current # 0 /\ k.current # Shell
BY DEF Calls, IInv, TypeOK, KType

\* A step that leaves the list of pids alone.
LEMMA SameTasks ==
  ASSUME UNCHANGED pid_list
  PROVE  Live' = Live /\ (PidsOK => PidsOK')
BY DEF Live, PidsOK

\* irq_timer preserves IInv.
LEMMA TickIInv ==
  ASSUME IInv, Tick PROVE IInv'
<1>1. KInv(k, Live) /\ RestType /\ PidsOK /\ ContOK
  BY IInvParts
<1>2. PICK k1 \in check_sleeping(k, awakened_time, time_elapsed') : k' \in scheduler(k1)
  BY DEF Tick
<1>3. Sound(k1, QueueIds, Live) /\ Wakes(k, k1, QueueIds)
  BY <1>1, <1>2, IdsFacts, CheckSleepingFacts DEF KInv, KPart
<1>4. KPart(k1, Live)
  BY <1>1, <1>3, WakesKPart DEF KInv
<1>5. KInv(k', Live)
  BY <1>2, <1>4, SchedulerKInv
<1>6. time_elapsed' \in 0 .. TickMod - 1
  BY <1>1, ValuesAssumption DEF Tick, RestType
<1>7. RestType' /\ ContOK'
  BY <1>1, <1>6 DEF Tick, RestType, ContOK, taskVars, syncVars
<1>8. Live' = Live /\ PidsOK'
  BY <1>1, SameTasks DEF Tick, taskVars
<1> QED BY <1>5, <1>7, <1>8, IInvPartsNext

\* irq_mac preserves IInv.
LEMMA IrqMacIInv ==
  ASSUME IInv, IrqMac PROVE IInv'
<1>1. KInv(k, Live) /\ RestType /\ PidsOK /\ ContOK
  BY IInvParts
<1>2. Sound(k', QueueIds, Live) /\ Wakes(k, k', QueueIds)
  BY <1>1, IdsFacts, UnblockOneFacts DEF IrqMac, KInv, KPart
<1>3. KInv(k', Live)
  BY <1>1, <1>2, WakesKInv
<1>4. RestType' /\ ContOK'
  BY <1>1 DEF IrqMac, RestType, ContOK, taskVars, syncVars
<1>5. Live' = Live /\ PidsOK'
  BY <1>1, SameTasks DEF IrqMac, taskVars
<1> QED BY <1>3, <1>4, <1>5, IInvPartsNext

\* waitpid preserves IInv.
LEMMA WaitIInv ==
  ASSUME IInv, NEW pid \in Pids, Wait(pid) PROVE IInv'
<1>1. KInv(k, Live) /\ RestType /\ PidsOK /\ ContOK
  BY IInvParts
<1>2. k.current # 0 /\ k.current # Shell
  BY BlockingCaller DEF Wait
<1>3. pid \in Live
  BY TaskNumAssumption DEF Wait, Waitable, slist_is_valid, Live, Tasks, Pids
<1>4. KInv(k', Live)
  <2> DEFINE dst == WaitQ(pid)
             s == "WAITING"
  <2>1. dst \in QueueIds /\ dst # Ready /\ \A p \in Tasks : dst = WaitQ(p) => p \in Live
    BY <1>3, IdsFacts, IdsDistinct
  <2>2. s \in Statuses /\ k' \in do_wait(k, dst, s)
    BY DEF Wait, Statuses
  <2> HIDE DEF dst, s
  <2> QED BY <1>1, <1>2, <2>1, <2>2, DoWaitKInv
<1>5. RestType' /\ ContOK'
  BY <1>1 DEF Wait, RestType, ContOK, taskVars, syncVars
<1>6. Live' = Live /\ PidsOK'
  BY <1>1, SameTasks DEF Wait, taskVars
<1> QED BY <1>4, <1>5, <1>6, IInvPartsNext

\* do_sleep preserves IInv.
LEMMA SleepIInv ==
  ASSUME IInv, NEW t \in SleepTicks, do_sleep(t) PROVE IInv'
<1>1. KInv(k, Live) /\ RestType /\ PidsOK /\ ContOK
  BY IInvParts
<1>2. k.current # 0 /\ k.current # Shell /\ k.current \in Pids
  BY BlockingCaller DEF do_sleep
<1>3. KInv(k', Live)
  <2> DEFINE dst == SleepQ
             s == "SLEEPING"
  <2>1. dst \in QueueIds /\ dst # Ready /\ \A p \in Tasks : dst = WaitQ(p) => p \in Live
    BY IdsFacts, IdsDistinct
  <2>2. s \in Statuses /\ k' \in do_wait(k, dst, s)
    BY DEF do_sleep, Statuses
  <2> HIDE DEF dst, s
  <2> QED BY <1>1, <1>2, <2>1, <2>2, DoWaitKInv
<1>4. (time_elapsed + t) % TickMod \in 0 .. TickMod - 1
  BY <1>1, ValuesAssumption DEF RestType
<1>5. awakened_time' \in [Pids -> 0 .. TickMod - 1]
  BY <1>1, <1>4 DEF do_sleep, RestType, Current
<1>6. RestType' /\ ContOK'
  BY <1>1, <1>5 DEF do_sleep, RestType, ContOK, taskVars, syncVars
<1>7. Live' = Live /\ PidsOK'
  BY <1>1, SameTasks DEF do_sleep, taskVars
<1> QED BY <1>3, <1>6, <1>7, IInvPartsNext

\* do_wait_recv_package preserves IInv.
LEMMA RecvIInv ==
  ASSUME IInv, do_wait_recv_package PROVE IInv'
<1>1. KInv(k, Live) /\ RestType /\ PidsOK /\ ContOK
  BY IInvParts
<1>2. k.current # 0 /\ k.current # Shell
  BY BlockingCaller DEF do_wait_recv_package
<1>3. KInv(k', Live)
  <2> DEFINE dst == RecvQ
             s == "BLOCKED"
  <2>1. dst \in QueueIds /\ dst # Ready /\ \A p \in Tasks : dst = WaitQ(p) => p \in Live
    BY IdsFacts, IdsDistinct
  <2>2. s \in Statuses /\ k' \in do_wait(k, dst, s)
    BY DEF do_wait_recv_package, Statuses
  <2> HIDE DEF dst, s
  <2> QED BY <1>1, <1>2, <2>1, <2>2, DoWaitKInv
<1>4. RestType' /\ ContOK'
  BY <1>1 DEF do_wait_recv_package, RestType, ContOK, taskVars, syncVars
<1>5. Live' = Live /\ PidsOK'
  BY <1>1, SameTasks DEF do_wait_recv_package, taskVars
<1> QED BY <1>3, <1>4, <1>5, IInvPartsNext

\* A new task gets a pid that was free, so it is in no queue and nobody waits
\* for it yet.
LEMMA SpawnIInv ==
  ASSUME IInv, NEW pr \in Priorities, Spawn(pr) PROVE IInv'
<1> DEFINE pid == slist_alloc_ret(pid_list)
<1>1. KInv(k, Live) /\ RestType /\ PidsOK /\ ContOK
  BY IInvParts
<1>2. MAX_TASK_NUM \in Nat \ {0}
  BY TaskNumAssumption
<1>3. /\ slist_alloc(pid_list) \in SlistType(MAX_TASK_NUM)
      /\ SlistShape(slist_alloc(pid_list), MAX_TASK_NUM)
      /\ pid \in 0 .. MAX_TASK_NUM - 1
      /\ pid # 0 => /\ pid_list[pid].valid = 0
                    /\ \A i \in 1 .. MAX_TASK_NUM - 1 :
                         slist_alloc(pid_list)[i].valid = IF i = pid THEN 1 ELSE pid_list[i].valid
  BY <1>1, <1>2, AllocShape DEF RestType, PidsOK
<1>4. pid # 0
  BY DEF Spawn, slist_alloc_ret, slist_is_insufficient
<1>5. pid_list' = slist_alloc(pid_list)
  BY DEF Spawn
<1>6. pid \in Tasks /\ pid \in Pids /\ pid \notin Live /\ pid # Shell
  BY <1>1, <1>3, <1>4 DEF Tasks, Pids, Live, KInv, KPart
<1>7. Live' = Live \cup {pid}
  BY <1>3, <1>4, <1>5 DEF Live, Tasks
<1>8. PidsOK'
  BY <1>3, <1>5 DEF PidsOK
<1>9. k' = [k EXCEPT !.queue[WaitQ(pid)] = <<>>, !.queue[Ready] = Append(@, pid),
                     !.in[pid] = Ready, !.status[pid] = "READY",
                     !.scheduler_priority[pid] = pr, !.wait_time[pid] = 0]
  BY DEF Spawn
<1>10. priority' \in [Pids -> Priorities \cup {0}]
  BY <1>1, <1>6 DEF Spawn, RestType
<1>11. lock_num' \in [Pids -> Int] /\ cont' \in [Pids -> Conts] /\ ContOK'
  BY <1>1, <1>4, <1>6, ContsFacts DEF Spawn, RestType, ContOK
<1>12. RestType'
  BY <1>1, <1>3, <1>5, <1>10, <1>11 DEF Spawn, RestType, syncVars
<1> HIDE DEF pid
<1> DEFINE q == k.queue
           q2 == [q EXCEPT ![WaitQ(pid)] = <<>>, ![Ready] = Append(q[Ready], pid)]
           in2 == [k.in EXCEPT ![pid] = Ready]
           live2 == Live \cup {pid}
<1>13. k \in KType(QueueIds) /\ q \in [QueueIds -> Seq(Tasks)] /\ Sound(k, QueueIds, Live)
  BY <1>1 DEF KInv, KPart, Sound, KType
<1>14. q[WaitQ(pid)] = <<>>
  BY <1>1, <1>6 DEF KInv, KPart
<1>15. /\ Append(q[Ready], pid) \in Seq(Tasks) /\ IsInjective(Append(q[Ready], pid))
       /\ ToSet(Append(q[Ready], pid)) = ToSet(q[Ready]) \cup {pid}
  BY <1>6, <1>13, SoundQueue, IdsFacts, AppendSet
<1>16. /\ q2 \in [QueueIds -> Seq(Tasks)]
       /\ q2[Ready] = Append(q[Ready], pid)
       /\ \A id \in QueueIds : id # Ready => q2[id] = q[id]
  <2> DEFINE w == WaitQ(pid)
  <2>1. w # Ready /\ w \in QueueIds /\ Ready \in QueueIds /\ q[w] = <<>>
    BY <1>6, <1>14, IdsFacts, IdsDistinct
  <2> HIDE DEF w
  <2>2. q2 = [q EXCEPT ![w] = <<>>, ![Ready] = Append(q[Ready], pid)]
    BY DEF w
  <2> HIDE DEF q2
  <2> QED BY <1>13, <1>15, <2>1, <2>2
<1>17. /\ in2 \in [Pids -> QueueIds \cup {NoQueue}]
       /\ in2[pid] = Ready /\ \A x \in Pids : x # pid => in2[x] = k.in[x]
  BY <1>6, <1>13, IdsFacts DEF KType
<1>18. k' = [k EXCEPT !.queue = q2, !.in = in2, !.status = [k.status EXCEPT ![pid] = "READY"],
                      !.scheduler_priority = [k.scheduler_priority EXCEPT ![pid] = pr],
                      !.wait_time = [k.wait_time EXCEPT ![pid] = 0]]
  <2> DEFINE w == WaitQ(pid)
  <2>1. w # Ready
    BY IdsDistinct
  <2> HIDE DEF w
  <2> QED BY <1>9, <1>13, <2>1 DEF KType, w
<1> HIDE DEF q2, in2
<1>19. /\ k' \in KType(QueueIds) /\ k'.queue = q2 /\ k'.in = in2
       /\ k'.current = k.current /\ k'.panic = k.panic
  <2>1. /\ [k.status EXCEPT ![pid] = "READY"] \in [Pids -> Statuses]
        /\ [k.scheduler_priority EXCEPT ![pid] = pr] \in [Pids -> Nat]
        /\ [k.wait_time EXCEPT ![pid] = 0] \in [Pids -> Nat]
    BY <1>6, <1>13, ValuesAssumption DEF KType, Statuses
  <2> QED BY <1>13, <1>16, <1>17, <1>18, <2>1 DEF KType
<1>20. \A x \in Live : x \in Pids /\ x # pid /\ k.in[x] \in QueueIds /\ x \in ToSet(q[k.in[x]])
  BY <1>6, <1>13, SoundTask
<1>21. Partitioned(q2, in2, live2)
  <2>1. ASSUME NEW id \in QueueIds
        PROVE  IsInjective(q2[id]) /\ \A x \in ToSet(q2[id]) : x \in live2 /\ in2[x] = id
    <3>1. IsInjective(q[id]) /\ \A x \in ToSet(q[id]) : x \in Live /\ k.in[x] = id
      BY <1>13, SoundQueue
    <3>2. \A x \in ToSet(q[id]) : x \in live2 /\ in2[x] = id
      BY <1>17, <1>20, <3>1
    <3>3. CASE id = Ready
      BY <1>15, <1>16, <1>17, <3>2, <3>3
    <3>4. CASE id # Ready
      BY <1>16, <3>1, <3>2, <3>4
    <3> QED BY <3>3, <3>4
  <2>2. ASSUME NEW x \in live2
        PROVE  in2[x] \in QueueIds /\ x \in ToSet(q2[in2[x]])
    <3>1. CASE x = pid
      BY <1>15, <1>16, <1>17, <3>1, IdsFacts
    <3>2. CASE x # pid
      <4>1. in2[x] = k.in[x] /\ k.in[x] \in QueueIds /\ x \in ToSet(q[k.in[x]])
        BY <1>17, <1>20, <3>2
      <4>2. CASE k.in[x] = Ready
        BY <1>15, <1>16, <4>1, <4>2
      <4>3. CASE k.in[x] # Ready
        BY <1>16, <4>1, <4>3
      <4> QED BY <4>2, <4>3
    <3> QED BY <3>1, <3>2
  <2>3. DOMAIN q2 = QueueIds
    BY <1>16
  <2> QED BY <2>1, <2>2, <2>3 DEF Partitioned
<1>22. Sound(k', QueueIds, live2)
  BY <1>19, <1>21 DEF Sound
<1>23. \A p \in Tasks : p \notin live2 => k'.queue[WaitQ(p)] = <<>>
  BY <1>1, <1>16, <1>19, IdsFacts, IdsDistinct, TasksPids DEF KInv, KPart
<1>24. Shell \in live2 /\ k'.in[Shell] = Ready
  BY <1>1, <1>6, <1>17, <1>19, TasksPids DEF KInv, KPart
<1>25. k'.current # 0 => k'.current \in live2 /\ k'.in[k'.current] = Ready
  BY <1>1, <1>17, <1>19, <1>20 DEF KInv
<1>26. k'.panic = 0
  BY <1>1, <1>19 DEF KInv, KPart
<1>27. KInv(k', live2)
  BY <1>22, <1>23, <1>24, <1>25, <1>26 DEF KInv, KPart
<1> QED BY <1>7, <1>8, <1>11, <1>12, <1>27, IInvPartsNext

\* What a killed task leaves behind, for kill and exit alike.
LEMMA KillIInv ==
  ASSUME IInv, NEW pid \in Pids, kill(pid) PROVE IInv'
<1>1. KInv(k, Live) /\ RestType /\ PidsOK /\ ContOK
  BY IInvParts
<1>2. MAX_TASK_NUM \in Nat \ {0} /\ pid \in Int
  BY TaskNumAssumption DEF Pids
<1>3. pid # Shell /\ slist_is_valid(pid_list, pid, MAX_TASK_NUM)
  BY DEF kill, Killable
<1>4. /\ slist_free(pid_list, pid, MAX_TASK_NUM) \in SlistType(MAX_TASK_NUM)
      /\ SlistShape(slist_free(pid_list, pid, MAX_TASK_NUM), MAX_TASK_NUM)
      /\ \A i \in 1 .. MAX_TASK_NUM - 1 :
           slist_free(pid_list, pid, MAX_TASK_NUM)[i].valid =
             IF i = pid THEN 0 ELSE pid_list[i].valid
  BY <1>1, <1>2, FreeShape DEF RestType, PidsOK
<1>5. pid \in Live
  BY <1>3, TaskNumAssumption DEF slist_is_valid, Live, Tasks, Pids
<1>6. pid_list' = slist_free(pid_list, pid, MAX_TASK_NUM)
  BY DEF kill
<1> DEFINE rest == Live \ {pid}
<1>7. Live' = rest /\ PidsOK'
  BY <1>4, <1>6 DEF Live, Tasks, PidsOK
<1> DEFINE id == k.in[pid]
<1>8. Sound(k, QueueIds, Live) /\ id \in QueueIds
  BY <1>1, <1>5, SoundTask DEF KInv, KPart
<1>9. PICK i \in DOMAIN k.queue[id] :
        /\ k.queue[id][i] = pid
        /\ \E k1 \in KillWakes(KillRemove(id, i), pid) :
             k' \in IF pid = Current THEN scheduler(k1) ELSE {k1}
  BY DEF kill
<1> DEFINE k0 == KillRemove(id, i)
<1>10. PICK k1 \in KillWakes(k0, pid) : k' \in IF pid = Current THEN scheduler(k1) ELSE {k1}
  BY <1>9
<1>11. /\ Sound(k0, QueueIds, rest) /\ k0.in = k.in
       /\ k0.current = k.current /\ k0.panic = k.panic
       /\ \A d \in QueueIds : k.queue[d] = <<>> => k0.queue[d] = <<>>
  BY <1>8, <1>9, KillRemoveFacts
<1> HIDE DEF rest, id, k0
<1>12. /\ Sound(k1, QueueIds, rest) /\ Wakes(k0, k1, QueueIds)
       /\ k1.queue[WaitQ(pid)] = <<>>
  BY <1>10, <1>11, KillWakesFacts
<1>13. KPart(k1, rest)
  <2>1. ASSUME NEW p \in Tasks, p \notin rest
        PROVE  k1.queue[WaitQ(p)] = <<>>
    <3>1. CASE p = pid
      BY <1>12, <3>1
    <3>2. CASE p # pid
      <4>1. WaitQ(p) \in QueueIds /\ WaitQ(p) # Ready
        BY IdsFacts, IdsDistinct, TasksPids
      <4>2. k.queue[WaitQ(p)] = <<>>
        BY <1>1, <2>1, <3>2 DEF KInv, KPart, rest
      <4> QED BY <1>11, <1>12, <4>1, <4>2 DEF Wakes
    <3> QED BY <3>1, <3>2
  <2>2. Shell \in rest /\ k1.in[Shell] = Ready
    BY <1>1, <1>3, <1>11, <1>12, TasksPids DEF KInv, KPart, Wakes, rest
  <2>3. k1.panic = 0
    BY <1>1, <1>11, <1>12 DEF KInv, KPart, Wakes
  <2> QED BY <1>12, <2>1, <2>2, <2>3 DEF KPart
<1>14. KInv(k', rest)
  <2>1. CASE pid = Current
    BY <1>10, <1>13, <2>1, SchedulerKInv
  <2>2. CASE pid # Current
    <3>1. k' = k1
      BY <1>10, <2>2
    <3>2. k1.current = k.current /\ k.current \in Pids
      BY <1>8, <1>11, <1>12 DEF Wakes, Sound, KType
    <3>3. k1.current # 0 => k1.current \in rest /\ k1.in[k1.current] = Ready
      BY <1>1, <1>11, <1>12, <2>2, <3>2 DEF KInv, Wakes, Current, rest
    <3> QED BY <1>13, <3>1, <3>3 DEF KInv
  <2> QED BY <2>1, <2>2
<1>15. Cardinality(Released(pid)) \in Nat
  <2>1. IsFiniteSet(TableLocks) /\ Released(pid) \subseteq TableLocks
    BY LocksAssumption, FS_Interval DEF TableLocks, Released
  <2> QED BY <2>1, FS_Subset, FS_CardinalityType
<1>16. lock_num' \in [Pids -> Int]
  BY <1>1, <1>15 DEF kill, RestType
<1>17. lock' \in [Locks -> [status : {"LOCKED", "UNLOCKED"}, owner : Pids]]
  BY <1>1, TasksPids DEF kill, RestType
<1>18. RestType' /\ ContOK'
  BY <1>1, <1>4, <1>6, <1>16, <1>17 DEF kill, RestType, ContOK, syncVars
<1> QED BY <1>7, <1>14, <1>18, IInvPartsNext

\* The loop of do_mutex_lock_acquire, entered by a call or on resumption.
LEMMA AcquireLoopIInv ==
  ASSUME IInv, NEW x \in Locks, k.current # 0, k.current # Shell, AcquireLoop(x),
         UNCHANGED <<taskVars, awakened_time, syncVars, time_elapsed>>
  PROVE  IInv'
<1>1. KInv(k, Live) /\ RestType /\ PidsOK /\ ContOK
  BY IInvParts
<1>2. k.current \in Pids
  BY <1>1 DEF KInv, KPart, Sound, KType
<1>3. KInv(k', Live)
  <2>1. CASE k' = k
    BY <1>1, <2>1
  <2>2. CASE k' # k
    <3> DEFINE dst == LockQ(x)
               s == "BLOCKED"
    <3>1. dst \in QueueIds /\ dst # Ready /\ \A p \in Tasks : dst = WaitQ(p) => p \in Live
      BY IdsFacts, IdsDistinct
    <3>2. s \in Statuses /\ k' \in do_wait(k, dst, s)
      BY <2>2 DEF AcquireLoop, Statuses
    <3> HIDE DEF dst, s
    <3> QED BY <1>1, <3>1, <3>2, DoWaitKInv
  <2> QED BY <2>1, <2>2
<1>4. cont' \in [Pids -> Conts] /\ ContOK'
  BY <1>1, <1>2, ContsFacts, TasksPids DEF AcquireLoop, Current, RestType, ContOK
<1>5. lock_num' \in [Pids -> Int]
  BY <1>1, <1>2 DEF AcquireLoop, Current, RestType
<1>6. lock' \in [Locks -> [status : {"LOCKED", "UNLOCKED"}, owner : Pids]]
  BY <1>1, <1>2 DEF AcquireLoop, Current, RestType
<1>7. RestType'
  BY <1>1, <1>4, <1>5, <1>6 DEF RestType, taskVars, syncVars
<1>8. Live' = Live /\ PidsOK'
  BY <1>1, SameTasks DEF taskVars
<1> QED BY <1>3, <1>4, <1>7, <1>8, IInvPartsNext

\* do_mutex_lock_acquire preserves IInv.
LEMMA AcquireIInv ==
  ASSUME IInv, NEW x \in Locks, do_mutex_lock_acquire(x) PROVE IInv'
<1>1. k.current # 0 /\ k.current # Shell
  BY BlockingCaller DEF do_mutex_lock_acquire
<1> QED BY <1>1, AcquireLoopIInv DEF do_mutex_lock_acquire

\* The rest of do_mutex_lock_acquire after do_wait preserves IInv.
LEMMA ResumeIInv ==
  ASSUME IInv, NEW x \in Locks, Resume(x) PROVE IInv'
<1>1. KInv(k, Live) /\ RestType /\ PidsOK /\ ContOK
  BY IInvParts
<1>2. k.current \in Pids
  BY <1>1 DEF KInv, KPart, Sound, KType
<1>3. cont[k.current] # User
  BY ContsFacts DEF Resume, Current
<1>4. k.current # 0 /\ k.current # Shell
  BY <1>1, <1>3 DEF ContOK
<1>5. CASE AcquireLoop(x)
  BY <1>4, <1>5, AcquireLoopIInv DEF Resume
<1>6. CASE ~ AcquireLoop(x)
  <2>1. UNCHANGED <<k, lock, lock_num>> /\ cont' = [cont EXCEPT ![Current] = User]
    BY <1>6 DEF Resume
  <2>2. cont' \in [Pids -> Conts] /\ ContOK'
    BY <1>1, <1>2, <2>1, ContsFacts, TasksPids DEF Current, RestType, ContOK
  <2>3. RestType'
    BY <1>1, <2>1, <2>2 DEF Resume, RestType, taskVars, syncVars
  <2>4. Live' = Live /\ PidsOK'
    BY <1>1, SameTasks DEF Resume, taskVars
  <2> QED BY <1>1, <2>1, <2>2, <2>3, <2>4, IInvPartsNext
<1> QED BY <1>5, <1>6

\* The end of do_mutex_lock_release keeps the types.
LEMMA UnlockType ==
  ASSUME IInv, NEW x \in Locks, Unlock(x)
  PROVE  /\ lock_num' \in [Pids -> Int]
         /\ lock' \in [Locks -> [status : {"LOCKED", "UNLOCKED"}, owner : Pids]]
<1>1. k.current \in Pids /\ RestType
  BY IInvParts DEF IInv, TypeOK, KType
<1>2. lock_num' \in [Pids -> Int]
  BY <1>1 DEF RestType, Unlock, Current
<1>3. [status |-> "UNLOCKED", owner |-> 0] \in [status : {"LOCKED", "UNLOCKED"}, owner : Pids]
  BY TasksPids
<1>4. lock' \in [Locks -> [status : {"LOCKED", "UNLOCKED"}, owner : Pids]]
  BY <1>1, <1>3 DEF RestType, Unlock
<1> QED BY <1>2, <1>4

\* do_mutex_lock_release preserves IInv.
LEMMA ReleaseIInv ==
  ASSUME IInv, NEW x \in Locks, do_mutex_lock_release(x) PROVE IInv'
<1>1. KInv(k, Live) /\ RestType /\ PidsOK /\ ContOK
  BY IInvParts
<1>2. LockQ(x) \in QueueIds /\ Ready \in QueueIds
  BY IdsFacts
<1>3. Sound(k', QueueIds, Live) /\ Wakes(k, k', QueueIds)
  BY <1>1, <1>2, UnblockOneFacts DEF do_mutex_lock_release, KInv, KPart
<1>4. KInv(k', Live)
  BY <1>1, <1>3, WakesKInv
<1>5. /\ lock_num' \in [Pids -> Int]
      /\ lock' \in [Locks -> [status : {"LOCKED", "UNLOCKED"}, owner : Pids]]
  BY UnlockType DEF do_mutex_lock_release
<1>6. RestType' /\ ContOK'
  BY <1>1, <1>5 DEF do_mutex_lock_release, RestType, ContOK, taskVars, syncVars
<1>7. Live' = Live /\ PidsOK'
  BY <1>1, SameTasks DEF do_mutex_lock_release, taskVars
<1> QED BY <1>4, <1>6, <1>7, IInvPartsNext

\* do_semaphore_up preserves IInv.
LEMMA SemUpIInv ==
  ASSUME IInv, NEW x \in Sems, do_semaphore_up(x) PROVE IInv'
<1>1. KInv(k, Live) /\ RestType /\ PidsOK /\ ContOK
  BY IInvParts
<1>2. SemQ(x) \in QueueIds /\ Ready \in QueueIds
  BY IdsFacts
<1>3. CASE k' = k
  <2>1. KInv(k', Live)
    BY <1>1, <1>3
  <2> QED BY <1>1, <2>1, SameTasks, IInvPartsNext
      DEF do_semaphore_up, RestType, ContOK, taskVars
<1>4. CASE k' # k
  <2>1. k' \in do_unblock_one(k, SemQ(x), priority)
    BY <1>4 DEF do_semaphore_up
  <2>2. Sound(k', QueueIds, Live) /\ Wakes(k, k', QueueIds)
    BY <1>1, <1>2, <2>1, UnblockOneFacts DEF KInv, KPart
  <2>3. KInv(k', Live)
    BY <1>1, <2>2, WakesKInv
  <2> QED BY <1>1, <2>3, SameTasks, IInvPartsNext
      DEF do_semaphore_up, RestType, ContOK, taskVars
<1> QED BY <1>3, <1>4

\* do_semaphore_down preserves IInv.
LEMMA SemDownIInv ==
  ASSUME IInv, NEW x \in Sems, do_semaphore_down(x) PROVE IInv'
<1>1. KInv(k, Live) /\ RestType /\ PidsOK /\ ContOK
  BY IInvParts
<1>2. k.current # 0 /\ k.current # Shell
  BY BlockingCaller DEF do_semaphore_down
<1>3. KInv(k', Live)
  <2>1. CASE k' = k
    BY <1>1, <2>1
  <2>2. CASE k' # k
    <3> DEFINE dst == SemQ(x)
               s == "BLOCKED"
    <3>1. dst \in QueueIds /\ dst # Ready /\ \A p \in Tasks : dst = WaitQ(p) => p \in Live
      BY IdsFacts, IdsDistinct
    <3>2. s \in Statuses /\ k' \in do_wait(k, dst, s)
      BY <2>2 DEF do_semaphore_down, Statuses
    <3> HIDE DEF dst, s
    <3> QED BY <1>1, <1>2, <3>1, <3>2, DoWaitKInv
  <2> QED BY <2>1, <2>2
<1>4. RestType' /\ ContOK'
  BY <1>1 DEF do_semaphore_down, RestType, ContOK, taskVars
<1>5. Live' = Live /\ PidsOK'
  BY <1>1, SameTasks DEF do_semaphore_down, taskVars
<1> QED BY <1>3, <1>4, <1>5, IInvPartsNext

\* do_condition_wait preserves IInv.
LEMMA CondWaitIInv ==
  ASSUME IInv, NEW x \in Conds, NEW m \in Locks, do_condition_wait(x, m) PROVE IInv'
<1>1. KInv(k, Live) /\ RestType /\ PidsOK /\ ContOK
  BY IInvParts
<1>2. k.current # 0 /\ k.current # Shell /\ k.current \in Pids
  BY BlockingCaller DEF do_condition_wait
<1> DEFINE dst == CondQ(x)
           s == "BLOCKED"
<1>3. /\ dst \in QueueIds /\ dst # Ready /\ \A p \in Tasks : dst = WaitQ(p) => p \in Live
      /\ LockQ(m) \in QueueIds /\ Ready \in QueueIds /\ s \in Statuses
  BY IdsFacts, IdsDistinct DEF Statuses
<1>4. cont' \in [Pids -> Conts] /\ ContOK'
  BY <1>1, <1>2, ContsFacts, TasksPids DEF do_condition_wait, Current, RestType, ContOK
<1>5. cond' \in [Conds -> Nat]
  BY <1>1 DEF do_condition_wait, RestType
<1>6. KInv(k', Live) /\ lock_num' \in [Pids -> Int]
      /\ lock' \in [Locks -> [status : {"LOCKED", "UNLOCKED"}, owner : Pids]]
  <2>1. CASE lock[m].owner = Current
    <3>1. Unlock(m) /\ \E k1 \in do_unblock_one(k, LockQ(m), priority) : k' \in do_wait(k1, dst, s)
      BY <2>1 DEF do_condition_wait
    <3>2. PICK k1 \in do_unblock_one(k, LockQ(m), priority) : k' \in do_wait(k1, dst, s)
      BY <3>1
    <3> HIDE DEF dst, s
    <3>3. Sound(k1, QueueIds, Live) /\ Wakes(k, k1, QueueIds)
      BY <1>1, <1>3, <3>2, UnblockOneFacts DEF KInv, KPart
    <3>4. KInv(k1, Live) /\ k1.current = k.current
      BY <1>1, <3>3, WakesKInv DEF Wakes
    <3>5. KInv(k', Live)
      BY <1>2, <1>3, <3>2, <3>4, DoWaitKInv
    <3> QED BY <1>1, <3>1, <3>5, UnlockType
  <2>2. CASE lock[m].owner # Current
    <3>1. k' \in do_wait(k, dst, s) /\ UNCHANGED <<lock, lock_num>>
      BY <2>2 DEF do_condition_wait
    <3> HIDE DEF dst, s
    <3>2. KInv(k', Live)
      BY <1>1, <1>2, <1>3, <3>1, DoWaitKInv
    <3> QED BY <1>1, <3>1, <3>2 DEF RestType
  <2> QED BY <2>1, <2>2
<1>7. RestType'
  BY <1>1, <1>4, <1>5, <1>6 DEF do_condition_wait, RestType, taskVars
<1>8. Live' = Live /\ PidsOK'
  BY <1>1, SameTasks DEF do_condition_wait, taskVars
<1> QED BY <1>4, <1>6, <1>7, <1>8, IInvPartsNext

\* do_condition_signal preserves IInv.
LEMMA CondSignalIInv ==
  ASSUME IInv, NEW x \in Conds, do_condition_signal(x) PROVE IInv'
<1>1. KInv(k, Live) /\ RestType /\ PidsOK /\ ContOK
  BY IInvParts
<1>2. CondQ(x) \in QueueIds /\ Ready \in QueueIds
  BY IdsFacts
<1>3. Sound(k', QueueIds, Live) /\ Wakes(k, k', QueueIds)
  BY <1>1, <1>2, UnblockOneFacts DEF do_condition_signal, KInv, KPart
<1>4. KInv(k', Live)
  BY <1>1, <1>3, WakesKInv
<1>5. RestType' /\ ContOK'
  BY <1>1 DEF do_condition_signal, RestType, ContOK, taskVars
<1>6. Live' = Live /\ PidsOK'
  BY <1>1, SameTasks DEF do_condition_signal, taskVars
<1> QED BY <1>4, <1>5, <1>6, IInvPartsNext

\* do_condition_broadcast preserves IInv.
LEMMA CondBroadcastIInv ==
  ASSUME IInv, NEW x \in Conds, do_condition_broadcast(x) PROVE IInv'
<1>1. KInv(k, Live) /\ RestType /\ PidsOK /\ ContOK
  BY IInvParts
<1>2. CondQ(x) \in QueueIds /\ Ready \in QueueIds
  BY IdsFacts
<1>3. Sound(k', QueueIds, Live) /\ Wakes(k, k', QueueIds)
  BY <1>1, <1>2, UnblockAllFacts DEF do_condition_broadcast, KInv, KPart
<1>4. KInv(k', Live)
  BY <1>1, <1>3, WakesKInv
<1>5. RestType' /\ ContOK'
  BY <1>1 DEF do_condition_broadcast, RestType, ContOK, taskVars
<1>6. Live' = Live /\ PidsOK'
  BY <1>1, SameTasks DEF do_condition_broadcast, taskVars
<1> QED BY <1>4, <1>5, <1>6, IInvPartsNext

\* do_barrier_wait preserves IInv.
LEMMA BarrierWaitIInv ==
  ASSUME IInv, NEW x \in Barriers, do_barrier_wait(x) PROVE IInv'
<1>1. KInv(k, Live) /\ RestType /\ PidsOK /\ ContOK
  BY IInvParts
<1>2. k.current # 0 /\ k.current # Shell
  BY BlockingCaller DEF do_barrier_wait
<1>3. KInv(k', Live)
  <2>1. CASE barrier[x].arrived + 1 = barrier[x].goal
    <3>1. k' = do_unblock_all(k, BarrierQ(x)) /\ BarrierQ(x) \in QueueIds /\ Ready \in QueueIds
      BY <2>1, IdsFacts DEF do_barrier_wait, BarrierOpens
    <3>2. Sound(k', QueueIds, Live) /\ Wakes(k, k', QueueIds)
      BY <1>1, <3>1, UnblockAllFacts DEF KInv, KPart
    <3> QED BY <1>1, <3>2, WakesKInv
  <2>2. CASE barrier[x].arrived + 1 # barrier[x].goal
    <3> DEFINE dst == BarrierQ(x)
               s == "WAITING"
    <3>1. dst \in QueueIds /\ dst # Ready /\ \A p \in Tasks : dst = WaitQ(p) => p \in Live
      BY IdsFacts, IdsDistinct
    <3>2. s \in Statuses /\ k' \in do_wait(k, dst, s)
      BY <2>2 DEF do_barrier_wait, Statuses
    <3> HIDE DEF dst, s
    <3> QED BY <1>1, <1>2, <3>1, <3>2, DoWaitKInv
  <2> QED BY <2>1, <2>2
<1>4. barrier' \in [Barriers -> [goal : Nat \ {0}, arrived : Nat]]
  <2> DEFINE T == [goal : Nat \ {0}, arrived : Nat]
  <2>1. PICK a \in Nat : barrier' = [barrier EXCEPT ![x].arrived = a]
    <3>1. barrier[x].arrived + 1 \in Nat /\ 0 \in Nat
      BY <1>1 DEF RestType
    <3> QED BY <3>1 DEF do_barrier_wait, BarrierOpens
  <2>2. [barrier[x] EXCEPT !.arrived = a] \in T
    BY <1>1 DEF RestType
  <2>3. barrier \in [Barriers -> T] /\ barrier' = [barrier EXCEPT ![x] = [barrier[x] EXCEPT !.arrived = a]]
    BY <1>1, <2>1 DEF RestType
  <2> HIDE DEF T
  <2>4. barrier' \in [Barriers -> T]
    BY <2>2, <2>3
  <2> QED BY <2>4 DEF T
<1>5. RestType' /\ ContOK'
  BY <1>1, <1>4 DEF do_barrier_wait, RestType, ContOK, taskVars
<1>6. Live' = Live /\ PidsOK'
  BY <1>1, SameTasks DEF do_barrier_wait, taskVars
<1> QED BY <1>3, <1>5, <1>6, IInvPartsNext

\* The calls that (re)initialise an object without waiters.
LEMMA SyncInitIInv ==
  ASSUME IInv,
         \/ \E x \in Sems : \E v \in SemValues : do_semaphore_init(x, v)
         \/ \E x \in Conds : do_condition_init(x)
         \/ \E x \in Barriers : \E g \in Goals : do_barrier_init(x, g)
  PROVE  IInv'
<1>1. KInv(k, Live) /\ RestType /\ PidsOK /\ ContOK
  BY IInvParts
<1>2. UNCHANGED <<k, taskVars, awakened_time, lock_num, cont, lock, time_elapsed>>
  BY DEF do_semaphore_init, do_condition_init, do_barrier_init
<1>3. sem' \in [Sems -> Int]
  BY <1>1, ValuesAssumption DEF RestType, do_semaphore_init, do_condition_init, do_barrier_init
<1>4. cond' \in [Conds -> Nat]
  BY <1>1 DEF RestType, do_semaphore_init, do_condition_init, do_barrier_init
<1>5. barrier' \in [Barriers -> [goal : Nat \ {0}, arrived : Nat]]
  BY <1>1, ValuesAssumption DEF RestType, do_semaphore_init, do_condition_init, do_barrier_init
<1>6. RestType' /\ ContOK'
  BY <1>1, <1>2, <1>3, <1>4, <1>5 DEF RestType, ContOK, taskVars
<1>7. Live' = Live /\ PidsOK'
  BY <1>1, <1>2, SameTasks DEF taskVars
<1> QED BY <1>1, <1>2, <1>6, <1>7, IInvPartsNext

-----------------------------------------------------------------------------
\* The initial state: the shell and io_proc are in the ready queue.

\* The pids that they have got.
LEMMA InitPids ==
  LET a == slist_alloc(slist_alloc(slist_init(MAX_TASK_NUM)))
  IN  /\ a \in SlistType(MAX_TASK_NUM) /\ SlistShape(a, MAX_TASK_NUM)
      /\ \A i \in Tasks : a[i].valid = IF i \in {1, 2} THEN 1 ELSE 0
<1> DEFINE n == MAX_TASK_NUM
           a0 == slist_init(n)
           a1 == slist_alloc(a0)
           a2 == slist_alloc(a1)
<1>1. n \in Nat \ {0} /\ n > 2
  BY TaskNumAssumption
<1>2. /\ a0 \in SlistType(n) /\ SlistShape(a0, n)
      /\ \A i \in 1 .. n - 1 : a0[i].valid = 0
  BY <1>1, InitShape
<1>3. a0[0].cursor = 1 /\ a0[1].cursor = 2
  BY <1>1 DEF slist_init
<1> HIDE DEF a0
<1>4. slist_alloc_ret(a0) = 1 /\ a1[0].cursor = 2
  <2>1. a0[0] \in SlistNode(n) /\ DOMAIN a0 = 0 .. n - 1 /\ a0[1] \in SlistNode(n)
    BY <1>1, <1>2 DEF SlistType
  <2>2. a1 = [a0 EXCEPT ![0].cursor = 2, ![1].valid = 1]
    BY <1>3 DEF slist_alloc, slist_is_insufficient
  <2>3. a1[0].cursor = 2
    BY <1>1, <2>1, <2>2 DEF SlistNode
  <2> QED BY <1>3, <2>3 DEF slist_alloc_ret, slist_is_insufficient
<1>5. /\ a1 \in SlistType(n) /\ SlistShape(a1, n)
      /\ \A i \in 1 .. n - 1 : a1[i].valid = IF i = 1 THEN 1 ELSE a0[i].valid
  BY <1>1, <1>2, <1>4, AllocShape
<1> HIDE DEF a1
<1>6. slist_alloc_ret(a1) = 2
  BY <1>4 DEF slist_alloc_ret, slist_is_insufficient
<1>7. /\ a2 \in SlistType(n) /\ SlistShape(a2, n)
      /\ \A i \in 1 .. n - 1 : a2[i].valid = IF i = 2 THEN 1 ELSE a1[i].valid
  BY <1>1, <1>5, <1>6, AllocShape
<1> HIDE DEF a2
<1>8. \A i \in Tasks : a2[i].valid = IF i \in {1, 2} THEN 1 ELSE 0
  BY <1>2, <1>5, <1>7 DEF Tasks
<1> QED BY <1>7, <1>8 DEF a0, a1, a2

\* The state init_task leaves satisfies IInv.
LEMMA InitIInv == Init => IInv
<1> SUFFICES ASSUME Init PROVE IInv
  OBVIOUS
<1>1. /\ pid_list \in SlistType(MAX_TASK_NUM) /\ PidsOK
      /\ \A i \in Tasks : pid_list[i].valid = IF i \in {1, 2} THEN 1 ELSE 0
  BY InitPids DEF Init, PidsOK
<1>2. 1 \in Tasks /\ 2 \in Tasks /\ Shell = 1
  BY TaskNumAssumption DEF Tasks, Shell
<1>3. Live = {1, 2}
  BY <1>1, <1>2 DEF Live
<1>4. priority \in [Pids -> Priorities \cup {0}] /\ priority \in [Pids -> Nat]
  BY ValuesAssumption DEF Init
<1>5. awakened_time \in [Pids -> 0 .. TickMod - 1] /\ time_elapsed \in 0 .. TickMod - 1
  BY ValuesAssumption DEF Init
<1>6. lock_num \in [Pids -> Int] /\ cont \in [Pids -> Conts] /\ ContOK
  BY ContsFacts, TasksPids DEF Init, ContOK
<1>7. lock \in [Locks -> [status : {"LOCKED", "UNLOCKED"}, owner : Pids]]
  BY TasksPids DEF Init
<1>8. sem \in [Sems -> Int] /\ cond \in [Conds -> Nat]
  BY ValuesAssumption DEF Init
<1>9. barrier \in [Barriers -> [goal : Nat \ {0}, arrived : Nat]]
  <2> DEFINE G == {IF g < 1 THEN 1 ELSE g : g \in Goals}
             T == [goal : G, arrived : {0}]
             U == [goal : Nat \ {0}, arrived : Nat]
  <2>1. \A g \in G : g \in Nat \ {0}
    BY ValuesAssumption
  <2> HIDE DEF G
  <2>2. \A r \in T : r \in U
    BY <2>1
  <2>3. barrier \in [Barriers -> T]
    BY DEF Init, G
  <2> HIDE DEF T, U
  <2>4. barrier \in [Barriers -> U]
    BY <2>2, <2>3
  <2> QED BY <2>4 DEF U
<1>10. RestType
  BY <1>1, <1>4, <1>5, <1>6, <1>7, <1>8, <1>9 DEF RestType
<1> DEFINE s == <<1, 2>>
<1>11. s \in Seq(Tasks) /\ DOMAIN s = {1, 2} /\ s[1] = 1 /\ s[2] = 2
  BY <1>2
<1>12. IsInjective(s) /\ ToSet(s) = {1, 2}
  <2> HIDE DEF s
  <2> QED BY <1>11 DEF IsInjective, ToSet
<1>13. /\ k.queue = [q \in QueueIds |-> IF q = Ready THEN s ELSE <<>>]
       /\ k.in = [p \in Pids |-> IF p \in {1, 2} THEN Ready ELSE NoQueue]
       /\ k.current = 0 /\ k.panic = 0
  BY DEF Init
<1>14. k \in KType(QueueIds)
  <2> HIDE DEF s
  <2> DEFINE sta == [p \in Pids |-> IF p = 0 THEN "RUNNING"
                                   ELSE IF p \in {1, 2} THEN "READY" ELSE "BLOCKED"]
             wai == [p \in Pids |-> 0]
             q == [id \in QueueIds |-> IF id = Ready THEN s ELSE <<>>]
             in == [p \in Pids |-> IF p \in {1, 2} THEN Ready ELSE NoQueue]
  <2>1. q \in [QueueIds -> Seq(Tasks)] /\ in \in [Pids -> QueueIds \cup {NoQueue}]
    BY <1>11, EmptySet, IdsFacts
  <2>2. sta \in [Pids -> Statuses] /\ wai \in [Pids -> Nat]
    BY DEF Statuses
  <2>3. k = [queue |-> q, in |-> in, status |-> sta, scheduler_priority |-> priority,
             wait_time |-> wai, current |-> 0, panic |-> 0]
    BY DEF Init, s
  <2> HIDE DEF q, in, sta, wai
  <2> QED BY <1>4, <2>1, <2>2, <2>3, TasksPids DEF KType
<1> HIDE DEF s
<1>15. /\ \A id \in QueueIds : id # Ready => k.queue[id] = <<>>
       /\ k.queue[Ready] = s /\ DOMAIN k.queue = QueueIds
       /\ k.in[1] = Ready /\ k.in[2] = Ready
  BY <1>2, <1>13, IdsFacts, TasksPids
<1>16. Partitioned(k.queue, k.in, Live)
  <2>1. ASSUME NEW id \in QueueIds
        PROVE  /\ IsInjective(k.queue[id])
               /\ \A p \in ToSet(k.queue[id]) : p \in Live /\ k.in[p] = id
    <3>1. CASE id = Ready
      BY <1>3, <1>12, <1>15, <3>1
    <3>2. CASE id # Ready
      BY <1>15, <3>2, EmptySet
    <3> QED BY <3>1, <3>2
  <2>2. \A p \in Live : k.in[p] \in QueueIds /\ p \in ToSet(k.queue[k.in[p]])
    BY <1>3, <1>12, <1>15, IdsFacts
  <2> QED BY <1>15, <2>1, <2>2 DEF Partitioned
<1>17. \A p \in Tasks : k.queue[WaitQ(p)] = <<>>
  BY <1>15, IdsFacts, IdsDistinct, TasksPids
<1>18. KInv(k, Live)
  BY <1>2, <1>3, <1>13, <1>14, <1>15, <1>16, <1>17 DEF KInv, KPart, Sound
<1> QED BY <1>1, <1>6, <1>10, <1>18, IInvParts

-----------------------------------------------------------------------------
\* Every step keeps the invariant.
LEMMA NextIInv == IInv /\ [Next]_vars => IInv'
<1> SUFFICES ASSUME IInv, [Next]_vars PROVE IInv'
  OBVIOUS
<1>1. CASE Tick
  BY <1>1, TickIInv
<1>2. CASE IrqMac
  BY <1>2, IrqMacIInv
<1>3. CASE TaskCall
  <2>1. CASE \E pr \in Priorities : Spawn(pr)
    BY <2>1, SpawnIInv
  <2>2. CASE \E pid \in Pids : Kill(pid)
    BY <2>2, KillIInv DEF Kill
  <2>3. CASE \E pid \in Pids : Wait(pid)
    BY <2>3, WaitIInv
  <2>4. CASE Exit
    <3>1. Current \in Pids /\ kill(Current)
      BY <2>4 DEF Exit, Current, IInv, TypeOK, KType
    <3> QED BY <3>1, KillIInv
  <2>5. CASE \E t \in SleepTicks : do_sleep(t)
    BY <2>5, SleepIInv
  <2>6. CASE do_wait_recv_package
    BY <2>6, RecvIInv
  <2> QED BY <1>3, <2>1, <2>2, <2>3, <2>4, <2>5, <2>6 DEF TaskCall
<1>4. CASE LockCall
  BY <1>4, AcquireIInv, ReleaseIInv DEF LockCall
<1>5. CASE SyncCall
  <2>1. CASE \E x \in Sems : do_semaphore_up(x)
    BY <2>1, SemUpIInv
  <2>2. CASE \E x \in Sems : do_semaphore_down(x)
    BY <2>2, SemDownIInv
  <2>3. CASE \E x \in Conds : \E m \in Locks : do_condition_wait(x, m)
    BY <2>3, CondWaitIInv
  <2>4. CASE \E x \in Conds : do_condition_signal(x)
    BY <2>4, CondSignalIInv
  <2>5. CASE \E x \in Conds : do_condition_broadcast(x)
    BY <2>5, CondBroadcastIInv
  <2>6. CASE \E x \in Barriers : do_barrier_wait(x)
    BY <2>6, BarrierWaitIInv
  <2>7. CASE \/ \E x \in Sems : \E v \in SemValues : do_semaphore_init(x, v)
             \/ \E x \in Conds : do_condition_init(x)
             \/ \E x \in Barriers : \E g \in Goals : do_barrier_init(x, g)
    BY <2>7, SyncInitIInv
  <2> QED BY <1>5, <2>1, <2>2, <2>3, <2>4, <2>5, <2>6, <2>7 DEF SyncCall
<1>6. CASE \E x \in Locks : Resume(x)
  BY <1>6, ResumeIInv
<1>7. CASE UNCHANGED vars
  <2>1. Live' = Live /\ k' = k /\ pid_list' = pid_list
    BY <1>7 DEF vars, Live
  <2> QED BY <1>7, <2>1, IInvParts, IInvPartsNext DEF vars, RestType, PidsOK, ContOK
<1> QED BY <1>1, <1>2, <1>3, <1>4, <1>5, <1>6, <1>7 DEF Next

\* In every run of the kernel, whatever the tasks call and however many there
\* are, IInv holds.
THEOREM KernelIInv == Spec => []IInv
BY InitIInv, NextIInv, PTL DEF Spec

\* The kernel's data keep their types.
THEOREM KernelTypes == Spec => []TypeOK
<1>1. IInv => TypeOK
  BY DEF IInv
<1> QED BY <1>1, KernelIInv, PTL

\* Every live task is in exactly one queue, the one its pcb names, and no dead
\* task is in any, through kill, exit, wait, sleep and every kind of blocking.
THEOREM KernelQueues == Spec => []QueueOK
<1>1. IInv => QueueOK
  BY DEF IInv, KInv, KPart, Sound, QueueOK
<1> QED BY <1>1, KernelIInv, PTL

\* scheduler() never panics for want of a ready task, and the task it runs is
\* a live one of the ready queue.
THEOREM KernelRuns == Spec => []RunningOK
<1>1. IInv => RunningOK
  BY DEF IInv, KInv, KPart, RunningOK
<1> QED BY <1>1, KernelIInv, PTL

\* Nobody waits for a dead task.
THEOREM KernelWaiters == Spec => []WaitersOK
<1>1. IInv => WaitersOK
  BY DEF IInv, KInv, KPart, WaitersOK
<1> QED BY <1>1, KernelIInv, PTL

-----------------------------------------------------------------------------
\* Locks.

Owned(p) == {x \in Locks : lock[x].owner = p}

\* The two parts of LocksOK.
StatusOK == \A x \in Locks : lock[x].status = "LOCKED" <=> lock[x].owner # 0

OwnersOK ==
  /\ \A x \in Locks : lock[x].owner # 0 => lock[x].owner \in Live
  /\ \A p \in Live : lock_num[p] = Cardinality(Owned(p))

\* A set of locks is finite.
LEMMA LocksFinite ==
  ASSUME NEW S, S \subseteq Locks
  PROVE  IsFiniteSet(S) /\ Cardinality(S) \in Nat
<1>1. IsFiniteSet(Locks)
  BY LocksAssumption, FS_Interval DEF Locks
<1> QED BY <1>1, FS_Subset, FS_CardinalityType

\* A step that leaves locks and tasks alone.
LEMMA SameLocks ==
  ASSUME LocksOK, UNCHANGED <<lock, lock_num, pid_list>>
  PROVE  LocksOK'
BY DEF LocksOK, Live

\* current_running takes a free lock.
LEMMA TakeLocks ==
  ASSUME IInv, LocksOK, NEW x \in Locks, k.current # 0, lock[x].status = "UNLOCKED",
         lock_num' = [lock_num EXCEPT ![Current] = @ + 1],
         lock' = [lock EXCEPT ![x] = [status |-> "LOCKED", owner |-> Current]],
         UNCHANGED pid_list
  PROVE  LocksOK'
<1> DEFINE c == Current
<1>1. /\ c \in Live /\ c \in Pids /\ c # 0
      /\ lock \in [Locks -> [status : {"LOCKED", "UNLOCKED"}, owner : Pids]]
      /\ lock_num \in [Pids -> Int]
  BY DEF IInv, TypeOK, KInv, KType, Current
<1>2. Live' = Live /\ \A p \in Live : p \in Pids /\ p # 0
  BY TasksPids DEF Live
<1>3. lock[x].owner = 0
  BY <1>1 DEF LocksOK
<1> HIDE DEF c
<1>4. \A y \in Locks : /\ lock'[y].status = IF y = x THEN "LOCKED" ELSE lock[y].status
                       /\ lock'[y].owner = IF y = x THEN c ELSE lock[y].owner
  BY <1>1 DEF c
<1>5. StatusOK'
  BY <1>1, <1>4 DEF LocksOK, StatusOK
<1>6. ASSUME NUserLocks = 0 PROVE OwnersOK'
  <2>1. \A p \in Live : lock_num[p] = Cardinality(Owned(p))
    BY <1>6 DEF LocksOK, Owned
  <2>2. \A p \in Live : Owned(p)' = IF p = c THEN Owned(p) \cup {x} ELSE Owned(p)
    BY <1>1, <1>2, <1>3, <1>4 DEF Owned
  <2>3. x \notin Owned(c) /\ IsFiniteSet(Owned(c)) /\ Cardinality(Owned(c)) \in Nat
    BY <1>1, <1>3, LocksFinite DEF Owned
  <2>4. Cardinality(Owned(c) \cup {x}) = Cardinality(Owned(c)) + 1
    BY <2>3, FS_AddElement
  <2>5. ASSUME NEW p \in Live PROVE lock_num'[p] = Cardinality(Owned(p)')
    <3>1. CASE p = c
      BY <1>1, <2>1, <2>2, <2>4, <3>1 DEF c
    <3>2. CASE p # c
      BY <1>1, <1>2, <2>1, <2>2, <3>2 DEF c
    <3> QED BY <3>1, <3>2
  <2>6. \A y \in Locks : lock'[y].owner # 0 => lock'[y].owner \in Live
    BY <1>1, <1>4, <1>6 DEF LocksOK
  <2> QED BY <1>2, <2>5, <2>6 DEF OwnersOK
<1> QED BY <1>5, <1>6 DEF LocksOK, StatusOK, OwnersOK, Owned

\* The end of do_mutex_lock_release, called by the owner.
LEMMA UnlockLocks ==
  ASSUME IInv, LocksOK, NEW x \in Locks, k.current # 0, lock[x].owner = Current,
         Unlock(x), UNCHANGED pid_list
  PROVE  LocksOK'
<1> DEFINE c == Current
<1>1. /\ c \in Live /\ c \in Pids /\ c # 0
      /\ lock \in [Locks -> [status : {"LOCKED", "UNLOCKED"}, owner : Pids]]
      /\ lock_num \in [Pids -> Int]
  BY DEF IInv, TypeOK, KInv, KType, Current
<1>2. Live' = Live /\ \A p \in Live : p \in Pids /\ p # 0
  BY TasksPids DEF Live
<1>3. \A y \in Locks : /\ lock'[y].status = IF y = x THEN "UNLOCKED" ELSE lock[y].status
                       /\ lock'[y].owner = IF y = x THEN 0 ELSE lock[y].owner
  BY <1>1 DEF Unlock
<1>4. lock_num' = [lock_num EXCEPT ![c] = @ - 1] /\ lock[x].owner = c
  BY DEF Unlock
<1> HIDE DEF c
<1>5. StatusOK'
  BY <1>3 DEF LocksOK, StatusOK
<1>6. ASSUME NUserLocks = 0 PROVE OwnersOK'
  <2>1. \A p \in Live : lock_num[p] = Cardinality(Owned(p))
    BY <1>6 DEF LocksOK, Owned
  <2>2. \A p \in Live : Owned(p)' = IF p = c THEN Owned(p) \ {x} ELSE Owned(p)
    BY <1>1, <1>2, <1>3, <1>4 DEF Owned
  <2>3. x \in Owned(c) /\ IsFiniteSet(Owned(c)) /\ Cardinality(Owned(c)) \in Nat
    BY <1>4, LocksFinite DEF Owned
  <2>4. Cardinality(Owned(c) \ {x}) = Cardinality(Owned(c)) - 1
    BY <2>3, FS_RemoveElement
  <2>5. ASSUME NEW p \in Live PROVE lock_num'[p] = Cardinality(Owned(p)')
    <3>1. CASE p = c
      BY <1>1, <1>4, <2>1, <2>2, <2>4, <3>1
    <3>2. CASE p # c
      BY <1>1, <1>2, <1>4, <2>1, <2>2, <3>2
    <3> QED BY <3>1, <3>2
  <2>6. \A y \in Locks : lock'[y].owner # 0 => lock'[y].owner \in Live
    BY <1>3, <1>6 DEF LocksOK
  <2> QED BY <1>2, <2>5, <2>6 DEF OwnersOK
<1> QED BY <1>5, <1>6 DEF LocksOK, StatusOK, OwnersOK, Owned

\* What a new task changes in the scheduling state.
LEMMA SpawnFields ==
  ASSUME IInv, NEW pr \in Priorities, Spawn(pr), NEW pid, pid = slist_alloc_ret(pid_list)
  PROVE  /\ pid \in Pids /\ pid # 0 /\ pid \notin Live /\ Live' = Live \cup {pid}
         /\ Keeps(k, k', QueueIds, {WaitQ(pid)})
         /\ k'.in = [k.in EXCEPT ![pid] = Ready]
         /\ k'.scheduler_priority = [k.scheduler_priority EXCEPT ![pid] = pr]
         /\ k'.current = k.current
<1>1. MAX_TASK_NUM \in Nat \ {0}
  BY TaskNumAssumption
<1>2. pid # 0 /\ pid_list' = slist_alloc(pid_list)
  BY DEF Spawn, slist_alloc_ret, slist_is_insufficient
<1>3. pid_list \in SlistType(MAX_TASK_NUM) /\ SlistShape(pid_list, MAX_TASK_NUM)
  BY DEF IInv, TypeOK
<1>4. /\ pid \in 0 .. MAX_TASK_NUM - 1
      /\ pid_list[pid].valid = 0
      /\ \A i \in 1 .. MAX_TASK_NUM - 1 :
           slist_alloc(pid_list)[i].valid = IF i = pid THEN 1 ELSE pid_list[i].valid
  BY <1>1, <1>2, <1>3, AllocShape
<1>5. pid \in Pids /\ pid \notin Live /\ Live' = Live \cup {pid}
  BY <1>2, <1>4 DEF Pids, Tasks, Live
<1> DEFINE w == WaitQ(pid)
           q == k.queue
           q2 == [q EXCEPT ![w] = <<>>, ![Ready] = Append(q[Ready], pid)]
           in2 == [k.in EXCEPT ![pid] = Ready]
           sta == [k.status EXCEPT ![pid] = "READY"]
           pri == [k.scheduler_priority EXCEPT ![pid] = pr]
           wai == [k.wait_time EXCEPT ![pid] = 0]
<1>6. k' = [k EXCEPT !.queue[w] = <<>>, !.queue[Ready] = Append(@, pid),
                     !.in[pid] = Ready, !.status[pid] = "READY",
                     !.scheduler_priority[pid] = pr, !.wait_time[pid] = 0]
  BY DEF Spawn
<1>7. w # Ready
  BY IdsDistinct
<1>8. k \in KType(QueueIds) /\ q \in [QueueIds -> Seq(Tasks)]
  BY DEF IInv, TypeOK, KType
<1> HIDE DEF w
<1>9. k' = [k EXCEPT !.queue = q2, !.in = in2, !.status = sta,
                     !.scheduler_priority = pri, !.wait_time = wai]
  BY <1>6, <1>7, <1>8 DEF KType
<1>10. \A id \in QueueIds : id # Ready /\ id # w => q2[id] = q[id]
  BY <1>8
<1> HIDE DEF q2, in2, sta, pri, wai
<1>11. k'.queue = q2 /\ k'.in = in2 /\ k'.scheduler_priority = pri /\ k'.current = k.current
  BY <1>8, <1>9 DEF KType
<1>12. Keeps(k, k', QueueIds, {w})
  BY <1>10, <1>11 DEF Keeps
<1> QED BY <1>2, <1>5, <1>11, <1>12 DEF in2, pri, w

\* The pid of a new task owns no lock: its predecessor's were released.
LEMMA SpawnLocks ==
  ASSUME IInv, LocksOK, NEW pr \in Priorities, Spawn(pr)
  PROVE  LocksOK'
<1> DEFINE pid == slist_alloc_ret(pid_list)
<1>1. lock' = lock /\ lock_num' = [lock_num EXCEPT ![pid] = 0] /\ lock_num \in [Pids -> Int]
  BY DEF Spawn, IInv, TypeOK
<1>2. pid \in Pids /\ pid # 0 /\ pid \notin Live /\ Live' = Live \cup {pid}
  BY SpawnFields, Zenon
<1> HIDE DEF pid
<1>3. ASSUME NUserLocks = 0 PROVE OwnersOK'
  <2>1. \A p \in Live : lock_num[p] = Cardinality(Owned(p)) /\ p \in Pids
    BY <1>3, TasksPids DEF LocksOK, Owned, Live
  <2>2. \A y \in Locks : lock[y].owner # 0 => lock[y].owner \in Live
    BY <1>3 DEF LocksOK
  <2>3. Owned(pid) = {}
    BY <1>2, <2>2 DEF Owned
  <2>4. \A p : Owned(p)' = Owned(p)
    BY <1>1 DEF Owned
  <2>5. ASSUME NEW p \in Live' PROVE lock_num'[p] = Cardinality(Owned(p)')
    <3>1. CASE p = pid
      BY <1>1, <1>2, <2>3, <2>4, <3>1, FS_EmptySet
    <3>2. CASE p # pid
      BY <1>1, <1>2, <2>1, <2>4, <3>2
    <3> QED BY <3>1, <3>2
  <2> QED BY <1>1, <1>2, <2>2, <2>5 DEF OwnersOK
<1> QED BY <1>1, <1>3 DEF LocksOK, OwnersOK, Owned

\* kill releases every lock of locks[] the task owns: lock_num, which ends the
\* search, counts them.
LEMMA ReleasedAll ==
  ASSUME LocksOK, NUserLocks = 0, NEW pid \in Live
  PROVE  Released(pid) = Owned(pid)
<1>1. TableLocks = Locks
  BY LocksAssumption DEF TableLocks, Locks
<1>2. lock_num[pid] = Cardinality(Owned(pid)) /\ IsFiniteSet(Owned(pid))
  BY LocksFinite DEF LocksOK, Owned
<1>3. ASSUME NEW x \in Owned(pid)
      PROVE  Cardinality({y \in Owned(pid) : y < x}) < lock_num[pid]
  <2> DEFINE T == {y \in Owned(pid) : y < x}
  <2>1. T \in SUBSET Owned(pid) /\ T \subseteq Locks /\ x \in Int
    BY LocksAssumption DEF Owned, Locks
  <2>2. T # Owned(pid)
    BY <2>1
  <2> HIDE DEF T
  <2>3. Cardinality(T) <= Cardinality(Owned(pid)) /\ Cardinality(Owned(pid)) # Cardinality(T)
    BY <1>2, <2>1, <2>2, FS_Subset
  <2>4. Cardinality(T) \in Nat /\ Cardinality(Owned(pid)) \in Nat
    BY <2>1, LocksFinite DEF Owned
  <2> QED BY <1>2, <2>3, <2>4 DEF T
<1>4. Owned(pid) = {x \in TableLocks : lock[x].owner = pid}
  BY <1>1 DEF Owned
<1> HIDE DEF Owned
<1> QED BY <1>3, <1>4 DEF Released

\* The tasks that are left after kill.
LEMMA KillLive ==
  ASSUME IInv, NEW pid \in Pids, kill(pid)
  PROVE  pid \in Live /\ pid # 0 /\ pid # Shell /\ Live' = Live \ {pid}
<1>1. MAX_TASK_NUM \in Nat \ {0} /\ pid \in Int
  BY TaskNumAssumption DEF Pids
<1>2. \A i \in 1 .. MAX_TASK_NUM - 1 :
        slist_free(pid_list, pid, MAX_TASK_NUM)[i].valid =
          IF i = pid THEN 0 ELSE pid_list[i].valid
  <2>1. pid_list \in SlistType(MAX_TASK_NUM) /\ SlistShape(pid_list, MAX_TASK_NUM)
    BY DEF IInv, TypeOK
  <2> QED BY <1>1, <2>1, FreeShape
<1>3. pid_list' = slist_free(pid_list, pid, MAX_TASK_NUM)
  BY DEF kill
<1>4. pid \in Live /\ pid # 0 /\ pid # Shell
  BY TaskNumAssumption DEF kill, Killable, slist_is_valid, Live, Tasks, Pids
<1> QED BY <1>2, <1>3, <1>4 DEF Live, Tasks

\* kill leaves no lock with a dead owner.
LEMMA KillLocks ==
  ASSUME IInv, LocksOK, NEW pid \in Pids, kill(pid)
  PROVE  LocksOK'
<1>1. pid \in Live /\ pid # 0 /\ Live' = Live \ {pid}
  BY KillLive
<1>2. \A y \in Locks :
        /\ lock'[y].status = IF y \in Released(pid) THEN "UNLOCKED" ELSE lock[y].status
        /\ lock'[y].owner = IF y \in Released(pid) THEN 0 ELSE lock[y].owner
  BY DEF kill
<1>3. StatusOK'
  BY <1>2 DEF LocksOK, StatusOK
<1>4. ASSUME NUserLocks = 0 PROVE OwnersOK'
  <2>1. Released(pid) = Owned(pid)
    BY <1>1, <1>4, ReleasedAll
  <2>2. \A y \in Locks : lock'[y].owner = IF lock[y].owner = pid THEN 0 ELSE lock[y].owner
    BY <1>2, <2>1 DEF Owned
  <2>3. \A p \in Live' : Owned(p)' = Owned(p) /\ p \in Pids /\ p # pid
    BY <1>1, <2>2, TasksPids DEF Owned, Live
  <2>4. \A p \in Live' : lock_num'[p] = lock_num[p]
    BY <2>3 DEF kill, IInv, TypeOK
  <2>5. \A p \in Live' : lock_num'[p] = Cardinality(Owned(p)')
    BY <1>1, <1>4, <2>3, <2>4 DEF LocksOK, Owned
  <2>6. \A y \in Locks : lock'[y].owner # 0 => lock'[y].owner \in Live'
    BY <1>1, <1>4, <2>2 DEF LocksOK
  <2> QED BY <2>5, <2>6 DEF OwnersOK
<1> QED BY <1>3, <1>4 DEF LocksOK, StatusOK, OwnersOK, Owned

\* The calls and interrupts that touch neither locks nor tasks.
LEMMA QuietLocks ==
  ASSUME LocksOK,
         \/ Tick \/ IrqMac \/ do_wait_recv_package
         \/ \E pid \in Pids : Wait(pid)
         \/ \E t \in SleepTicks : do_sleep(t)
         \/ \E x \in Sems : \/ \E v \in SemValues : do_semaphore_init(x, v)
                            \/ do_semaphore_up(x) \/ do_semaphore_down(x)
         \/ \E x \in Conds : \/ do_condition_signal(x) \/ do_condition_broadcast(x)
                             \/ do_condition_init(x)
         \/ \E x \in Barriers : \/ \E g \in Goals : do_barrier_init(x, g)
                                \/ do_barrier_wait(x)
         \/ UNCHANGED vars
  PROVE  LocksOK'
<1>1. UNCHANGED <<lock, lock_num, pid_list>>
  BY DEF Tick, IrqMac, do_wait_recv_package, Wait, do_sleep, do_semaphore_init,
         do_semaphore_up, do_semaphore_down, do_condition_signal, do_condition_broadcast,
         do_condition_init, do_barrier_init, do_barrier_wait, vars, taskVars
<1> QED BY <1>1, SameLocks

\* The loop of do_mutex_lock_acquire takes the lock or leaves all locks alone.
LEMMA AcquireLoopLocks ==
  ASSUME IInv, LocksOK, NEW x \in Locks, k.current # 0, AcquireLoop(x), UNCHANGED pid_list
  PROVE  LocksOK'
<1>1. CASE lock[x].status = "LOCKED"
  BY <1>1, SameLocks DEF AcquireLoop
<1>2. CASE lock[x].status = "UNLOCKED"
  BY <1>2, TakeLocks DEF AcquireLoop
<1> QED BY <1>1, <1>2 DEF AcquireLoop

\* Whoever goes on with a blocking call is not main.
LEMMA Resumer ==
  ASSUME IInv, NEW x \in Locks, Resume(x)
  PROVE  k.current \in Pids /\ k.current # 0 /\ k.current # Shell
<1>1. cont[k.current] # User
  BY ContsFacts DEF Resume, Current
<1> QED BY <1>1 DEF IInv, TypeOK, KType

\* Every step preserves LocksOK.
LEMMA NextLocks == IInv /\ LocksOK /\ [Next]_vars => LocksOK'
<1> SUFFICES ASSUME IInv, LocksOK, [Next]_vars PROVE LocksOK'
  OBVIOUS
<1>1. ASSUME NEW pr \in Priorities, Spawn(pr) PROVE LocksOK'
  BY <1>1, SpawnLocks
<1>2. ASSUME NEW pid \in Pids, Kill(pid) PROVE LocksOK'
  BY <1>2, KillLocks DEF Kill
<1>3. CASE Exit
  <2>1. Current \in Pids
    BY DEF IInv, TypeOK, KType, Current
  <2> QED BY <1>3, <2>1, KillLocks DEF Exit
<1>4. ASSUME NEW x \in Locks, do_mutex_lock_acquire(x) PROVE LocksOK'
  BY <1>4, AcquireLoopLocks DEF do_mutex_lock_acquire, Calls, taskVars
<1>5. ASSUME NEW x \in Locks, do_mutex_lock_release(x) PROVE LocksOK'
  BY <1>5, UnlockLocks DEF do_mutex_lock_release, Calls, taskVars
<1>6. ASSUME NEW x \in Locks, Resume(x) PROVE LocksOK'
  <2>1. k.current # 0 /\ UNCHANGED pid_list
    BY <1>6, Resumer DEF Resume, taskVars
  <2>2. CASE AcquireLoop(x)
    BY <2>1, <2>2, AcquireLoopLocks
  <2>3. CASE UNCHANGED <<k, lock, lock_num>>
    BY <2>1, <2>3, SameLocks
  <2> QED BY <1>6, <2>2, <2>3 DEF Resume
<1>7. ASSUME NEW x \in Conds, NEW m \in Locks, do_condition_wait(x, m) PROVE LocksOK'
  <2>1. k.current # 0 /\ UNCHANGED pid_list
    BY <1>7 DEF do_condition_wait, Calls, taskVars
  <2>2. CASE lock[m].owner = Current
    BY <1>7, <2>1, <2>2, UnlockLocks DEF do_condition_wait
  <2>3. CASE lock[m].owner # Current
    BY <1>7, <2>1, <2>3, SameLocks DEF do_condition_wait
  <2> QED BY <2>2, <2>3
<1> QED BY <1>1, <1>2, <1>3, <1>4, <1>5, <1>6, <1>7, QuietLocks
        DEF Next, TaskCall, LockCall, SyncCall

\* Initially all locks are free.
LEMMA InitLocks == Init => LocksOK
<1> SUFFICES ASSUME Init PROVE LocksOK
  OBVIOUS
<1>1. /\ \A x \in Locks : lock[x].status = "UNLOCKED" /\ lock[x].owner = 0
      /\ \A p \in Live : p # 0 /\ lock_num[p] = 0
  BY TasksPids DEF Init, Live
<1>2. \A p \in Live : Owned(p) = {}
  BY <1>1 DEF Owned
<1>3. \A p \in Live : lock_num[p] = Cardinality(Owned(p))
  BY <1>1, <1>2, FS_EmptySet
<1> QED BY <1>1, <1>3 DEF LocksOK, Owned

\* A lock is held exactly when it has an owner; when all mutexes are in locks[],
\* every owner is alive and its lock_num counts its locks, so that kill()
\* releases them all (kernel/sched/sched.c).
THEOREM KernelLocks == Spec => []LocksOK
<1>1. Init => IInv /\ LocksOK
  BY InitIInv, InitLocks
<1>2. (IInv /\ LocksOK) /\ [Next]_vars => (IInv /\ LocksOK)'
  BY NextIInv, NextLocks
<1> QED BY <1>1, <1>2, PTL DEF Spec

-----------------------------------------------------------------------------
\* The counts of semaphores, conditions and barriers.

CountQs == {SemQ(x) : x \in Sems} \cup {CondQ(x) : x \in Conds}
             \cup {BarrierQ(x) : x \in Barriers}

\* n tasks are waiting and the object counts m.
Counts(n, m) == n <= m /\ ("kill" \notin Syscalls => n = m)

Debt(v) == IF v < 0 THEN - v ELSE 0

SemsOK == \A x \in Sems : Counts(Len(k.queue[SemQ(x)]), Debt(sem[x]))
CondsOK == \A x \in Conds : Counts(Len(k.queue[CondQ(x)]), cond[x])
BarriersOK == \A x \in Barriers : /\ Counts(Len(k.queue[BarrierQ(x)]), barrier[x].arrived)
                                  /\ barrier[x].arrived < barrier[x].goal

\* CountsOK, object by object.
LEMMA CountsParts == CountsOK <=> SemsOK /\ CondsOK /\ BarriersOK
BY DEF CountsOK, SemsOK, CondsOK, BarriersOK, Counts, Debt

\* The same for the next state.
LEMMA CountsPartsNext == CountsOK' <=> SemsOK' /\ CondsOK' /\ BarriersOK'
BY DEF CountsOK, SemsOK, CondsOK, BarriersOK, Counts, Debt

\* The queues of the counting objects are none of the others'.
LEMMA CountIds ==
  /\ CountQs \subseteq QueueIds
  /\ \A id \in CountQs : /\ id # Ready /\ id # SleepQ /\ id # RecvQ
                         /\ \A p : id # WaitQ(p)
                         /\ \A x : id # LockQ(x)
  /\ \A x \in Sems : SemQ(x) \in CountQs
  /\ \A x \in Conds : CondQ(x) \in CountQs
  /\ \A x \in Barriers : BarrierQ(x) \in CountQs
  /\ \A x, y : SemQ(x) # CondQ(y) /\ SemQ(x) # BarrierQ(y) /\ CondQ(x) # BarrierQ(y)
  /\ \A x, y : SemQ(x) = SemQ(y) => x = y
  /\ \A x, y : CondQ(x) = CondQ(y) => x = y
  /\ \A x, y : BarrierQ(x) = BarrierQ(y) => x = y
<1>1. \A x, y : SemQ(x) # CondQ(y) /\ SemQ(x) # BarrierQ(y) /\ CondQ(x) # BarrierQ(y)
  BY DEF SemQ, CondQ, BarrierQ
<1>2. /\ \A x, y : SemQ(x) = SemQ(y) => x = y
      /\ \A x, y : CondQ(x) = CondQ(y) => x = y
      /\ \A x, y : BarrierQ(x) = BarrierQ(y) => x = y
  BY DEF SemQ, CondQ, BarrierQ
<1>3. ASSUME NEW x
      PROVE  \A id \in {SemQ(x), CondQ(x), BarrierQ(x)} :
               /\ id # Ready /\ id # SleepQ /\ id # RecvQ
               /\ \A p : id # WaitQ(p) /\ id # LockQ(p)
  BY DEF SemQ, CondQ, BarrierQ, Ready, SleepQ, RecvQ, WaitQ, LockQ
<1> QED BY <1>1, <1>2, <1>3 DEF CountQs, QueueIds

\* A queue that no task has joined, and that only kill may have shortened.
Shorter(id) == Counts(Len(k'.queue[id]), Len(k.queue[id]))

\* How long the queues are.
LEMMA QueueLens ==
  ASSUME NEW kk, NEW live, Sound(kk, QueueIds, live), NEW id \in QueueIds
  PROVE  kk.queue[id] \in Seq(Tasks) /\ Len(kk.queue[id]) \in Nat
<1>1. kk.queue[id] \in Seq(Tasks)
  BY SoundQueue
<1> QED BY <1>1

\* A step that changes no count and lets no task join.
LEMMA SameCounts ==
  ASSUME IInv, IInv', CountsOK, UNCHANGED syncVars, \A id \in CountQs : Shorter(id)
  PROVE  CountsOK'
<1>1. SemsOK /\ CondsOK /\ BarriersOK
  BY CountsParts
<1>2. \A id \in CountQs : Len(k.queue[id]) \in Nat /\ Len(k'.queue[id]) \in Nat
  BY QueueLens, CountIds, IInvParts, IInvPartsNext DEF KInv, KPart
<1>3. sem' = sem /\ cond' = cond /\ barrier' = barrier
  BY DEF syncVars
<1>4. /\ \A x \in Sems : Debt(sem[x]) \in Int
      /\ \A x \in Conds : cond[x] \in Int
      /\ \A x \in Barriers : barrier[x].arrived \in Int
  BY DEF IInv, TypeOK, Debt
<1>5. SemsOK'
  BY <1>1, <1>2, <1>3, <1>4, CountIds DEF SemsOK, Counts, Shorter
<1>6. CondsOK'
  BY <1>1, <1>2, <1>3, <1>4, CountIds DEF CondsOK, Counts, Shorter
<1>7. BarriersOK'
  BY <1>1, <1>2, <1>3, <1>4, CountIds DEF BarriersOK, Counts, Shorter
<1> QED BY <1>5, <1>6, <1>7, CountsPartsNext

\* Queues the step has not touched have kept their length.
LEMMA KeptCounts ==
  ASSUME IInv, IInv', CountsOK, UNCHANGED syncVars, NEW S, S \cap CountQs = {},
         Keeps(k, k', QueueIds, S)
  PROVE  CountsOK'
<1>1. \A id \in CountQs : k'.queue[id] = k.queue[id] /\ Len(k.queue[id]) \in Nat
  BY CountIds, QueueLens, IInvParts DEF Keeps, KInv, KPart
<1>2. \A id \in CountQs : Shorter(id)
  BY <1>1 DEF Shorter, Counts
<1> QED BY <1>2, SameCounts

\* A step of one semaphore.
LEMMA SemStep ==
  ASSUME IInv, CountsOK, NEW x \in Sems, NEW v \in Int, sem' = [sem EXCEPT ![x] = v],
         UNCHANGED <<cond, barrier>>, Keeps(k, k', QueueIds, {SemQ(x)}),
         Counts(Len(k'.queue[SemQ(x)]), Debt(v))
  PROVE  CountsOK'
<1>1. SemsOK /\ CondsOK /\ BarriersOK /\ sem \in [Sems -> Int]
  BY CountsParts DEF IInv, TypeOK
<1>2. \A id \in CountQs : id # SemQ(x) => k'.queue[id] = k.queue[id]
  BY CountIds DEF Keeps
<1>3. SemsOK'
  BY <1>1, <1>2, CountIds DEF SemsOK
<1>4. CondsOK' /\ BarriersOK'
  BY <1>1, <1>2, CountIds DEF CondsOK, BarriersOK
<1> QED BY <1>3, <1>4, CountsPartsNext

\* A step of one condition.
LEMMA CondStep ==
  ASSUME IInv, CountsOK, NEW x \in Conds, NEW v \in Nat, cond' = [cond EXCEPT ![x] = v],
         UNCHANGED <<sem, barrier>>, NEW S, S \cap CountQs = {},
         Keeps(k, k', QueueIds, {CondQ(x)} \cup S), Counts(Len(k'.queue[CondQ(x)]), v)
  PROVE  CountsOK'
<1>1. SemsOK /\ CondsOK /\ BarriersOK /\ cond \in [Conds -> Nat]
  BY CountsParts DEF IInv, TypeOK
<1>2. \A id \in CountQs : id # CondQ(x) => k'.queue[id] = k.queue[id]
  BY CountIds DEF Keeps
<1>3. CondsOK'
  BY <1>1, <1>2, CountIds DEF CondsOK
<1>4. SemsOK' /\ BarriersOK'
  BY <1>1, <1>2, CountIds DEF SemsOK, BarriersOK
<1> QED BY <1>3, <1>4, CountsPartsNext

\* A step of one barrier.
LEMMA BarrierStep ==
  ASSUME IInv, CountsOK, NEW x \in Barriers,
         \A y \in Barriers : y # x => barrier'[y] = barrier[y],
         UNCHANGED <<sem, cond>>, Keeps(k, k', QueueIds, {BarrierQ(x)}),
         Counts(Len(k'.queue[BarrierQ(x)]), barrier'[x].arrived),
         barrier'[x].arrived < barrier'[x].goal
  PROVE  CountsOK'
<1>1. SemsOK /\ CondsOK /\ BarriersOK
  BY CountsParts
<1>2. \A id \in CountQs : id # BarrierQ(x) => k'.queue[id] = k.queue[id]
  BY CountIds DEF Keeps
<1>3. BarriersOK'
  BY <1>1, <1>2, CountIds DEF BarriersOK
<1>4. /\ \A y \in Sems : k'.queue[SemQ(y)] = k.queue[SemQ(y)] /\ sem'[y] = sem[y]
      /\ \A y \in Conds : k'.queue[CondQ(y)] = k.queue[CondQ(y)] /\ cond'[y] = cond[y]
  BY <1>2, CountIds
<1>5. SemsOK' /\ CondsOK'
  BY <1>1, <1>4 DEF SemsOK, CondsOK
<1> QED BY <1>3, <1>5, CountsPartsNext

\* do_wait, called by a task other than main and the shell.
LEMMA WaitKeeps ==
  ASSUME NEW live, NEW k1, KInv(k1, live), k1.current # Shell,
         NEW dst \in QueueIds, dst # Ready, NEW s \in Statuses,
         NEW k2 \in do_wait(k1, dst, s)
  PROVE  Len(k2.queue[dst]) = Len(k1.queue[dst]) + 1 /\ Keeps(k1, k2, QueueIds, {dst})
<1>1. Sound(k1, QueueIds, live) /\ Shell \in live /\ k1.in[Shell] = Ready
  BY DEF KInv, KPart
<1> QED BY <1>1, IdsFacts, DoWaitQueues

\* A step that blocks the caller on an object that does not count.
LEMMA BlockCounts ==
  ASSUME IInv, IInv', CountsOK, UNCHANGED syncVars, k.current # Shell,
         NEW dst \in QueueIds \ CountQs, dst # Ready, NEW s \in Statuses,
         k' \in do_wait(k, dst, s)
  PROVE  CountsOK'
<1>1. Keeps(k, k', QueueIds, {dst})
  BY IInvParts, WaitKeeps
<1> QED BY <1>1, KeptCounts

\* A step that wakes one task of an object that does not count.
LEMMA WakeCounts ==
  ASSUME IInv, IInv', CountsOK, UNCHANGED syncVars, NEW src \in QueueIds \ CountQs,
         src # Ready, k' \in do_unblock_one(k, src, priority)
  PROVE  CountsOK'
<1>1. Keeps(k, k', QueueIds, {src})
  BY IInvParts, IdsFacts, UnblockOneQueues DEF KInv, KPart
<1> QED BY <1>1, KeptCounts

\* irq_timer changes no count.
LEMMA TickCounts ==
  ASSUME IInv, IInv', CountsOK, Tick
  PROVE  CountsOK'
<1>1. KInv(k, Live)
  BY IInvParts
<1>2. PICK k1 \in check_sleeping(k, awakened_time, time_elapsed') : k' \in scheduler(k1)
  BY DEF Tick
<1>3. Sound(k1, QueueIds, Live) /\ Wakes(k, k1, QueueIds)
  BY <1>1, <1>2, IdsFacts, CheckSleepingFacts DEF KInv, KPart
<1>4. KPart(k1, Live)
  BY <1>1, <1>3, WakesKPart DEF KInv
<1>5. k'.queue = k1.queue
  BY <1>2, <1>4, IdsFacts, SchedulerFacts DEF KPart, Switches
<1>6. Keeps(k, k1, QueueIds, {SleepQ})
  BY <1>1, <1>2, IdsFacts, CheckSleepingQueues DEF KInv, KPart, Sound
<1>7. Keeps(k, k', QueueIds, {SleepQ})
  BY <1>5, <1>6 DEF Keeps
<1>8. {SleepQ} \cap CountQs = {} /\ UNCHANGED syncVars
  BY CountIds DEF Tick, syncVars
<1> QED BY <1>7, <1>8, KeptCounts

\* A new task waits for nothing.
LEMMA SpawnCounts ==
  ASSUME IInv, IInv', CountsOK, NEW pr \in Priorities, Spawn(pr)
  PROVE  CountsOK'
<1> DEFINE pid == slist_alloc_ret(pid_list)
<1>1. Keeps(k, k', QueueIds, {WaitQ(pid)})
  BY SpawnFields, Zenon
<1> HIDE DEF pid
<1>2. {WaitQ(pid)} \cap CountQs = {} /\ UNCHANGED syncVars
  BY CountIds DEF Spawn, syncVars
<1> QED BY <1>1, <1>2, KeptCounts

\* kill shortens at most the queue the task was in; that is the ready queue
\* when the task has called exit.
LEMMA KillCounts ==
  ASSUME IInv, IInv', CountsOK, NEW pid \in Pids, kill(pid),
         pid = Current \/ "kill" \in Syscalls
  PROVE  CountsOK'
<1>1. KInv(k, Live) /\ Sound(k, QueueIds, Live)
  BY IInvParts DEF KInv, KPart
<1>2. pid \in Live /\ pid # 0 /\ pid # Shell
  BY KillLive
<1> DEFINE id == k.in[pid]
           rest == Live \ {pid}
<1>3. id \in QueueIds
  BY <1>1, <1>2, SoundTask
<1>4. PICK i \in DOMAIN k.queue[id] :
        /\ k.queue[id][i] = pid
        /\ \E k1 \in KillWakes(KillRemove(id, i), pid) :
             k' \in IF pid = Current THEN scheduler(k1) ELSE {k1}
  BY DEF kill
<1> DEFINE k0 == KillRemove(id, i)
<1>5. PICK k1 \in KillWakes(k0, pid) : k' \in IF pid = Current THEN scheduler(k1) ELSE {k1}
  BY <1>4
<1>6. Sound(k0, QueueIds, rest) /\ k0.in = k.in
  BY <1>1, <1>3, <1>4, KillRemoveFacts
<1>7. /\ \A d \in QueueIds : d # id => k0.queue[d] = k.queue[d]
      /\ Len(k0.queue[id]) = Len(k.queue[id]) - 1
  <2>1. k \in KType(QueueIds) /\ k.queue \in [QueueIds -> Seq(Tasks)]
    BY <1>1 DEF Sound, KType
  <2>2. Len(RemoveAt(k.queue[id], i)) = Len(k.queue[id]) - 1
    BY <1>3, <2>1, RemoveAtFacts
  <2>3. k0.queue = [k.queue EXCEPT ![id] = RemoveAt(@, i)]
    BY <2>1 DEF KillRemove, KType
  <2> QED BY <1>3, <2>1, <2>2, <2>3
<1> HIDE DEF k0, rest
<1>8. Sound(k1, QueueIds, rest) /\ Wakes(k0, k1, QueueIds) /\ KillWoke(k0, k1, pid, rest)
  BY <1>5, <1>6, KillWakesFacts
<1>9. \A d \in CountQs : k1.queue[d] = k0.queue[d]
  BY <1>8, CountIds DEF KillWoke, Keeps
<1>10. k'.queue = k1.queue
  <2>1. CASE pid = Current
    <3>1. Shell \in rest /\ k1.in[Shell] = Ready
      BY <1>1, <1>2, <1>6, <1>8, TasksPids DEF KInv, KPart, Wakes, rest
    <3> QED BY <1>5, <1>8, <2>1, <3>1, IdsFacts, SchedulerFacts DEF Switches
  <2>2. CASE pid # Current
    BY <1>5, <2>2
  <2> QED BY <2>1, <2>2
<1>11. ASSUME NEW d \in CountQs PROVE Shorter(d)
  <2>1. Len(k.queue[d]) \in Nat /\ d # Ready
    BY <1>1, CountIds, QueueLens
  <2>2. pid = Current => id = Ready
    BY <1>1, <1>2 DEF KInv, Current
  <2>3. CASE d = id
    <3>1. Len(k'.queue[d]) = Len(k.queue[d]) - 1
      BY <1>7, <1>9, <1>10, <2>3
    <3>2. "kill" \in Syscalls
      BY <2>1, <2>2, <2>3
    <3>3. Len(k'.queue[d]) <= Len(k.queue[d])
      BY <2>1, <3>1
    <3> QED BY <3>2, <3>3 DEF Shorter, Counts
  <2>4. CASE d # id
    BY <1>7, <1>9, <1>10, <2>1, <2>4, CountIds DEF Shorter, Counts
  <2> QED BY <2>3, <2>4
<1>12. UNCHANGED syncVars
  BY DEF kill
<1> QED BY <1>11, <1>12, SameCounts

\* The caller of a blocking call, and the state it calls from.
LEMMA Blocker ==
  ASSUME IInv, NEW name, Calls(name), name \notin {"spawn", "kill"}
  PROVE  /\ k.current \in Pids /\ k.current # 0 /\ k.current # Shell
         /\ k.current \in Live /\ k.in[k.current] = Ready /\ cont[k.current] = User
         /\ KInv(k, Live) /\ Sound(k, QueueIds, Live)
BY BlockingCaller, IInvParts DEF KInv, KPart, Calls, UserMode

\* do_semaphore_up wakes a task whenever the value was negative.
LEMMA SemUpCounts ==
  ASSUME IInv, CountsOK, NEW x \in Sems, do_semaphore_up(x)
  PROVE  CountsOK'
<1> DEFINE q == SemQ(x)
           v == sem[x] + 1
<1>1. Sound(k, QueueIds, Live) /\ sem[x] \in Int /\ q \in QueueIds /\ q # Ready
  BY IInvParts, IdsFacts, IdsDistinct DEF KInv, KPart, IInv, TypeOK
<1>2. k.queue[q] \in Seq(Tasks) /\ Len(k.queue[q]) \in Nat
  BY <1>1, QueueLens
<1>3. Counts(Len(k.queue[q]), Debt(sem[x]))
  BY CountsParts DEF SemsOK
<1>4. sem' = [sem EXCEPT ![x] = v] /\ UNCHANGED <<cond, barrier>> /\ v \in Int
  BY <1>1 DEF do_semaphore_up
<1> HIDE DEF q
<1>5. Keeps(k, k', QueueIds, {q}) /\ Counts(Len(k'.queue[q]), Debt(v))
  <2>1. CASE v <= 0
    <3>1. k' \in do_unblock_one(k, q, priority)
      BY <2>1 DEF do_semaphore_up, Owed, q
    <3>2. /\ Keeps(k, k', QueueIds, {q})
          /\ k.queue[q] = <<>> => k' = k
          /\ k.queue[q] # <<>> => Len(k'.queue[q]) = Len(k.queue[q]) - 1
      BY <1>1, <3>1, IdsFacts, UnblockOneQueues
    <3>3. CASE k.queue[q] = <<>>
      BY <1>1, <1>2, <1>3, <2>1, <3>2, <3>3 DEF Counts, Debt
    <3>4. CASE k.queue[q] # <<>>
      BY <1>1, <1>2, <1>3, <2>1, <3>2, <3>4 DEF Counts, Debt
    <3> QED BY <3>3, <3>4
  <2>2. CASE v > 0
    <3>1. k' = k
      BY <1>1, <2>2 DEF do_semaphore_up, Owed
    <3> QED BY <1>1, <1>2, <1>3, <2>2, <3>1 DEF Counts, Debt, Keeps
  <2> QED BY <1>4, <2>1, <2>2
<1> QED BY <1>4, <1>5, SemStep DEF q

\* do_semaphore_down blocks the caller whenever the value becomes negative.
LEMMA SemDownCounts ==
  ASSUME IInv, CountsOK, NEW x \in Sems, do_semaphore_down(x)
  PROVE  CountsOK'
<1> DEFINE q == SemQ(x)
           v == sem[x] - 1
           s == "BLOCKED"
<1>1. sem[x] \in Int /\ q \in QueueIds /\ q # Ready /\ s \in Statuses
  BY IdsFacts, IdsDistinct DEF IInv, TypeOK, Statuses
<1>2. KInv(k, Live) /\ Sound(k, QueueIds, Live) /\ k.current # Shell
  BY Blocker DEF do_semaphore_down
<1>3. k.queue[q] \in Seq(Tasks) /\ Len(k.queue[q]) \in Nat
  BY <1>1, <1>2, QueueLens
<1>4. Counts(Len(k.queue[q]), Debt(sem[x]))
  BY CountsParts DEF SemsOK
<1>5. sem' = [sem EXCEPT ![x] = v] /\ UNCHANGED <<cond, barrier>> /\ v \in Int
  BY <1>1 DEF do_semaphore_down
<1>6. Keeps(k, k', QueueIds, {q}) /\ Counts(Len(k'.queue[q]), Debt(v))
  <2>1. CASE v < 0
    <3>1. k' \in do_wait(k, q, s)
      BY <2>1 DEF do_semaphore_down
    <3> HIDE DEF q, s
    <3>2. Len(k'.queue[q]) = Len(k.queue[q]) + 1 /\ Keeps(k, k', QueueIds, {q})
      BY <1>1, <1>2, <3>1, WaitKeeps
    <3> QED BY <1>1, <1>3, <1>4, <2>1, <3>2 DEF Counts, Debt
  <2>2. CASE v >= 0
    <3>1. k' = k
      BY <1>1, <2>2 DEF do_semaphore_down
    <3> QED BY <1>1, <1>3, <1>4, <2>2, <3>1 DEF Counts, Debt, Keeps
  <2> QED BY <1>5, <2>1, <2>2
<1> QED BY <1>5, <1>6, SemStep

\* do_condition_wait counts the caller; releasing the mutex touches the queue of
\* the mutex only.
LEMMA CondWaitCounts ==
  ASSUME IInv, CountsOK, NEW x \in Conds, NEW m \in Locks, do_condition_wait(x, m)
  PROVE  CountsOK'
<1> DEFINE q == CondQ(x)
           l == LockQ(m)
           s == "BLOCKED"
           v == cond[x] + 1
<1>1. /\ q \in QueueIds /\ l \in QueueIds /\ q # Ready /\ l # Ready /\ l # q
      /\ l \notin CountQs /\ q \in CountQs /\ s \in Statuses
  BY IdsFacts, IdsDistinct, CountIds DEF Statuses
<1>2. cond[x] \in Nat /\ cond' = [cond EXCEPT ![x] = v] /\ UNCHANGED <<sem, barrier>>
  BY DEF IInv, TypeOK, do_condition_wait
<1>3. KInv(k, Live) /\ Sound(k, QueueIds, Live) /\ k.current # Shell
  BY Blocker DEF do_condition_wait
<1>4. Len(k.queue[q]) \in Nat /\ Counts(Len(k.queue[q]), cond[x])
  BY <1>1, <1>3, QueueLens, CountsParts DEF CondsOK
<1>5. Len(k'.queue[q]) = Len(k.queue[q]) + 1 /\ Keeps(k, k', QueueIds, {q} \cup {l})
  <2>1. CASE lock[m].owner = Current
    <3>1. PICK k1 \in do_unblock_one(k, l, priority) : k' \in do_wait(k1, q, s)
      BY <2>1 DEF do_condition_wait
    <3> HIDE DEF q, l, s
    <3>2. Keeps(k, k1, QueueIds, {l})
      BY <1>1, <1>3, <3>1, IdsFacts, UnblockOneQueues
    <3>3. Sound(k1, QueueIds, Live) /\ Wakes(k, k1, QueueIds)
      BY <1>1, <1>3, <3>1, IdsFacts, UnblockOneFacts
    <3>4. KInv(k1, Live) /\ k1.current # Shell
      BY <1>3, <3>3, WakesKInv DEF Wakes
    <3>5. Len(k'.queue[q]) = Len(k1.queue[q]) + 1 /\ Keeps(k1, k', QueueIds, {q})
      BY <1>1, <3>1, <3>4, WaitKeeps
    <3>6. k1.queue[q] = k.queue[q]
      BY <1>1, <3>2 DEF Keeps
    <3>7. Keeps(k, k', QueueIds, {q} \cup {l})
      BY <3>2, <3>5 DEF Keeps
    <3> QED BY <3>5, <3>6, <3>7
  <2>2. CASE lock[m].owner # Current
    <3>1. k' \in do_wait(k, q, s)
      BY <2>2 DEF do_condition_wait
    <3> HIDE DEF q, l, s
    <3>2. Len(k'.queue[q]) = Len(k.queue[q]) + 1 /\ Keeps(k, k', QueueIds, {q})
      BY <1>1, <1>3, <3>1, WaitKeeps
    <3> QED BY <3>2 DEF Keeps
  <2> QED BY <2>1, <2>2
<1>6. Counts(Len(k'.queue[q]), v) /\ v \in Nat
  BY <1>2, <1>4, <1>5 DEF Counts
<1>7. {l} \cap CountQs = {}
  BY <1>1
<1> HIDE DEF l, v
<1> QED BY <1>2, <1>5, <1>6, <1>7, CondStep

\* do_condition_signal and do_condition_broadcast uncount those they wake.
LEMMA CondSignalCounts ==
  ASSUME IInv, CountsOK, NEW x \in Conds,
         do_condition_signal(x) \/ do_condition_broadcast(x)
  PROVE  CountsOK'
<1> DEFINE q == CondQ(x)
           none == {}
           v == IF do_condition_signal(x) THEN cond[x] - 1 ELSE 0
<1>1. q \in QueueIds /\ q # Ready /\ Sound(k, QueueIds, Live)
  BY IdsFacts, IdsDistinct, IInvParts DEF KInv, KPart
<1>2. cond[x] \in Nat /\ cond[x] > 0 /\ UNCHANGED <<sem, barrier>>
  BY DEF IInv, TypeOK, do_condition_signal, do_condition_broadcast
<1>3. /\ k.queue[q] \in Seq(Tasks) /\ Len(k.queue[q]) \in Nat
      /\ Counts(Len(k.queue[q]), cond[x])
  BY <1>1, QueueLens, CountsParts DEF CondsOK
<1>4. cond' = [cond EXCEPT ![x] = v] /\ v \in Nat
  BY <1>2 DEF do_condition_signal, do_condition_broadcast
<1>5. Keeps(k, k', QueueIds, {q}) /\ Counts(Len(k'.queue[q]), v)
  <2>1. CASE do_condition_signal(x)
    <3>1. k' \in do_unblock_one(k, q, priority)
      BY <2>1 DEF do_condition_signal
    <3> HIDE DEF q
    <3>2. /\ Keeps(k, k', QueueIds, {q})
          /\ k.queue[q] = <<>> => k' = k
          /\ k.queue[q] # <<>> => Len(k'.queue[q]) = Len(k.queue[q]) - 1
      BY <1>1, <3>1, IdsFacts, UnblockOneQueues
    <3>3. CASE k.queue[q] = <<>>
      BY <1>2, <1>3, <2>1, <3>2, <3>3 DEF Counts
    <3>4. CASE k.queue[q] # <<>>
      BY <1>2, <1>3, <2>1, <3>2, <3>4 DEF Counts
    <3> QED BY <3>3, <3>4
  <2>2. CASE ~ do_condition_signal(x)
    <3>1. k' = do_unblock_all(k, q) /\ k \in KType(QueueIds)
      BY <1>1, <2>2 DEF do_condition_broadcast, Sound
    <3> HIDE DEF q
    <3>2. Keeps(k, k', QueueIds, {q}) /\ k'.queue[q] = <<>>
      BY <1>1, <3>1, IdsFacts, UnblockAllQueues
    <3> QED BY <2>2, <3>2 DEF Counts
  <2> QED BY <2>1, <2>2
<1>6. Keeps(k, k', QueueIds, {q} \cup none) /\ none \cap CountQs = {}
  BY <1>5 DEF Keeps
<1> HIDE DEF v, none
<1> QED BY <1>2, <1>4, <1>5, <1>6, CondStep

\* do_barrier_wait counts the caller or opens the barrier.
LEMMA BarrierWaitCounts ==
  ASSUME IInv, CountsOK, NEW x \in Barriers, do_barrier_wait(x)
  PROVE  CountsOK'
<1> DEFINE q == BarrierQ(x)
           s == "WAITING"
<1>1. q \in QueueIds /\ q # Ready /\ s \in Statuses
  BY IdsFacts, IdsDistinct DEF Statuses
<1>2. KInv(k, Live) /\ Sound(k, QueueIds, Live) /\ k.current # Shell
  BY Blocker DEF do_barrier_wait
<1>3. /\ Len(k.queue[q]) \in Nat /\ Counts(Len(k.queue[q]), barrier[x].arrived)
      /\ barrier[x].arrived < barrier[x].goal
  BY <1>1, <1>2, QueueLens, CountsParts DEF BarriersOK
<1>4. /\ barrier \in [Barriers -> [goal : Nat \ {0}, arrived : Nat]]
      /\ UNCHANGED <<sem, cond>>
  BY DEF IInv, TypeOK, do_barrier_wait
<1>5. CASE barrier[x].arrived + 1 = barrier[x].goal
  <2>1. barrier' = [barrier EXCEPT ![x].arrived = 0] /\ k' = do_unblock_all(k, q)
    BY <1>5 DEF do_barrier_wait, BarrierOpens
  <2>2. /\ \A y \in Barriers : y # x => barrier'[y] = barrier[y]
        /\ barrier'[x].arrived = 0 /\ barrier'[x].arrived < barrier'[x].goal
    BY <1>4, <2>1
  <2>3. k \in KType(QueueIds)
    BY <1>2 DEF Sound
  <2> HIDE DEF q
  <2>4. Keeps(k, k', QueueIds, {q}) /\ k'.queue[q] = <<>>
    BY <1>1, <2>1, <2>3, IdsFacts, UnblockAllQueues
  <2>5. Counts(Len(k'.queue[q]), barrier'[x].arrived)
    BY <2>2, <2>4 DEF Counts
  <2> QED BY <1>4, <2>2, <2>4, <2>5, BarrierStep DEF q
<1>6. CASE barrier[x].arrived + 1 # barrier[x].goal
  <2>1. barrier' = [barrier EXCEPT ![x].arrived = @ + 1] /\ k' \in do_wait(k, q, s)
    BY <1>6 DEF do_barrier_wait
  <2>2. /\ \A y \in Barriers : y # x => barrier'[y] = barrier[y]
        /\ barrier'[x].arrived = barrier[x].arrived + 1
        /\ barrier'[x].arrived < barrier'[x].goal
    BY <1>3, <1>4, <1>6, <2>1
  <2> HIDE DEF q, s
  <2>3. Len(k'.queue[q]) = Len(k.queue[q]) + 1 /\ Keeps(k, k', QueueIds, {q})
    BY <1>1, <1>2, <2>1, WaitKeeps
  <2>4. Counts(Len(k'.queue[q]), barrier'[x].arrived)
    BY <1>3, <1>4, <2>2, <2>3 DEF Counts
  <2> QED BY <1>4, <2>2, <2>3, <2>4, BarrierStep DEF q
<1> QED BY <1>5, <1>6

\* The init calls find an empty queue and leave nothing counted.
LEMMA SyncInitCounts ==
  ASSUME IInv, CountsOK,
         \/ \E x \in Sems : \E v \in SemValues : do_semaphore_init(x, v)
         \/ \E x \in Conds : do_condition_init(x)
         \/ \E x \in Barriers : \E g \in Goals : do_barrier_init(x, g)
  PROVE  CountsOK'
<1>1. \A S : Keeps(k, k', QueueIds, S)
  BY DEF do_semaphore_init, do_condition_init, do_barrier_init, Keeps
<1>2. Len(<<>>) = 0
  OBVIOUS
<1>3. ASSUME NEW x \in Sems, NEW v \in SemValues, do_semaphore_init(x, v) PROVE CountsOK'
  <2> DEFINE w == IF v < 0 THEN 0 ELSE v
  <2>1. w \in Int /\ Debt(w) = 0
    BY ValuesAssumption DEF Debt
  <2>2. sem' = [sem EXCEPT ![x] = w] /\ UNCHANGED <<cond, barrier>> /\ k'.queue[SemQ(x)] = <<>>
    BY <1>3 DEF do_semaphore_init
  <2> HIDE DEF w
  <2>3. Counts(Len(k'.queue[SemQ(x)]), Debt(w))
    BY <1>2, <2>1, <2>2 DEF Counts
  <2> QED BY <1>1, <2>1, <2>2, <2>3, SemStep
<1>4. ASSUME NEW x \in Conds, do_condition_init(x) PROVE CountsOK'
  <2> DEFINE w == 0
             none == {}
  <2>1. cond' = [cond EXCEPT ![x] = w] /\ UNCHANGED <<sem, barrier>> /\ k'.queue[CondQ(x)] = <<>>
    BY <1>4 DEF do_condition_init
  <2>2. Counts(Len(k'.queue[CondQ(x)]), w) /\ w \in Nat /\ none \cap CountQs = {}
    BY <1>2, <2>1 DEF Counts
  <2> HIDE DEF w, none
  <2> QED BY <1>1, <2>1, <2>2, CondStep
<1>5. ASSUME NEW x \in Barriers, NEW g \in Goals, do_barrier_init(x, g) PROVE CountsOK'
  <2>1. /\ barrier' = [barrier EXCEPT ![x] = [goal |-> IF g < 1 THEN 1 ELSE g, arrived |-> 0]]
        /\ UNCHANGED <<sem, cond>> /\ k'.queue[BarrierQ(x)] = <<>>
        /\ barrier \in [Barriers -> [goal : Nat \ {0}, arrived : Nat]]
    BY <1>5 DEF do_barrier_init, IInv, TypeOK
  <2>2. /\ \A y \in Barriers : y # x => barrier'[y] = barrier[y]
        /\ barrier'[x].arrived = 0 /\ barrier'[x].arrived < barrier'[x].goal
    BY <2>1, ValuesAssumption
  <2>3. Counts(Len(k'.queue[BarrierQ(x)]), barrier'[x].arrived)
    BY <1>2, <2>1, <2>2 DEF Counts
  <2> QED BY <1>1, <2>1, <2>2, <2>3, BarrierStep
<1> QED BY <1>3, <1>4, <1>5

\* A step that leaves queues and counts alone.
LEMMA IdleCounts ==
  ASSUME CountsOK, UNCHANGED <<k, sem, cond, barrier>>
  PROVE  CountsOK'
BY DEF CountsOK

\* The loop of do_mutex_lock_acquire blocks on the lock or changes no queue.
LEMMA AcquireLoopCounts ==
  ASSUME IInv, IInv', CountsOK, NEW x \in Locks, k.current # Shell, AcquireLoop(x),
         UNCHANGED syncVars
  PROVE  CountsOK'
<1> DEFINE q == LockQ(x)
           s == "BLOCKED"
<1>1. q \in QueueIds \ CountQs /\ q # Ready /\ s \in Statuses
  BY IdsFacts, IdsDistinct, CountIds DEF Statuses
<1>2. k' \in do_wait(k, q, s) \/ UNCHANGED k
  BY DEF AcquireLoop
<1> HIDE DEF q, s
<1>3. CASE k' \in do_wait(k, q, s)
  BY <1>1, <1>3, BlockCounts
<1>4. CASE UNCHANGED k
  BY <1>4, IdleCounts DEF syncVars
<1> QED BY <1>2, <1>3, <1>4

\* The calls of tasks other than the synchronisation calls.
LEMMA TaskCounts ==
  ASSUME IInv, IInv', CountsOK, TaskCall
  PROVE  CountsOK'
<1>1. ASSUME NEW pr \in Priorities, Spawn(pr) PROVE CountsOK'
  BY <1>1, SpawnCounts
<1>2. ASSUME NEW pid \in Pids, Kill(pid) PROVE CountsOK'
  BY <1>2, KillCounts DEF Kill, Calls
<1>3. CASE Exit
  <2>1. Current \in Pids
    BY DEF IInv, TypeOK, KType, Current
  <2> QED BY <1>3, <2>1, KillCounts DEF Exit
<1>4. ASSUME NEW pid \in Pids, Wait(pid) PROVE CountsOK'
  <2> DEFINE dst == WaitQ(pid)
             s == "WAITING"
  <2>1. dst \in QueueIds \ CountQs /\ dst # Ready /\ s \in Statuses
    BY IdsFacts, IdsDistinct, CountIds DEF Statuses
  <2>2. k' \in do_wait(k, dst, s) /\ k.current # Shell /\ UNCHANGED syncVars
    BY <1>4, BlockingCaller DEF Wait
  <2> HIDE DEF dst, s
  <2> QED BY <2>1, <2>2, BlockCounts
<1>5. ASSUME NEW t \in SleepTicks, do_sleep(t) PROVE CountsOK'
  <2> DEFINE dst == SleepQ
             s == "SLEEPING"
  <2>1. dst \in QueueIds \ CountQs /\ dst # Ready /\ s \in Statuses
    BY IdsFacts, IdsDistinct, CountIds DEF Statuses
  <2>2. k' \in do_wait(k, dst, s) /\ k.current # Shell /\ UNCHANGED syncVars
    BY <1>5, BlockingCaller DEF do_sleep
  <2> HIDE DEF dst, s
  <2> QED BY <2>1, <2>2, BlockCounts
<1>6. CASE do_wait_recv_package
  <2> DEFINE dst == RecvQ
             s == "BLOCKED"
  <2>1. dst \in QueueIds \ CountQs /\ dst # Ready /\ s \in Statuses
    BY IdsFacts, IdsDistinct, CountIds DEF Statuses
  <2>2. k' \in do_wait(k, dst, s) /\ k.current # Shell /\ UNCHANGED syncVars
    BY <1>6, BlockingCaller DEF do_wait_recv_package
  <2> HIDE DEF dst, s
  <2> QED BY <2>1, <2>2, BlockCounts
<1> QED BY <1>1, <1>2, <1>3, <1>4, <1>5, <1>6 DEF TaskCall

\* Every step preserves CountsOK.
LEMMA NextCounts == IInv /\ CountsOK /\ [Next]_vars => CountsOK'
<1> SUFFICES ASSUME IInv, CountsOK, [Next]_vars PROVE CountsOK'
  OBVIOUS
<1>0. IInv'
  BY NextIInv
<1>1. CASE Tick
  BY <1>0, <1>1, TickCounts
<1>2. CASE IrqMac
  <2> DEFINE src == RecvQ
  <2>1. src \in QueueIds \ CountQs /\ src # Ready
    BY IdsFacts, IdsDistinct, CountIds
  <2>2. k' \in do_unblock_one(k, src, priority) /\ UNCHANGED syncVars
    BY <1>2 DEF IrqMac
  <2> HIDE DEF src
  <2> QED BY <1>0, <2>1, <2>2, WakeCounts
<1>3. CASE TaskCall
  BY <1>0, <1>3, TaskCounts
<1>4. ASSUME NEW x \in Locks, do_mutex_lock_acquire(x) PROVE CountsOK'
  <2>1. k.current # Shell /\ AcquireLoop(x) /\ UNCHANGED syncVars
    BY <1>4, BlockingCaller DEF do_mutex_lock_acquire
  <2> QED BY <1>0, <2>1, AcquireLoopCounts
<1>5. ASSUME NEW x \in Locks, do_mutex_lock_release(x) PROVE CountsOK'
  <2> DEFINE src == LockQ(x)
  <2>1. src \in QueueIds \ CountQs /\ src # Ready
    BY IdsFacts, IdsDistinct, CountIds
  <2>2. k' \in do_unblock_one(k, src, priority) /\ UNCHANGED syncVars
    BY <1>5 DEF do_mutex_lock_release
  <2> HIDE DEF src
  <2> QED BY <1>0, <2>1, <2>2, WakeCounts
<1>6. ASSUME NEW x \in Locks, Resume(x) PROVE CountsOK'
  <2>1. k.current # Shell /\ UNCHANGED syncVars
    BY <1>6, Resumer DEF Resume
  <2>2. CASE AcquireLoop(x)
    BY <1>0, <2>1, <2>2, AcquireLoopCounts
  <2>3. CASE UNCHANGED <<k, lock, lock_num>>
    BY <2>1, <2>3, IdleCounts DEF syncVars
  <2> QED BY <1>6, <2>2, <2>3 DEF Resume
<1>7. CASE SyncCall
  BY <1>7, SemUpCounts, SemDownCounts, CondWaitCounts, CondSignalCounts,
     BarrierWaitCounts, SyncInitCounts DEF SyncCall
<1>8. CASE UNCHANGED vars
  BY <1>8, IdleCounts DEF vars
<1> QED BY <1>1, <1>2, <1>3, <1>4, <1>5, <1>6, <1>7, <1>8 DEF Next, LockCall

\* Initially nobody waits and nothing is counted.
LEMMA InitCounts == Init => CountsOK
<1> SUFFICES ASSUME Init PROVE CountsOK
  OBVIOUS
<1>1. \A id \in CountQs : k.queue[id] = <<>>
  BY CountIds DEF Init
<1>2. Len(<<>>) = 0
  OBVIOUS
<1>3. SemsOK
  <2>1. ASSUME NEW x \in Sems PROVE Debt(sem[x]) = 0
    <3>1. PICK v \in SemValues : sem[x] = IF v < 0 THEN 0 ELSE v
      BY DEF Init
    <3> QED BY <3>1, ValuesAssumption DEF Debt
  <2> QED BY <1>1, <1>2, <2>1, CountIds DEF SemsOK, Counts
<1>4. CondsOK
  BY <1>1, <1>2, CountIds DEF CondsOK, Counts, Init
<1>5. BarriersOK
  <2>1. ASSUME NEW x \in Barriers
        PROVE  barrier[x].arrived = 0 /\ barrier[x].arrived < barrier[x].goal
    <3>1. PICK g \in Goals : barrier[x] = [goal |-> IF g < 1 THEN 1 ELSE g, arrived |-> 0]
      BY DEF Init
    <3> QED BY <3>1, ValuesAssumption
  <2> QED BY <1>1, <1>2, <2>1, CountIds DEF BarriersOK, Counts
<1> QED BY <1>3, <1>4, <1>5, CountsParts

\* Semaphores, conditions and barriers never count fewer tasks than wait on
\* them, count exactly those when no task is killed, and no barrier holds as
\* many tasks as its goal.
THEOREM KernelCounts == Spec => []CountsOK
<1>1. Init => IInv /\ CountsOK
  BY InitIInv, InitCounts
<1>2. (IInv /\ CountsOK) /\ [Next]_vars => (IInv /\ CountsOK)'
  BY NextIInv, NextCounts
<1> QED BY <1>1, <1>2, PTL DEF Spec

-----------------------------------------------------------------------------
\* The dynamic priority.

Ceil == [p \in Pids |-> Ceiling(p)]

\* BoostOK, and what a task has left is never used up.
BoostInv == BoostOK /\ \A p \in Live : 1 <= k.scheduler_priority[p]

\* What a task may have gained over one unit is at most its own priority.
LEMMA CeilFacts ==
  ASSUME IInv
  PROVE  Ceilings(Ceil) /\ (BoostInv <=> Bounded(k, Live, Ceil))
<1>1. \A p \in Pids : priority[p] \in Nat
  <2>1. priority \in [Pids -> Priorities \cup {0}]
    BY DEF IInv, TypeOK
  <2>2. \A v \in Priorities : v \in Nat
    BY ValuesAssumption
  <2> QED BY <2>1, <2>2
<1>2. Ceilings(Ceil)
  BY <1>1 DEF Ceilings, Ceil, Ceiling
<1>3. \A p \in Live : Ceil[p] = Ceiling(p)
  BY TasksPids DEF Ceil, Live
<1> QED BY <1>2, <1>3 DEF BoostInv, BoostOK, Bounded, Within

\* The same for the next state, when no task is created.
LEMMA CeilNext ==
  ASSUME UNCHANGED priority, Bounded(k', Live', Ceil)
  PROVE  BoostInv'
<1>1. \A p \in Live' : Ceil[p] = Ceiling(p)'
  <2>1. \A p \in Live' : p \in Pids
    BY TasksPids DEF Live
  <2> QED BY <2>1 DEF Ceil, Ceiling
<1> QED BY <1>1 DEF BoostInv, BoostOK, Bounded, Within

\* current_running gives the processor away.
LEMMA WaitBoost ==
  ASSUME NEW live, NEW k1, KInv(k1, live), k1.current # Shell,
         NEW dst \in QueueIds, dst # Ready, NEW s \in Statuses,
         NEW k2 \in do_wait(k1, dst, s), NEW c, Ceilings(c), Bounded(k1, live, c)
  PROVE  Bounded(k2, live, c)
<1>1. Sound(k1, QueueIds, live) /\ Shell \in live /\ k1.in[Shell] = Ready
  BY DEF KInv, KPart
<1> QED BY <1>1, IdsFacts, DoWaitBounded

\* One task is woken.
LEMMA UnblockBoost ==
  ASSUME NEW live, 0 \notin live, NEW k1, KInv(k1, live), NEW src \in QueueIds, src # Ready,
         NEW pr, NEW k2 \in do_unblock_one(k1, src, pr),
         NEW c, Ceilings(c), Bounded(k1, live, c)
  PROVE  Bounded(k2, live, c)
<1>1. Sound(k1, QueueIds, live) /\ (k1.current \in live => k1.in[k1.current] = Ready)
  BY DEF KInv, KPart
<1> QED BY <1>1, IdsFacts, UnblockOneBounded

\* main is not a task.
LEMMA MainNotLive == 0 \notin Live
BY TasksPids DEF Live

\* A step that only blocks the caller.
LEMMA BlockBoost ==
  ASSUME IInv, BoostInv, UNCHANGED <<pid_list, priority>>, k.current # Shell,
         NEW dst \in QueueIds, dst # Ready, NEW s \in Statuses, k' \in do_wait(k, dst, s)
  PROVE  BoostInv'
<1>1. Bounded(k', Live, Ceil)
  BY IInvParts, CeilFacts, WaitBoost
<1> QED BY <1>1, CeilNext, SameTasks

\* A step that only wakes a task, or none.
LEMMA WakeBoost ==
  ASSUME IInv, BoostInv, UNCHANGED <<pid_list, priority>>, NEW src \in QueueIds, src # Ready,
         k' \in do_unblock_one(k, src, priority)
  PROVE  BoostInv'
<1>1. Bounded(k', Live, Ceil)
  BY IInvParts, CeilFacts, UnblockBoost, MainNotLive
<1> QED BY <1>1, CeilNext, SameTasks

\* A step that wakes all tasks of a queue.
LEMMA WakeAllBoost ==
  ASSUME IInv, BoostInv, UNCHANGED <<pid_list, priority>>, NEW src \in QueueIds, src # Ready,
         k' = do_unblock_all(k, src)
  PROVE  BoostInv'
<1>1. Sound(k, QueueIds, Live) /\ (k.current \in Live => k.in[k.current] = Ready)
  BY IInvParts, MainNotLive DEF KInv, KPart
<1>2. Bounded(k', Live, Ceil)
  BY <1>1, IdsFacts, CeilFacts, UnblockAllBounded
<1> QED BY <1>2, CeilNext, SameTasks

\* A step that leaves the scheduling state alone.
LEMMA IdleBoost ==
  ASSUME BoostInv, UNCHANGED <<k, pid_list, priority>>
  PROVE  BoostInv'
BY DEF BoostInv, BoostOK, Live, Ceiling

\* irq_timer.
LEMMA TickBoost ==
  ASSUME IInv, BoostInv, Tick
  PROVE  BoostInv'
<1>1. KInv(k, Live) /\ Ceilings(Ceil) /\ Bounded(k, Live, Ceil)
  BY IInvParts, CeilFacts
<1>2. PICK k1 \in check_sleeping(k, awakened_time, time_elapsed') : k' \in scheduler(k1)
  BY DEF Tick
<1>3. Sound(k1, QueueIds, Live) /\ Wakes(k, k1, QueueIds)
  BY <1>1, <1>2, IdsFacts, CheckSleepingFacts DEF KInv, KPart
<1>4. KPart(k1, Live)
  BY <1>1, <1>3, WakesKPart DEF KInv
<1>5. Bounded(k1, Live, Ceil)
  BY <1>1, <1>2, IdsFacts, CheckSleepingBounded DEF KInv, KPart
<1>6. Bounded(k', Live, Ceil)
  BY <1>1, <1>2, <1>4, <1>5, IdsFacts, SchedulerBounded DEF KPart
<1>7. UNCHANGED <<pid_list, priority>>
  BY DEF Tick, taskVars
<1> QED BY <1>6, <1>7, CeilNext, SameTasks

\* A new task starts with its own priority.
LEMMA SpawnBoost ==
  ASSUME IInv, BoostInv, NEW pr \in Priorities, Spawn(pr)
  PROVE  BoostInv'
<1> DEFINE pid == slist_alloc_ret(pid_list)
<1>1. /\ pid \in Pids /\ pid # 0 /\ pid \notin Live /\ Live' = Live \cup {pid}
      /\ k'.in = [k.in EXCEPT ![pid] = Ready]
      /\ k'.scheduler_priority = [k.scheduler_priority EXCEPT ![pid] = pr]
      /\ k'.current = k.current
  BY SpawnFields, Zenon
<1>2. priority' = [priority EXCEPT ![pid] = pr]
  BY DEF Spawn
<1> HIDE DEF pid
<1>3. /\ k.in \in [Pids -> QueueIds \cup {NoQueue}] /\ k.scheduler_priority \in [Pids -> Nat]
      /\ priority \in [Pids -> Priorities \cup {0}] /\ pr \in Nat \ {0}
  BY ValuesAssumption DEF IInv, TypeOK, KType
<1>4. k.current # pid
  BY <1>1, IInvParts DEF KInv
<1>5. ASSUME NEW p \in Live'
      PROVE  /\ 1 <= k'.scheduler_priority[p]
             /\ k'.scheduler_priority[p] <= IF k'.in[p] = Ready /\ p # k'.current
                                            THEN Ceiling(p)' ELSE Ceiling(p)' - 1
  <2>1. CASE p = pid
    <3>1. k'.scheduler_priority[p] = pr /\ k'.in[p] = Ready /\ p # k'.current /\ priority'[p] = pr
      BY <1>1, <1>2, <1>3, <1>4, <2>1
    <3> QED BY <1>3, <3>1 DEF Ceiling
  <2>2. CASE p # pid
    <3>1. p \in Live /\ p \in Pids
      BY <1>1, <2>2, TasksPids DEF Live
    <3>2. /\ k'.scheduler_priority[p] = k.scheduler_priority[p] /\ k'.in[p] = k.in[p]
          /\ priority'[p] = priority[p]
      BY <1>1, <1>2, <1>3, <2>2, <3>1
    <3>3. Ceiling(p)' = Ceiling(p)
      BY <3>2 DEF Ceiling
    <3> QED BY <1>1, <3>1, <3>2, <3>3 DEF BoostInv, BoostOK
  <2> QED BY <2>1, <2>2
<1> QED BY <1>5 DEF BoostInv, BoostOK

\* The states kill goes through: without the task (k0), and with those woken
\* that it leaves behind (k1).
LEMMA KillSteps ==
  ASSUME IInv, NEW pid \in Pids, kill(pid)
  PROVE  \E k0, k1 :
           /\ Sound(k0, QueueIds, Live') /\ k0.in = k.in /\ k0.current = k.current
           /\ k0.scheduler_priority = k.scheduler_priority
           /\ \A d \in QueueIds : k.queue[d] = <<>> => k0.queue[d] = <<>>
           /\ Sound(k1, QueueIds, Live') /\ Wakes(k0, k1, QueueIds)
           /\ KillWoke(k0, k1, pid, Live')
           /\ \E p \in Live' : k1.in[p] = Ready
           /\ k' \in IF pid = Current THEN scheduler(k1) ELSE {k1}
<1>1. KInv(k, Live) /\ Sound(k, QueueIds, Live)
  BY IInvParts DEF KInv, KPart
<1>2. pid \in Live /\ pid # Shell /\ Live' = Live \ {pid}
  BY KillLive
<1> DEFINE id == k.in[pid]
<1>3. id \in QueueIds
  BY <1>1, <1>2, SoundTask
<1>4. PICK i \in DOMAIN k.queue[id] :
        /\ k.queue[id][i] = pid
        /\ \E k1 \in KillWakes(KillRemove(id, i), pid) :
             k' \in IF pid = Current THEN scheduler(k1) ELSE {k1}
  BY DEF kill
<1> DEFINE k0 == KillRemove(id, i)
<1>5. PICK k1 \in KillWakes(k0, pid) : k' \in IF pid = Current THEN scheduler(k1) ELSE {k1}
  BY <1>4
<1>6. /\ Sound(k0, QueueIds, Live') /\ k0.in = k.in /\ k0.current = k.current
      /\ \A d \in QueueIds : k.queue[d] = <<>> => k0.queue[d] = <<>>
  BY <1>1, <1>2, <1>3, <1>4, KillRemoveFacts
<1>7. k0.scheduler_priority = k.scheduler_priority
  BY <1>1 DEF KillRemove, Sound, KType
<1> HIDE DEF k0
<1>8. /\ Sound(k1, QueueIds, Live') /\ Wakes(k0, k1, QueueIds)
      /\ KillWoke(k0, k1, pid, Live')
  BY <1>5, <1>6, KillWakesFacts
<1>9. Shell \in Live' /\ k1.in[Shell] = Ready
  BY <1>1, <1>2, <1>6, <1>8, TasksPids DEF KInv, KPart, Wakes
<1> QED BY <1>5, <1>6, <1>7, <1>8, <1>9

\* kill raises the tasks it wakes by one unit each.
LEMMA KillBoost ==
  ASSUME IInv, BoostInv, NEW pid \in Pids, kill(pid)
  PROVE  BoostInv'
<1>1. PICK k0, k1 :
        /\ Sound(k0, QueueIds, Live') /\ k0.in = k.in /\ k0.current = k.current
        /\ k0.scheduler_priority = k.scheduler_priority
        /\ Sound(k1, QueueIds, Live')
        /\ KillWoke(k0, k1, pid, Live')
        /\ \E p \in Live' : k1.in[p] = Ready
        /\ k' \in IF pid = Current THEN scheduler(k1) ELSE {k1}
  BY KillSteps
<1>2. Live' \subseteq Live /\ 0 \notin Live
  BY KillLive, MainNotLive
<1>3. Ceilings(Ceil) /\ Bounded(k, Live, Ceil)
  BY CeilFacts
<1>4. Bounded(k0, Live', Ceil)
  BY <1>1, <1>2, <1>3 DEF Bounded, Within
<1>5. PICK q, woken : /\ Woken(k0, k1, QueueIds, q, woken)
                      /\ \A p \in ToSet(woken) : p \in Live' /\ k0.in[p] # Ready
  BY <1>1 DEF KillWoke
<1>6. \A p \in ToSet(woken) : k0.in[p] # Ready /\ p # k0.current
  BY <1>1, <1>2, <1>5, IInvParts DEF KInv
<1>7. Bounded(k1, Live', Ceil)
  BY <1>1, <1>3, <1>4, <1>5, <1>6, WokenBounded
<1>8. Bounded(k', Live', Ceil)
  <2>1. CASE pid = Current
    BY <1>1, <1>3, <1>7, <2>1, IdsFacts, SchedulerBounded
  <2>2. CASE pid # Current
    BY <1>1, <1>7, <2>2
  <2> QED BY <2>1, <2>2
<1> QED BY <1>8, CeilNext DEF kill

\* The synchronisation calls.
LEMMA SyncBoost ==
  ASSUME IInv, BoostInv, SyncCall
  PROVE  BoostInv'
<1>1. UNCHANGED <<pid_list, priority>>
  BY DEF SyncCall, do_semaphore_init, do_semaphore_up, do_semaphore_down, do_condition_init,
         do_condition_wait, do_condition_signal, do_condition_broadcast, do_barrier_init,
         do_barrier_wait, taskVars
<1>2. /\ \A x \in Sems : SemQ(x) \in QueueIds /\ SemQ(x) # Ready
      /\ \A x \in Conds : CondQ(x) \in QueueIds /\ CondQ(x) # Ready
      /\ \A x \in Barriers : BarrierQ(x) \in QueueIds /\ BarrierQ(x) # Ready
      /\ \A x \in Locks : LockQ(x) \in QueueIds /\ LockQ(x) # Ready
  BY IdsFacts, IdsDistinct
<1> DEFINE blo == "BLOCKED"
           wai == "WAITING"
<1>3. blo \in Statuses /\ wai \in Statuses
  BY DEF Statuses
<1>4. ASSUME NEW x \in Sems, do_semaphore_up(x) PROVE BoostInv'
  BY <1>1, <1>2, <1>4, WakeBoost, IdleBoost DEF do_semaphore_up
<1>5. ASSUME NEW x \in Sems, do_semaphore_down(x) PROVE BoostInv'
  <2>1. k' \in do_wait(k, SemQ(x), blo) \/ UNCHANGED k
    BY <1>5 DEF do_semaphore_down
  <2>2. k.current # Shell
    BY <1>5, Blocker DEF do_semaphore_down
  <2> HIDE DEF blo
  <2> QED BY <1>1, <1>2, <1>3, <2>1, <2>2, BlockBoost, IdleBoost
<1>6. ASSUME NEW x \in Conds, NEW m \in Locks, do_condition_wait(x, m) PROVE BoostInv'
  <2>1. \/ k' \in do_wait(k, CondQ(x), blo)
        \/ \E k1 \in do_unblock_one(k, LockQ(m), priority) : k' \in do_wait(k1, CondQ(x), blo)
    BY <1>6 DEF do_condition_wait
  <2>2. KInv(k, Live) /\ Sound(k, QueueIds, Live) /\ k.current # Shell
    BY <1>6, Blocker DEF do_condition_wait
  <2> HIDE DEF blo
  <2>3. CASE k' \in do_wait(k, CondQ(x), blo)
    BY <1>1, <1>2, <1>3, <2>2, <2>3, BlockBoost
  <2>4. ASSUME NEW k1 \in do_unblock_one(k, LockQ(m), priority),
               k' \in do_wait(k1, CondQ(x), blo)
        PROVE  BoostInv'
    <3>1. Sound(k1, QueueIds, Live) /\ Wakes(k, k1, QueueIds)
      BY <1>2, <2>2, IdsFacts, UnblockOneFacts
    <3>2. KInv(k1, Live) /\ k1.current # Shell
      BY <2>2, <3>1, WakesKInv DEF Wakes
    <3>3. Ceilings(Ceil) /\ Bounded(k1, Live, Ceil)
      BY <1>2, <2>2, CeilFacts, UnblockBoost, MainNotLive
    <3>4. Bounded(k', Live, Ceil)
      BY <1>2, <1>3, <2>4, <3>2, <3>3, WaitBoost
    <3> QED BY <1>1, <3>4, CeilNext, SameTasks
  <2> QED BY <2>1, <2>3, <2>4
<1>7. ASSUME NEW x \in Conds, do_condition_signal(x) PROVE BoostInv'
  BY <1>1, <1>2, <1>7, WakeBoost DEF do_condition_signal
<1>8. ASSUME NEW x \in Conds, do_condition_broadcast(x) PROVE BoostInv'
  BY <1>1, <1>2, <1>8, WakeAllBoost DEF do_condition_broadcast
<1>9. ASSUME NEW x \in Barriers, do_barrier_wait(x) PROVE BoostInv'
  <2>1. k' = do_unblock_all(k, BarrierQ(x)) \/ k' \in do_wait(k, BarrierQ(x), wai)
    BY <1>9 DEF do_barrier_wait, BarrierOpens
  <2>2. k.current # Shell
    BY <1>9, Blocker DEF do_barrier_wait
  <2> HIDE DEF wai
  <2> QED BY <1>1, <1>2, <1>3, <2>1, <2>2, BlockBoost, WakeAllBoost
<1>10. CASE UNCHANGED k
  BY <1>1, <1>10, IdleBoost
<1> QED BY <1>4, <1>5, <1>6, <1>7, <1>8, <1>9, <1>10
        DEF SyncCall, do_semaphore_init, do_condition_init, do_barrier_init

\* The other calls that block or wake.
LEMMA LockBoost ==
  ASSUME IInv, BoostInv, NEW x \in Locks, k.current # Shell, AcquireLoop(x),
         UNCHANGED <<pid_list, priority>>
  PROVE  BoostInv'
<1> DEFINE q == LockQ(x)
           s == "BLOCKED"
<1>1. q \in QueueIds /\ q # Ready /\ s \in Statuses
  BY IdsFacts, IdsDistinct DEF Statuses
<1>2. k' \in do_wait(k, q, s) \/ UNCHANGED k
  BY DEF AcquireLoop
<1> HIDE DEF q, s
<1> QED BY <1>1, <1>2, BlockBoost, IdleBoost

\* Every step preserves BoostInv.
LEMMA NextBoost == IInv /\ BoostInv /\ [Next]_vars => BoostInv'
<1> SUFFICES ASSUME IInv, BoostInv, [Next]_vars PROVE BoostInv'
  OBVIOUS
<1>1. CASE Tick
  BY <1>1, TickBoost
<1>2. CASE IrqMac
  <2>1. RecvQ \in QueueIds /\ RecvQ # Ready
    BY IdsFacts, IdsDistinct
  <2> QED BY <1>2, <2>1, WakeBoost DEF IrqMac, taskVars
<1>3. ASSUME NEW pr \in Priorities, Spawn(pr) PROVE BoostInv'
  BY <1>3, SpawnBoost
<1>4. ASSUME NEW pid \in Pids, Kill(pid) PROVE BoostInv'
  BY <1>4, KillBoost DEF Kill
<1>5. CASE Exit
  <2>1. Current \in Pids
    BY DEF IInv, TypeOK, KType, Current
  <2> QED BY <1>5, <2>1, KillBoost DEF Exit
<1>6. ASSUME NEW pid \in Pids, Wait(pid) PROVE BoostInv'
  <2> DEFINE dst == WaitQ(pid)
             s == "WAITING"
  <2>1. dst \in QueueIds /\ dst # Ready /\ s \in Statuses
    BY IdsFacts, IdsDistinct DEF Statuses
  <2>2. k' \in do_wait(k, dst, s) /\ k.current # Shell /\ UNCHANGED <<pid_list, priority>>
    BY <1>6, BlockingCaller DEF Wait, taskVars
  <2> HIDE DEF dst, s
  <2> QED BY <2>1, <2>2, BlockBoost
<1>7. ASSUME NEW t \in SleepTicks, do_sleep(t) PROVE BoostInv'
  <2> DEFINE s == "SLEEPING"
  <2>1. SleepQ \in QueueIds /\ SleepQ # Ready /\ s \in Statuses
    BY IdsFacts, IdsDistinct DEF Statuses
  <2>2. k' \in do_wait(k, SleepQ, s) /\ k.current # Shell /\ UNCHANGED <<pid_list, priority>>
    BY <1>7, BlockingCaller DEF do_sleep, taskVars
  <2> HIDE DEF s
  <2> QED BY <2>1, <2>2, BlockBoost
<1>8. CASE do_wait_recv_package
  <2> DEFINE s == "BLOCKED"
  <2>1. RecvQ \in QueueIds /\ RecvQ # Ready /\ s \in Statuses
    BY IdsFacts, IdsDistinct DEF Statuses
  <2>2. k' \in do_wait(k, RecvQ, s) /\ k.current # Shell /\ UNCHANGED <<pid_list, priority>>
    BY <1>8, BlockingCaller DEF do_wait_recv_package, taskVars
  <2> HIDE DEF s
  <2> QED BY <2>1, <2>2, BlockBoost
<1>9. ASSUME NEW x \in Locks, do_mutex_lock_acquire(x) PROVE BoostInv'
  BY <1>9, BlockingCaller, LockBoost DEF do_mutex_lock_acquire, taskVars
<1>10. ASSUME NEW x \in Locks, do_mutex_lock_release(x) PROVE BoostInv'
  <2>1. LockQ(x) \in QueueIds /\ LockQ(x) # Ready
    BY IdsFacts, IdsDistinct
  <2> QED BY <1>10, <2>1, WakeBoost DEF do_mutex_lock_release, taskVars
<1>11. CASE SyncCall
  BY <1>11, SyncBoost
<1>12. ASSUME NEW x \in Locks, Resume(x) PROVE BoostInv'
  <2>1. k.current # Shell /\ UNCHANGED <<pid_list, priority>>
    BY <1>12, Resumer DEF Resume, taskVars
  <2> QED BY <1>12, <2>1, LockBoost, IdleBoost DEF Resume
<1>13. CASE UNCHANGED vars
  BY <1>13, IdleBoost DEF vars
<1> QED BY <1>1, <1>2, <1>3, <1>4, <1>5, <1>6, <1>7, <1>8, <1>9, <1>10, <1>11, <1>12, <1>13
        DEF Next, TaskCall, LockCall

\* Initially every task has its own priority.
LEMMA InitBoost == Init => BoostInv
<1> SUFFICES ASSUME Init PROVE BoostInv
  OBVIOUS
<1>1. /\ k.scheduler_priority = priority /\ k.current = 0
      /\ \A p \in Live : p \in {1, 2} /\ k.in[p] = Ready
  <2>1. \A p \in Live : p \in Pids /\ p \in {1, 2}
    BY InitPids, TasksPids DEF Init, Live
  <2> QED BY <2>1 DEF Init
<1>2. \A p \in Live : priority[p] \in Nat \ {0} /\ p # 0
  <2>1. \A p \in Live : p \in Pids
    BY TasksPids DEF Live
  <2>2. \A v \in Priorities : v \in Nat \ {0}
    BY ValuesAssumption
  <2>3. PICK a \in Priorities, b \in Priorities :
          priority = [p \in Pids |-> IF p = 1 THEN a ELSE IF p = 2 THEN b ELSE 0]
    BY DEF Init
  <2> QED BY <1>1, <2>1, <2>2, <2>3
<1> QED BY <1>1, <1>2 DEF BoostInv, BoostOK, Ceiling

\* scheduler_priority never exceeds the greater of priority and 2: what
\* do_unblock_one adds is spent before the task can block again.
THEOREM KernelBoost == Spec => []BoostOK
<1>1. Init => IInv /\ BoostInv
  BY InitIInv, InitBoost
<1>2. (IInv /\ BoostInv) /\ [Next]_vars => (IInv /\ BoostInv)'
  BY NextIInv, NextBoost
<1>3. BoostInv => BoostOK
  BY DEF BoostInv
<1> QED BY <1>1, <1>2, <1>3, PTL DEF Spec

-----------------------------------------------------------------------------
\* Selection.

\* A task has the priority it was created with.
OwnPriority == \A p \in Live : priority[p] \in Priorities

\* Only init_pcb assigns a priority.
LEMMA NextOwn == IInv /\ OwnPriority /\ [Next]_vars => OwnPriority'
<1> SUFFICES ASSUME IInv, OwnPriority, [Next]_vars PROVE OwnPriority'
  OBVIOUS
<1>1. ASSUME NEW pr \in Priorities, Spawn(pr) PROVE OwnPriority'
  <2> DEFINE pid == slist_alloc_ret(pid_list)
  <2>1. pid \in Pids /\ Live' = Live \cup {pid}
    BY <1>1, SpawnFields, Zenon
  <2>2. priority' = [priority EXCEPT ![pid] = pr] /\ priority \in [Pids -> Priorities \cup {0}]
    BY <1>1 DEF Spawn, IInv, TypeOK
  <2> HIDE DEF pid
  <2>3. \A p \in Live : p \in Pids
    BY TasksPids DEF Live
  <2> QED BY <2>1, <2>2, <2>3 DEF OwnPriority
<1>2. ASSUME NEW pid \in Pids, kill(pid) PROVE OwnPriority'
  <2>1. Live' \subseteq Live
    BY <1>2, KillLive
  <2>2. UNCHANGED priority
    BY <1>2 DEF kill
  <2> QED BY <2>1, <2>2 DEF OwnPriority
<1>3. CASE UNCHANGED taskVars
  BY <1>3 DEF OwnPriority, Live, taskVars
<1>4. Current \in Pids
  BY DEF IInv, TypeOK, KType, Current
<1>5. CASE SyncCall
  BY <1>3, <1>5
     DEF SyncCall, do_semaphore_init, do_semaphore_up, do_semaphore_down, do_condition_init,
         do_condition_wait, do_condition_signal, do_condition_broadcast, do_barrier_init,
         do_barrier_wait
<1>6. CASE TaskCall
  <2>1. CASE UNCHANGED taskVars
    BY <1>3, <2>1
  <2> QED BY <1>1, <1>2, <1>4, <1>6, <2>1
          DEF TaskCall, Kill, Exit, Wait, do_sleep, do_wait_recv_package
<1>7. CASE LockCall
  BY <1>3, <1>7 DEF LockCall, do_mutex_lock_acquire, do_mutex_lock_release
<1>8. CASE UNCHANGED vars
  BY <1>3, <1>8 DEF vars, taskVars
<1>9. CASE Tick \/ IrqMac \/ \E x \in Locks : Resume(x)
  BY <1>3, <1>9 DEF Tick, IrqMac, Resume
<1> QED BY <1>5, <1>6, <1>7, <1>8, <1>9 DEF Next

\* In every queue the loop selects the task that the comment in scheduler()
\* promises, and so it never ends without a task.
LEMMA SelectionFacts == IInv /\ BoostInv /\ OwnPriority => SelectionOK
<1> SUFFICES ASSUME IInv, BoostInv, OwnPriority, NEW q \in QueueIds, k.queue[q] # <<>>,
                    NEW pri, pri = IF q = Ready THEN k.scheduler_priority ELSE priority
             PROVE  /\ Selected(k.queue[q], pri, k.wait_time) \in DOMAIN k.queue[q]
                    /\ Best(k.queue[q], pri, Selected(k.queue[q], pri, k.wait_time))
  BY DEF SelectionOK
<1> DEFINE s == k.queue[q]
           wait == k.wait_time
           i == Selected(s, pri, wait)
<1>1. /\ Sound(k, QueueIds, Live) /\ k.queue \in [QueueIds -> Seq(Tasks)]
      /\ k.scheduler_priority \in [Pids -> Nat] /\ wait \in [Pids -> Nat]
      /\ priority \in [Pids -> Nat]
  <2>1. priority \in [Pids -> Priorities \cup {0}] /\ \A v \in Priorities : v \in Nat
    BY ValuesAssumption DEF IInv, TypeOK
  <2> QED BY <2>1, IInvParts DEF KInv, KPart, Sound, KType
<1>2. pri \in [Pids -> Nat] /\ s \in Seq(Pids)
  <2>1. s \in Seq(Tasks) /\ Tasks \subseteq Pids
    BY <1>1, TasksPids
  <2> HIDE DEF s
  <2>2. s \in Seq(Pids)
    BY <2>1
  <2> QED BY <1>1, <2>2
<1>3. ASSUME NEW j \in DOMAIN s PROVE pri[s[j]] >= 1
  <2>1. s[j] \in Live
    BY <1>1, SoundQueue DEF ToSet
  <2>2. priority[s[j]] \in Nat \ {0}
    BY <2>1, ValuesAssumption DEF OwnPriority
  <2>3. 1 <= k.scheduler_priority[s[j]] /\ k.scheduler_priority[s[j]] \in Nat
    BY <1>1, <2>1, TasksPids DEF BoostInv, Live
  <2> QED BY <2>2, <2>3
<1> HIDE DEF s, wait
<1>4. /\ i \in DOMAIN s
      /\ \A j \in DOMAIN s : \/ pri[s[j]] < pri[s[i]]
                             \/ pri[s[j]] = pri[s[i]] /\ wait[s[j]] <= wait[s[i]]
  <2>1. s # <<>>
    BY DEF s
  <2> QED BY <1>1, <1>2, <1>3, <2>1, SelectedBest, Zenon
<1> QED BY <1>4 DEF Best, s, wait

\* Initially the shell and io_proc have their priorities.
LEMMA InitOwn == Init => OwnPriority
<1> SUFFICES ASSUME Init PROVE OwnPriority
  OBVIOUS
<1>1. \A p \in Live : p \in Pids /\ p \in {1, 2}
  BY InitPids, TasksPids DEF Init, Live
<1>2. PICK a \in Priorities, b \in Priorities :
        priority = [p \in Pids |-> IF p = 1 THEN a ELSE IF p = 2 THEN b ELSE 0]
  BY DEF Init
<1> QED BY <1>1, <1>2 DEF OwnPriority

\* The loops of scheduler() and do_unblock_one() "select the one possesses max
\* priority and max wait_time" in every queue of every state.
THEOREM KernelSelection == Spec => []SelectionOK
<1>1. Init => IInv /\ BoostInv /\ OwnPriority
  BY InitIInv, InitBoost, InitOwn
<1>2. (IInv /\ BoostInv /\ OwnPriority) /\ [Next]_vars => (IInv /\ BoostInv /\ OwnPriority)'
  BY NextIInv, NextBoost, NextOwn
<1> QED BY <1>1, <1>2, SelectionFacts, PTL DEF Spec

-----------------------------------------------------------------------------
\* The promise of a free lock.

\* A task that is blocked on a lock goes on in the loop of
\* do_mutex_lock_acquire.
BlockedOK == \A p \in Live : \A x \in Locks : k.in[p] = LockQ(x) => cont[p] = Loop(x)

\* The lock is free and tasks are blocked on it.
Idle(x) == lock[x].status = "UNLOCKED" /\ k.queue[LockQ(x)] # <<>>

Promised(x) == \E p \in Live : k.in[p] = Ready /\ cont[p] \in {Loop(x), Entry(x)}

\* The inductive invariant, for systems without kill().
PromiseInv ==
  "kill" \notin Syscalls => BlockedOK /\ \A x \in Locks : Idle(x) => Promised(x)

\* What a step owes to the promises: tasks other than current_running keep
\* their place or become ready; current_running and new tasks block on a lock
\* only in its loop; and a lock that is idle afterwards was idle before, with a
\* promise that is not current_running's, or a task has been woken for it.
Respects ==
  /\ \A p \in Live : p # Current =>
       /\ p \in Live' /\ cont'[p] = cont[p]
       /\ k'.in[p] = k.in[p] \/ k'.in[p] = Ready
  /\ \A p \in Live' : p \notin Live \/ p = Current =>
       \A x \in Locks : k'.in[p] = LockQ(x) => cont'[p] = Loop(x)
  /\ \A x \in Locks : Idle(x)' =>
       \/ Idle(x) /\ cont[Current] \notin {Loop(x), Entry(x)}
       \/ \E p \in Live : p # Current /\ k.in[p] = LockQ(x) /\ k'.in[p] = Ready

\* Such a step preserves the invariant.
LEMMA RespectsPromise ==
  ASSUME PromiseInv, "kill" \notin Syscalls, Respects
  PROVE  PromiseInv'
<1>1. BlockedOK /\ \A x \in Locks : Idle(x) => Promised(x)
  BY DEF PromiseInv
<1>2. \A x \in Locks : LockQ(x) # Ready
  BY IdsDistinct
<1>3. BlockedOK'
  BY <1>1, <1>2 DEF BlockedOK, Respects
<1>4. ASSUME NEW x \in Locks, Idle(x)' PROVE Promised(x)'
  <2>1. CASE Idle(x) /\ cont[Current] \notin {Loop(x), Entry(x)}
    <3>1. PICK p \in Live : k.in[p] = Ready /\ cont[p] \in {Loop(x), Entry(x)}
      BY <1>1, <2>1 DEF Promised
    <3>2. p # Current
      BY <2>1, <3>1
    <3> QED BY <3>1, <3>2 DEF Promised, Respects
  <2>2. CASE \E p \in Live : p # Current /\ k.in[p] = LockQ(x) /\ k'.in[p] = Ready
    <3>1. PICK p \in Live : p # Current /\ k.in[p] = LockQ(x) /\ k'.in[p] = Ready
      BY <2>2
    <3>2. cont[p] = Loop(x)
      BY <1>1, <3>1 DEF BlockedOK
    <3> QED BY <3>1, <3>2 DEF Promised, Respects
  <2> QED BY <1>4, <2>1, <2>2 DEF Respects
<1> QED BY <1>3, <1>4 DEF PromiseInv

\* No queue but the ready queue and those of S has been joined.
Unjoined(S) ==
  \A id \in QueueIds : id # Ready /\ id \notin S /\ k.queue[id] = <<>> => k'.queue[id] = <<>>

\* What continuations are not.
LEMMA ContsDistinct ==
  ASSUME NEW x, NEW y
  PROVE  /\ User \notin {Loop(x), Entry(x)}
         /\ x # y => Loop(y) \notin {Loop(x), Entry(x)} /\ Entry(y) \notin {Loop(x), Entry(x)}
BY DEF User, Loop, Entry

\* A call or an interrupt that has nothing to do with locks.
LEMMA QuietRespects ==
  ASSUME IInv, cont[Current] = User, UNCHANGED <<cont, lock, pid_list>>,
         \A p \in Live : p # Current => k'.in[p] = k.in[p] \/ k'.in[p] = Ready,
         Current \in Live => \A x \in Locks : k'.in[Current] # LockQ(x),
         NEW S, \A x \in Locks : LockQ(x) \notin S, Unjoined(S)
  PROVE  Respects
<1>1. Live' = Live
  BY DEF Live
<1>2. \A x \in Locks : Idle(x)' => Idle(x)
  BY IdsFacts, IdsDistinct DEF Idle, Unjoined
<1> QED BY <1>1, <1>2, ContsDistinct DEF Respects

\* A quiet call that blocks the caller.
LEMMA BlockRespects ==
  ASSUME IInv, NEW name, Calls(name), name \notin {"spawn", "kill"},
         UNCHANGED <<cont, lock, pid_list>>,
         NEW dst \in QueueIds, dst # Ready, \A x \in Locks : dst # LockQ(x),
         NEW s \in Statuses, k' \in do_wait(k, dst, s)
  PROVE  Respects
<1>1. /\ KInv(k, Live) /\ Sound(k, QueueIds, Live) /\ k.current \in Pids
      /\ k.current # Shell /\ cont[Current] = User
  BY Blocker DEF Current
<1>2. Shell \in Live /\ k.in[Shell] = Ready /\ k.in \in [Pids -> QueueIds \cup {NoQueue}]
  BY <1>1 DEF KInv, KPart, Sound, KType
<1>3. /\ k'.in = [k.in EXCEPT ![k.current] = dst]
      /\ \A id \in QueueIds : id # dst /\ k.queue[id] = <<>> => k'.queue[id] = <<>>
  BY <1>1, <1>2, IdsFacts, DoWaitFacts
<1>4. Unjoined({dst}) /\ k'.in[Current] = dst
  BY <1>1, <1>2, <1>3 DEF Unjoined, Current
<1>5. \A p \in Live : p # Current => k'.in[p] = k.in[p]
  BY <1>2, <1>3, TasksPids DEF Current, Live
<1> QED BY <1>1, <1>4, <1>5, QuietRespects

\* A quiet step that wakes tasks.
LEMMA WakeRespects ==
  ASSUME IInv, cont[Current] = User, UNCHANGED <<cont, lock, pid_list>>, NEW k1,
         Wakes(k, k1, QueueIds), k'.queue = k1.queue, k'.in = k1.in
  PROVE  Respects
<1> DEFINE none == {}
<1>1. \A p \in Live : p \in Pids
  BY TasksPids DEF Live
<1>2. Unjoined(none) /\ \A x \in Locks : LockQ(x) \notin none
  BY DEF Unjoined, Wakes
<1>3. \A p \in Live : k'.in[p] = k.in[p] \/ k'.in[p] = Ready
  BY <1>1 DEF Wakes
<1>4. Current \in Live => \A x \in Locks : k'.in[Current] # LockQ(x)
  BY <1>3, IInvParts, MainNotLive, IdsDistinct DEF KInv, Current
<1> HIDE DEF none
<1> QED BY <1>2, <1>3, <1>4, QuietRespects

\* A quiet call that changes no queue.
LEMMA IdleRespects ==
  ASSUME IInv, cont[Current] = User, UNCHANGED <<k, cont, lock, pid_list>>
  PROVE  Respects
<1>1. Wakes(k, k, QueueIds)
  BY DEF Wakes
<1> QED BY <1>1, WakeRespects

\* irq_timer and irq_mac.
LEMMA IrqRespects ==
  ASSUME IInv, Tick \/ IrqMac
  PROVE  Respects
<1>1. KInv(k, Live) /\ Sound(k, QueueIds, Live)
  BY IInvParts DEF KInv, KPart
<1>2. cont[Current] = User /\ UNCHANGED <<cont, lock, pid_list>>
  BY DEF Tick, IrqMac, UserMode, Current, taskVars
<1>3. CASE Tick
  <2>1. PICK k1 \in check_sleeping(k, awakened_time, time_elapsed') : k' \in scheduler(k1)
    BY <1>3 DEF Tick
  <2>2. Sound(k1, QueueIds, Live) /\ Wakes(k, k1, QueueIds)
    BY <1>1, <2>1, IdsFacts, CheckSleepingFacts
  <2>3. KPart(k1, Live)
    BY <1>1, <2>2, WakesKPart DEF KInv
  <2>4. k'.queue = k1.queue /\ k'.in = k1.in
    BY <2>1, <2>3, IdsFacts, SchedulerFacts DEF KPart, Switches
  <2> QED BY <1>2, <2>2, <2>4, WakeRespects
<1>4. CASE IrqMac
  <2>1. Wakes(k, k', QueueIds)
    BY <1>1, <1>4, IdsFacts, UnblockOneFacts DEF IrqMac
  <2> QED BY <1>2, <2>1, WakeRespects
<1> QED BY <1>3, <1>4

\* A new task is ready and blocks on nothing.
LEMMA SpawnRespects ==
  ASSUME IInv, NEW pr \in Priorities, Spawn(pr)
  PROVE  Respects
<1> DEFINE pid == slist_alloc_ret(pid_list)
<1>1. /\ pid \in Pids /\ pid # 0 /\ pid \notin Live /\ Live' = Live \cup {pid}
      /\ Keeps(k, k', QueueIds, {WaitQ(pid)})
      /\ k'.in = [k.in EXCEPT ![pid] = Ready]
  BY SpawnFields, Zenon
<1>2. cont' = [cont EXCEPT ![pid] = User] /\ lock' = lock /\ cont[Current] = User
  BY DEF Spawn, Calls, UserMode, Current
<1> HIDE DEF pid
<1>3. k.in \in [Pids -> QueueIds \cup {NoQueue}] /\ cont \in [Pids -> Conts]
  BY DEF IInv, TypeOK, KType
<1>4. \A p \in Live : p \in Pids /\ cont'[p] = cont[p] /\ k'.in[p] = k.in[p]
  BY <1>1, <1>2, <1>3, TasksPids DEF Live
<1>5. Current \in Live => k.in[Current] = Ready
  BY IInvParts, MainNotLive DEF KInv, Current
<1>6. \A p \in Live' : p \notin Live \/ p = Current => k'.in[p] = Ready
  BY <1>1, <1>3, <1>4, <1>5
<1>7. \A x \in Locks : Idle(x)' => Idle(x)
  BY <1>1, <1>2, IdsFacts, IdsDistinct DEF Idle, Keeps
<1> QED BY <1>1, <1>2, <1>4, <1>6, <1>7, ContsDistinct, IdsDistinct DEF Respects

\* A task that exits wakes one task for each lock it leaves.
LEMMA ExitRespects ==
  ASSUME IInv, Exit
  PROVE  Respects
<1>1. Current \in Pids /\ kill(Current) /\ cont[Current] = User
  BY DEF Exit, Calls, UserMode, IInv, TypeOK, KType, Current
<1>2. PICK k0, k1 :
        /\ Sound(k0, QueueIds, Live') /\ k0.in = k.in
        /\ \A d \in QueueIds : k.queue[d] = <<>> => k0.queue[d] = <<>>
        /\ Sound(k1, QueueIds, Live') /\ Wakes(k0, k1, QueueIds)
        /\ KillWoke(k0, k1, Current, Live')
        /\ \E p \in Live' : k1.in[p] = Ready
        /\ k' \in scheduler(k1)
  BY <1>1, KillSteps
<1>3. Live' = Live \ {Current}
  BY <1>1, KillLive
<1>4. k'.queue = k1.queue /\ k'.in = k1.in
  BY <1>2, IdsFacts, SchedulerFacts DEF Switches
<1>5. cont' = cont /\ \A x \in Locks : x \notin Released(Current) => lock'[x] = lock[x]
  BY <1>1 DEF kill
<1>6. \A p \in Live : p # Current => k'.in[p] = k.in[p] \/ k'.in[p] = Ready
  BY <1>2, <1>4, TasksPids DEF Wakes, Live
<1>7. ASSUME NEW x \in Locks, Idle(x)'
      PROVE  \/ Idle(x) /\ cont[Current] \notin {Loop(x), Entry(x)}
             \/ \E p \in Live : p # Current /\ k.in[p] = LockQ(x) /\ k'.in[p] = Ready
  <2>1. LockQ(x) \in QueueIds /\ LockQ(x) # Ready /\ k1.queue[LockQ(x)] # <<>>
    BY <1>4, <1>7, IdsFacts, IdsDistinct DEF Idle
  <2>2. k0.queue[LockQ(x)] # <<>> /\ k.queue[LockQ(x)] # <<>>
    BY <1>2, <2>1 DEF Wakes
  <2>3. CASE x \in Released(Current)
    <3>1. PICK p \in ToSet(k0.queue[LockQ(x)]) : k1.in[p] = Ready
      BY <1>2, <2>2, <2>3 DEF KillWoke, BlockedOn
    <3>2. p \in Live' /\ k0.in[p] = LockQ(x)
      BY <1>2, <2>1, SoundQueue
    <3> QED BY <1>2, <1>3, <1>4, <3>1, <3>2
  <2>4. CASE x \notin Released(Current)
    BY <1>1, <1>5, <1>7, <2>2, <2>4, ContsDistinct DEF Idle
  <2> QED BY <2>3, <2>4
<1> QED BY <1>3, <1>5, <1>6, <1>7 DEF Respects

\* The loop of do_mutex_lock_acquire blocks the caller on a lock that is held,
\* or takes it.
LEMMA AcquireRespects ==
  ASSUME IInv, NEW x \in Locks, k.current # 0, k.current # Shell, AcquireLoop(x),
         cont[Current] \in {User, Loop(x), Entry(x)}, UNCHANGED pid_list
  PROVE  Respects
<1>1. /\ KInv(k, Live) /\ Sound(k, QueueIds, Live) /\ k.current \in Pids
      /\ k.current \in Live /\ k.in[k.current] = Ready
      /\ Shell \in Live /\ k.in[Shell] = Ready
  BY IInvParts DEF KInv, KPart, Sound, KType
<1>2. /\ k.in \in [Pids -> QueueIds \cup {NoQueue}] /\ cont \in [Pids -> Conts]
      /\ lock \in [Locks -> [status : {"LOCKED", "UNLOCKED"}, owner : Pids]]
  BY DEF IInv, TypeOK, KType
<1>3. Live' = Live /\ \A p \in Live : p \in Pids
  BY TasksPids DEF Live
<1>4. \A y \in Locks : y # x => cont[Current] \notin {Loop(y), Entry(y)}
  BY ContsDistinct
<1>5. CASE lock[x].status = "LOCKED"
  <2> DEFINE q == LockQ(x)
             s == "BLOCKED"
  <2>1. q \in QueueIds /\ q # Ready /\ s \in Statuses
    BY IdsFacts, IdsDistinct DEF Statuses
  <2>2. /\ k' \in do_wait(k, q, s) /\ lock' = lock
        /\ cont' = [cont EXCEPT ![Current] = Loop(x)]
    BY <1>5 DEF AcquireLoop
  <2> HIDE DEF q, s
  <2>3. /\ k'.in = [k.in EXCEPT ![k.current] = q]
        /\ \A id \in QueueIds : id # q /\ k.queue[id] = <<>> => k'.queue[id] = <<>>
    BY <1>1, <2>1, <2>2, IdsFacts, DoWaitFacts
  <2>4. \A p \in Live : p # Current => cont'[p] = cont[p] /\ k'.in[p] = k.in[p]
    BY <1>2, <1>3, <2>2, <2>3 DEF Current
  <2>5. k'.in[Current] = q /\ cont'[Current] = Loop(x)
    BY <1>1, <1>2, <2>2, <2>3 DEF Current
  <2>6. \A y \in Locks : Idle(y)' => y # x /\ Idle(y)
    BY <1>5, <2>2, <2>3, IdsFacts, IdsDistinct DEF Idle, q
  <2> QED BY <1>3, <1>4, <2>4, <2>5, <2>6, IdsDistinct DEF Respects, q
<1>6. CASE lock[x].status = "UNLOCKED"
  <2>1. /\ lock' = [lock EXCEPT ![x] = [status |-> "LOCKED", owner |-> Current]]
        /\ cont' = [cont EXCEPT ![Current] = User] /\ k' = k
    BY <1>6 DEF AcquireLoop
  <2>2. \A y \in Locks : Idle(y)' => y # x /\ Idle(y)
    BY <1>2, <2>1 DEF Idle
  <2>3. \A p \in Live : p # Current => cont'[p] = cont[p] /\ k'.in[p] = k.in[p]
    BY <1>2, <1>3, <2>1
  <2>4. k'.in[Current] = Ready
    BY <1>1, <2>1 DEF Current
  <2> QED BY <1>3, <1>4, <2>2, <2>3, <2>4, IdsDistinct DEF Respects
<1> QED BY <1>5, <1>6 DEF AcquireLoop

\* A task that goes on in the kernel takes the lock it was promised, blocks
\* again, or finds that it holds the lock.
LEMMA ResumeRespects ==
  ASSUME IInv, LocksOK, NEW x \in Locks, Resume(x)
  PROVE  Respects
<1>1. k.current \in Pids /\ k.current # 0 /\ k.current # Shell /\ UNCHANGED pid_list
  BY Resumer DEF Resume, taskVars
<1>2. CASE AcquireLoop(x)
  BY <1>1, <1>2, AcquireRespects DEF Resume
<1>3. CASE ~ AcquireLoop(x)
  <2>1. /\ cont[Current] = Entry(x) /\ lock[x].owner = Current
        /\ cont' = [cont EXCEPT ![Current] = User] /\ UNCHANGED <<k, lock>>
    BY <1>3 DEF Resume
  <2>2. lock[x].status = "LOCKED"
    BY <1>1, <2>1 DEF LocksOK, Current
  <2>3. cont \in [Pids -> Conts] /\ \A p \in Live : p \in Pids
    BY TasksPids DEF IInv, TypeOK, Live
  <2>4. Live' = Live /\ \A p \in Live : p # Current => cont'[p] = cont[p]
    BY <1>1, <2>1, <2>3 DEF Live
  <2>5. k'.in[Current] = Ready
    BY <1>1, <2>1, IInvParts DEF KInv, Current
  <2>6. \A y \in Locks : Idle(y)' => Idle(y) /\ y # x
    BY <2>1, <2>2 DEF Idle
  <2>7. \A y \in Locks : y # x => cont[Current] \notin {Loop(y), Entry(y)}
    BY <2>1, ContsDistinct
  <2> QED BY <2>1, <2>4, <2>5, <2>6, <2>7, IdsDistinct DEF Respects
<1> QED BY <1>2, <1>3

\* No other queue is the queue of a lock.
LEMMA LockQs ==
  ASSUME NEW x, NEW y
  PROVE  /\ SleepQ # LockQ(y) /\ RecvQ # LockQ(y) /\ WaitQ(x) # LockQ(y)
         /\ SemQ(x) # LockQ(y) /\ CondQ(x) # LockQ(y) /\ BarrierQ(x) # LockQ(y)
BY DEF SleepQ, RecvQ, WaitQ, LockQ, SemQ, CondQ, BarrierQ

\* do_unblock_one on the queue of a lock wakes one of those who are blocked
\* there, and joins nobody to another queue.
LEMMA UnblockLock ==
  ASSUME IInv, NEW m \in Locks, NEW k1 \in do_unblock_one(k, LockQ(m), priority)
  PROVE  /\ Sound(k1, QueueIds, Live) /\ Wakes(k, k1, QueueIds)
         /\ k1.queue[LockQ(m)] # <<>> =>
              \E p \in Live : k.in[p] = LockQ(m) /\ k1.in[p] = Ready
<1> DEFINE q == LockQ(m)
<1>1. Sound(k, QueueIds, Live) /\ q \in QueueIds /\ q # Ready
  BY IInvParts, IdsFacts, IdsDistinct DEF KInv, KPart
<1> HIDE DEF q
<1>2. k1 \in do_unblock_one(k, q, priority)
  BY DEF q
<1>3. Sound(k1, QueueIds, Live) /\ Wakes(k, k1, QueueIds)
  BY <1>1, <1>2, IdsFacts, UnblockOneFacts
<1>4. ASSUME k1.queue[q] # <<>> PROVE \E p \in Live : k.in[p] = q /\ k1.in[p] = Ready
  <2>1. k.queue[q] # <<>>
    BY <1>1, <1>3, <1>4 DEF Wakes
  <2>2. PICK p \in ToSet(k.queue[q]) : k1.in[p] = Ready
    <3>1. ReadyOne(k, k1, q)
      BY <1>1, <1>2, <2>1, IdsFacts, UnblockOneQueues
    <3> QED BY <3>1 DEF ReadyOne
  <2>3. p \in Live /\ k.in[p] = q
    BY <1>1, <2>2, SoundQueue
  <2> QED BY <2>2, <2>3
<1> QED BY <1>3, <1>4 DEF q

\* do_mutex_lock_release hands the lock to one of those who are blocked on it.
LEMMA ReleaseRespects ==
  ASSUME IInv, NEW x \in Locks, do_mutex_lock_release(x)
  PROVE  Respects
<1>1. /\ k.current \in Live /\ k.in[k.current] = Ready /\ cont[Current] = User
      /\ UNCHANGED <<cont, pid_list>>
      /\ lock' = [lock EXCEPT ![x] = [status |-> "UNLOCKED", owner |-> 0]]
      /\ k' \in do_unblock_one(k, LockQ(x), priority)
  BY Blocker DEF do_mutex_lock_release, Unlock, taskVars, Current
<1>2. /\ Wakes(k, k', QueueIds)
      /\ k'.queue[LockQ(x)] # <<>> =>
           \E p \in Live : k.in[p] = LockQ(x) /\ k'.in[p] = Ready
  BY <1>1, UnblockLock
<1>3. Live' = Live /\ lock \in [Locks -> [status : {"LOCKED", "UNLOCKED"}, owner : Pids]]
  BY <1>1 DEF Live, IInv, TypeOK
<1>4. \A p \in Live : k'.in[p] = k.in[p] \/ k'.in[p] = Ready
  BY <1>2, TasksPids DEF Wakes, Live
<1>5. k'.in[Current] = Ready
  BY <1>1, <1>4 DEF Current
<1>6. \A y \in Locks : y # x /\ Idle(y)' => Idle(y)
  <2>1. \A y \in Locks : LockQ(y) \in QueueIds /\ LockQ(y) # Ready
    BY IdsFacts, IdsDistinct
  <2> QED BY <1>1, <1>2, <1>3, <2>1 DEF Idle, Wakes
<1>7. Idle(x)' => \E p \in Live : p # Current /\ k.in[p] = LockQ(x) /\ k'.in[p] = Ready
  BY <1>1, <1>2, IdsDistinct DEF Idle, Current
<1> QED BY <1>1, <1>3, <1>4, <1>5, <1>6, <1>7, ContsDistinct, IdsDistinct DEF Respects

\* do_condition_wait releases the mutex, if the caller holds it, before it
\* blocks on the condition.
LEMMA CondWaitRespects ==
  ASSUME IInv, NEW x \in Conds, NEW m \in Locks, do_condition_wait(x, m)
  PROVE  Respects
<1> DEFINE q == CondQ(x)
           s == "BLOCKED"
<1>1. q \in QueueIds /\ q # Ready /\ s \in Statuses /\ \A y \in Locks : q # LockQ(y)
  BY IdsFacts, IdsDistinct, LockQs DEF Statuses
<1>2. /\ KInv(k, Live) /\ k.current # Shell /\ k.current \in Pids
      /\ k.in[k.current] = Ready /\ cont[Current] = User /\ pid_list' = pid_list
      /\ cont' = [cont EXCEPT ![Current] = Entry(m)]
  BY Blocker DEF do_condition_wait, taskVars, Current
<1>3. /\ k.in \in [Pids -> QueueIds \cup {NoQueue}] /\ cont \in [Pids -> Conts]
      /\ lock \in [Locks -> [status : {"LOCKED", "UNLOCKED"}, owner : Pids]]
  BY DEF IInv, TypeOK, KType
<1>4. Live' = Live /\ \A p \in Live : p \in Pids
  BY <1>2, TasksPids DEF Live
<1>5. PICK k1 :
        /\ KInv(k1, Live) /\ Wakes(k, k1, QueueIds) /\ k' \in do_wait(k1, q, s)
        /\ \/ lock' = lock
           \/ /\ lock' = [lock EXCEPT ![m] = [status |-> "UNLOCKED", owner |-> 0]]
              /\ k1.queue[LockQ(m)] # <<>> =>
                   \E p \in Live : k.in[p] = LockQ(m) /\ k1.in[p] = Ready
  <2>1. CASE lock[m].owner = Current
    <3>1. PICK k1 \in do_unblock_one(k, LockQ(m), priority) : k' \in do_wait(k1, q, s)
      BY <2>1 DEF do_condition_wait
    <3>2. lock' = [lock EXCEPT ![m] = [status |-> "UNLOCKED", owner |-> 0]]
      BY <2>1 DEF do_condition_wait, Unlock
    <3> HIDE DEF q, s
    <3>3. /\ Sound(k1, QueueIds, Live) /\ Wakes(k, k1, QueueIds)
          /\ k1.queue[LockQ(m)] # <<>> =>
               \E p \in Live : k.in[p] = LockQ(m) /\ k1.in[p] = Ready
      BY UnblockLock
    <3>4. KInv(k1, Live)
      BY <1>2, <3>3, WakesKInv
    <3> QED BY <3>1, <3>2, <3>3, <3>4
  <2>2. CASE lock[m].owner # Current
    <3>1. k' \in do_wait(k, q, s) /\ lock' = lock
      BY <2>2 DEF do_condition_wait
    <3>2. Wakes(k, k, QueueIds)
      BY DEF Wakes
    <3> QED BY <1>2, <3>1, <3>2
  <2> QED BY <2>1, <2>2
<1> HIDE DEF q, s
<1>6. /\ Sound(k1, QueueIds, Live) /\ k1.current = k.current
      /\ Shell \in Live /\ k1.in[Shell] = Ready /\ k1.in \in [Pids -> QueueIds \cup {NoQueue}]
  BY <1>5 DEF KInv, KPart, Wakes, Sound, KType
<1>7. /\ k'.in = [k1.in EXCEPT ![k1.current] = q]
      /\ \A id \in QueueIds : id # q /\ k1.queue[id] = <<>> => k'.queue[id] = <<>>
  BY <1>1, <1>2, <1>5, <1>6, IdsFacts, DoWaitFacts
<1>8. k'.in[Current] = q /\ \A p \in Live : p # Current => k'.in[p] = k1.in[p]
  BY <1>2, <1>4, <1>6, <1>7 DEF Current
<1>9. \A p \in Live : p # Current =>
        cont'[p] = cont[p] /\ (k'.in[p] = k.in[p] \/ k'.in[p] = Ready)
  BY <1>2, <1>3, <1>4, <1>5, <1>8 DEF Wakes
<1>10. \A y \in Locks : k'.queue[LockQ(y)] # <<>> =>
         k1.queue[LockQ(y)] # <<>> /\ k.queue[LockQ(y)] # <<>>
  <2>1. \A y \in Locks : LockQ(y) \in QueueIds /\ LockQ(y) # Ready
    BY IdsFacts, IdsDistinct
  <2> QED BY <1>1, <1>5, <1>7, <2>1 DEF Wakes
<1>11. ASSUME NEW y \in Locks, Idle(y)', ~ Idle(y)
       PROVE  \E p \in Live : p # Current /\ k.in[p] = LockQ(y) /\ k'.in[p] = Ready
  <2>1. y = m /\ lock' # lock
    BY <1>3, <1>5, <1>10, <1>11 DEF Idle
  <2>2. PICK p \in Live : k.in[p] = LockQ(m) /\ k1.in[p] = Ready
    BY <1>5, <1>10, <1>11, <2>1 DEF Idle
  <2>3. p # Current
    BY <1>2, <2>2, IdsDistinct DEF Current
  <2> QED BY <1>8, <2>1, <2>2, <2>3
<1> QED BY <1>1, <1>2, <1>4, <1>8, <1>9, <1>11, ContsDistinct DEF Respects

\* wait(), do_sleep and do_wait_recv_package block on no lock.
LEMMA TaskRespects ==
  ASSUME IInv, "kill" \notin Syscalls, TaskCall
  PROVE  Respects
<1>1. ASSUME NEW pid \in Pids, Wait(pid) PROVE Respects
  <2> DEFINE dst == WaitQ(pid)
             s == "WAITING"
  <2>1. dst \in QueueIds /\ dst # Ready /\ s \in Statuses /\ \A y \in Locks : dst # LockQ(y)
    BY IdsFacts, IdsDistinct, LockQs DEF Statuses
  <2>2. k' \in do_wait(k, dst, s) /\ UNCHANGED <<cont, lock, pid_list>>
    BY <1>1 DEF Wait, taskVars
  <2> HIDE DEF dst, s
  <2> QED BY <1>1, <2>1, <2>2, BlockRespects DEF Wait
<1>2. ASSUME NEW t \in SleepTicks, do_sleep(t) PROVE Respects
  <2> DEFINE dst == SleepQ
             s == "SLEEPING"
  <2>1. dst \in QueueIds /\ dst # Ready /\ s \in Statuses /\ \A y \in Locks : dst # LockQ(y)
    BY IdsFacts, IdsDistinct, LockQs DEF Statuses
  <2>2. k' \in do_wait(k, dst, s) /\ UNCHANGED <<cont, lock, pid_list>>
    BY <1>2 DEF do_sleep, taskVars
  <2> HIDE DEF dst, s
  <2> QED BY <1>2, <2>1, <2>2, BlockRespects DEF do_sleep
<1>3. ASSUME do_wait_recv_package PROVE Respects
  <2> DEFINE dst == RecvQ
             s == "BLOCKED"
  <2>1. dst \in QueueIds /\ dst # Ready /\ s \in Statuses /\ \A y \in Locks : dst # LockQ(y)
    BY IdsFacts, IdsDistinct, LockQs DEF Statuses
  <2>2. k' \in do_wait(k, dst, s) /\ UNCHANGED <<cont, lock, pid_list>>
    BY <1>3 DEF do_wait_recv_package, taskVars
  <2> HIDE DEF dst, s
  <2> QED BY <1>3, <2>1, <2>2, BlockRespects DEF do_wait_recv_package
<1>4. \A pid \in Pids : ~ Kill(pid)
  BY DEF Kill, Calls
<1> QED BY <1>1, <1>2, <1>3, <1>4, SpawnRespects, ExitRespects DEF TaskCall

\* The calls that wake tasks wake them from no lock.
LEMMA SyncRespects ==
  ASSUME IInv, SyncCall
  PROVE  Respects
<1>1. ASSUME NEW x \in Conds, NEW m \in Locks, do_condition_wait(x, m) PROVE Respects
  BY <1>1, CondWaitRespects
<1> SUFFICES ASSUME \A x \in Conds : \A m \in Locks : ~ do_condition_wait(x, m)
             PROVE  Respects
  BY <1>1
<1>2. UNCHANGED <<cont, lock, pid_list>> /\ cont[Current] = User
  BY DEF SyncCall, do_semaphore_init, do_semaphore_up, do_semaphore_down, do_condition_init,
         do_condition_signal, do_condition_broadcast, do_barrier_init,
         do_barrier_wait, taskVars, Calls, UserMode, Current
<1>3. Sound(k, QueueIds, Live)
  BY IInvParts DEF KInv, KPart
<1>4. ASSUME NEW q \in QueueIds,
             k' \in do_unblock_one(k, q, priority) \/ k' = do_unblock_all(k, q)
      PROVE  Respects
  <2>1. Wakes(k, k', QueueIds)
    BY <1>3, <1>4, IdsFacts, UnblockOneFacts, UnblockAllFacts
  <2> QED BY <1>2, <2>1, WakeRespects
<1>5. CASE UNCHANGED k
  BY <1>2, <1>5, IdleRespects
<1>6. ASSUME NEW x \in Sems, do_semaphore_up(x) PROVE Respects
  BY <1>4, <1>5, <1>6, IdsFacts DEF do_semaphore_up
<1>7. ASSUME NEW x \in Sems, do_semaphore_down(x) PROVE Respects
  <2> DEFINE dst == SemQ(x)
             s == "BLOCKED"
  <2>1. dst \in QueueIds /\ dst # Ready /\ s \in Statuses /\ \A y \in Locks : dst # LockQ(y)
    BY IdsFacts, IdsDistinct, LockQs DEF Statuses
  <2>2. k' \in do_wait(k, dst, s) \/ UNCHANGED k
    BY <1>7 DEF do_semaphore_down
  <2> HIDE DEF dst, s
  <2> QED BY <1>2, <1>5, <1>7, <2>1, <2>2, BlockRespects DEF do_semaphore_down
<1>8. ASSUME NEW x \in Conds, do_condition_signal(x) \/ do_condition_broadcast(x)
      PROVE  Respects
  BY <1>4, <1>8, IdsFacts DEF do_condition_signal, do_condition_broadcast
<1>9. ASSUME NEW x \in Barriers, do_barrier_wait(x) PROVE Respects
  <2> DEFINE dst == BarrierQ(x)
             s == "WAITING"
  <2>1. dst \in QueueIds /\ dst # Ready /\ s \in Statuses /\ \A y \in Locks : dst # LockQ(y)
    BY IdsFacts, IdsDistinct, LockQs DEF Statuses
  <2>2. k' = do_unblock_all(k, dst) \/ k' \in do_wait(k, dst, s)
    BY <1>9 DEF do_barrier_wait, BarrierOpens
  <2> HIDE DEF dst, s
  <2>3. CASE k' = do_unblock_all(k, dst)
    BY <1>4, <2>1, <2>3
  <2>4. CASE k' \in do_wait(k, dst, s)
    BY <1>2, <1>9, <2>1, <2>4, BlockRespects DEF do_barrier_wait
  <2> QED BY <2>2, <2>3, <2>4
<1> QED BY <1>5, <1>6, <1>7, <1>8, <1>9
        DEF SyncCall, do_semaphore_init, do_condition_init, do_barrier_init

\* Every step preserves the invariant.
LEMMA NextPromise == IInv /\ LocksOK /\ PromiseInv /\ [Next]_vars => PromiseInv'
<1> SUFFICES ASSUME IInv, LocksOK, PromiseInv, [Next]_vars, "kill" \notin Syscalls
             PROVE  PromiseInv'
  BY DEF PromiseInv
<1>1. CASE Tick \/ IrqMac
  BY <1>1, IrqRespects, RespectsPromise
<1>2. CASE TaskCall
  BY <1>2, TaskRespects, RespectsPromise
<1>3. ASSUME NEW x \in Locks, do_mutex_lock_acquire(x) PROVE PromiseInv'
  <2>1. /\ k.current # 0 /\ k.current # Shell /\ cont[Current] = User
        /\ AcquireLoop(x) /\ UNCHANGED pid_list
    BY <1>3, Blocker DEF do_mutex_lock_acquire, taskVars, Current
  <2> QED BY <2>1, AcquireRespects, RespectsPromise
<1>4. ASSUME NEW x \in Locks, do_mutex_lock_release(x) PROVE PromiseInv'
  BY <1>4, ReleaseRespects, RespectsPromise
<1>5. CASE SyncCall
  BY <1>5, SyncRespects, RespectsPromise
<1>6. ASSUME NEW x \in Locks, Resume(x) PROVE PromiseInv'
  BY <1>6, ResumeRespects, RespectsPromise
<1>7. CASE UNCHANGED vars
  BY <1>7 DEF vars, PromiseInv, BlockedOK, Idle, Promised, Live
<1> QED BY <1>1, <1>2, <1>3, <1>4, <1>5, <1>6, <1>7 DEF Next, LockCall

\* Initially nobody is blocked on a lock.
LEMMA InitPromise == Init => PromiseInv
<1> SUFFICES ASSUME Init PROVE PromiseInv
  OBVIOUS
<1>1. \A x \in Locks : k.queue[LockQ(x)] = <<>>
  BY IdsFacts, IdsDistinct DEF Init
<1>2. \A p \in Live : k.in[p] = Ready
  <2>1. \A p \in Live : p \in Pids /\ p \in {1, 2}
    BY InitPids, TasksPids DEF Init, Live
  <2> QED BY <2>1 DEF Init
<1> QED BY <1>1, <1>2, IdsDistinct DEF PromiseInv, BlockedOK, Idle

\* No lost wake-up: while nobody is killed, a mutex that is free although tasks
\* are blocked on it is about to be taken by a task that do_mutex_lock_release,
\* do_condition_wait or exit() made ready.
THEOREM KernelPromise == Spec => []LockPromised
<1> DEFINE Inv == IInv /\ LocksOK /\ PromiseInv
<1>1. Init => Inv
  BY InitIInv, InitLocks, InitPromise
<1>2. Inv /\ [Next]_vars => Inv'
  BY NextIInv, NextLocks, NextPromise
<1>3. Inv => LockPromised
  BY DEF PromiseInv, LockPromised, Idle, Promised
<1> HIDE DEF Inv
<1> QED BY <1>1, <1>2, <1>3, PTL DEF Spec
=============================================================================
