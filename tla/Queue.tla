------------------------------- MODULE Queue --------------------------------
(***************************************************************************)
(* The doubly linked queues of kernel/sched/queue.c, pointer by pointer.   *)
(* An item is a pcb, with one prev and one next; `queue` is the pcb field  *)
(* that names the queue it is in, which the callers assign after a push.   *)
(*                                                                         *)
(* The callers' contract is the guard of each action: an item is pushed    *)
(* only when it is in no queue, and removed only from the queue it is in.  *)
(***************************************************************************)
EXTENDS Integers, Sequences, FiniteSets

CONSTANTS Items, Queues, NULL
ASSUME NullAssumption == NULL \notin Items /\ NULL \notin Queues
ASSUME ItemsAssumption == IsFiniteSet(Items)

VARIABLES head, tail,   \* queue_t, for each queue
          prev, next,   \* pcb_t's links
          queue,        \* pcb_t's queue
          priority,     \* pcb_t's priority
          ret           \* the item the last call returned

vars == <<head, tail, prev, next, queue, priority, ret>>

Pointer == Items \cup {NULL}

queue_init ==
  /\ head = [q \in Queues |-> NULL]
  /\ tail = [q \in Queues |-> NULL]

Init ==
  /\ queue_init
  /\ prev = [i \in Items |-> NULL]
  /\ next = [i \in Items |-> NULL]
  /\ queue = [i \in Items |-> NULL]
  /\ priority \in [Items -> 1 .. 2]
  /\ ret = NULL

queue_is_empty(q) == head[q] = NULL

\* The item becomes the only one of an empty queue.
PushFirst(q, i) ==
  /\ head' = [head EXCEPT ![q] = i]
  /\ tail' = [tail EXCEPT ![q] = i]
  /\ next' = [next EXCEPT ![i] = NULL]
  /\ prev' = [prev EXCEPT ![i] = NULL]

\* Faulty variant of PushLast: no back link from the new item.
PushLast_forward_only(q, i) ==
  /\ next' = [next EXCEPT ![tail[q]] = i, ![i] = NULL]
  /\ tail' = [tail EXCEPT ![q] = i]
  /\ UNCHANGED <<head, prev>>

PushLast(q, i) ==
  /\ next' = [next EXCEPT ![tail[q]] = i, ![i] = NULL]
  /\ prev' = [prev EXCEPT ![i] = tail[q]]
  /\ tail' = [tail EXCEPT ![q] = i]
  /\ UNCHANGED head

queue_push(q, i) ==
  /\ queue[i] = NULL
  /\ IF queue_is_empty(q) THEN PushFirst(q, i) ELSE PushLast(q, i)
  /\ queue' = [queue EXCEPT ![i] = q]
  /\ UNCHANGED <<priority, ret>>

\* The pointers met from the head of a queue along `next`, NULL after the last
\* item; more links than there are items would be a cycle.
Reach(q) ==
  LET at[n \in 0 .. Cardinality(Items)] ==
        IF n = 0 THEN head[q]
        ELSE IF at[n - 1] = NULL THEN NULL ELSE next[at[n - 1]]
  IN  at

\* Faulty variant of Seek: the loop goes on past items of the same priority.
Seek_past_equals(q, i) ==
  LET stop == {n \in 0 .. Cardinality(Items) :
                 Reach(q)[n] = NULL \/ priority[Reach(q)[n]] < priority[i]}
  IN  Reach(q)[CHOOSE n \in stop : \A m \in stop : n <= m]

\* Where the loop of queue_push_increasingly stops: it follows `next` from the
\* head while the item there has a higher priority.
Seek(q, i) ==
  LET stop == {n \in 0 .. Cardinality(Items) :
                 Reach(q)[n] = NULL \/ priority[Reach(q)[n]] <= priority[i]}
  IN  Reach(q)[CHOOSE n \in stop : \A m \in stop : n <= m]

InsertBefore(q, i, t) ==
  /\ IF t = head[q]
     THEN /\ head' = [head EXCEPT ![q] = i]
          /\ next' = [next EXCEPT ![i] = t]
          /\ prev' = [prev EXCEPT ![t] = i, ![i] = NULL]
     ELSE /\ next' = [next EXCEPT ![prev[t]] = i, ![i] = t]
          /\ prev' = [prev EXCEPT ![i] = prev[t], ![t] = i]
          /\ UNCHANGED head
  /\ UNCHANGED tail

queue_push_increasingly(q, i) ==
  /\ queue[i] = NULL
  /\ IF queue_is_empty(q) THEN PushFirst(q, i)
     ELSE LET t == Seek(q, i)
          IN  IF t = NULL THEN PushLast(q, i) ELSE InsertBefore(q, i, t)
  /\ queue' = [queue EXCEPT ![i] = q]
  /\ UNCHANGED <<priority, ret>>

queue_dequeue(q) ==
  /\ ~ queue_is_empty(q)
  /\ LET h == head[q]
     IN  /\ ret' = h
         /\ queue' = [queue EXCEPT ![h] = NULL]
         /\ IF next[h] = NULL
            THEN /\ head' = [head EXCEPT ![q] = NULL]
                 /\ tail' = [tail EXCEPT ![q] = NULL]
                 /\ UNCHANGED <<prev, next>>
            ELSE /\ head' = [head EXCEPT ![q] = next[h]]
                 /\ prev' = [prev EXCEPT ![next[h]] = NULL, ![h] = NULL]
                 /\ next' = [next EXCEPT ![h] = NULL]
                 /\ UNCHANGED tail
  /\ UNCHANGED priority

\* One of several items leaves: it is the head, the tail or in between.
Unlink(q, i) ==
  IF i = head[q]
  THEN /\ head' = [head EXCEPT ![q] = next[i]]
       /\ prev' = [prev EXCEPT ![next[i]] = NULL, ![i] = NULL]
       /\ next' = [next EXCEPT ![i] = NULL]
       /\ UNCHANGED tail
  ELSE IF i = tail[q]
  THEN /\ tail' = [tail EXCEPT ![q] = prev[i]]
       /\ next' = [next EXCEPT ![prev[i]] = NULL, ![i] = NULL]
       /\ prev' = [prev EXCEPT ![i] = NULL]
       /\ UNCHANGED head
  ELSE /\ next' = [next EXCEPT ![prev[i]] = next[i], ![i] = NULL]
       /\ prev' = [prev EXCEPT ![next[i]] = prev[i], ![i] = NULL]
       /\ UNCHANGED <<head, tail>>

queue_remove(q, i) ==
  /\ queue[i] = q
  /\ ret' = next[i]
  /\ IF i = head[q] /\ i = tail[q]
     THEN /\ head' = [head EXCEPT ![q] = NULL]
          /\ tail' = [tail EXCEPT ![q] = NULL]
          /\ UNCHANGED <<prev, next>>
     ELSE Unlink(q, i)
  /\ queue' = [queue EXCEPT ![i] = NULL]
  /\ UNCHANGED priority

Next ==
  \E q \in Queues :
    \/ queue_dequeue(q)
    \/ \E i \in Items :
         \/ queue_push(q, i)
         \/ queue_push_increasingly(q, i)
         \/ queue_remove(q, i)

Spec == Init /\ [][Next]_vars

-----------------------------------------------------------------------------
\* Reading the queue backwards gives the same items as reading it forwards:
\* every link has its mirror, inside the same queue, and the links of an item
\* that is in no queue are NULL, so that a task removed by kill, do_wait or
\* do_unblock_one leaves nothing pointing at it.
Mirrored ==
  /\ \A q \in Queues :
       /\ head[q] = NULL <=> tail[q] = NULL
       /\ head[q] # NULL => /\ queue[head[q]] = q /\ prev[head[q]] = NULL
                            /\ queue[tail[q]] = q /\ next[tail[q]] = NULL
  /\ \A i \in Items :
       /\ queue[i] = NULL => next[i] = NULL /\ prev[i] = NULL
       /\ next[i] # NULL => prev[next[i]] = i /\ queue[next[i]] = queue[i]
       /\ prev[i] # NULL => next[prev[i]] = i

\* What a reader who starts at the head and follows `next` sees.
Walk(q) ==
  LET seen == {n \in 0 .. Cardinality(Items) : Reach(q)[n] # NULL}
  IN  [n \in 1 .. Cardinality(seen) |-> Reach(q)[n - 1]]

Abs == INSTANCE QueueSeq WITH contents <- [q \in Queues |-> Walk(q)]

\* The links implement sequences: whatever calls are made, each one changes
\* the walk of its queue as the sequence operation says, changes no other
\* queue, and returns the right item; queue_push_increasingly keeps the queue
\* "in increasing order from tail to head" (kernel/sched/queue.c:36).
SeqSpec == Abs!Spec
=============================================================================
