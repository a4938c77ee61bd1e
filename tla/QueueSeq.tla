------------------------------ MODULE QueueSeq ------------------------------
(***************************************************************************)
(* What kernel/sched/queue.c promises: queues of tasks as sequences.  A    *)
(* task is in at most one queue, because it has one prev and one next.     *)
(***************************************************************************)
EXTENDS Integers, Sequences, SequencesExt

CONSTANTS Items, Queues, NULL

VARIABLES contents,   \* the sequence in each queue, head first
          priority,   \* item->priority
          ret         \* the item the last call returned

qvars == <<contents, priority, ret>>

Queued == UNION {ToSet(contents[q]) : q \in Queues}

Init ==
  /\ contents = [q \in Queues |-> <<>>]
  /\ priority \in [Items -> 1 .. 2]
  /\ ret = NULL

Push(q, i) ==
  /\ i \notin Queued
  /\ contents' = [contents EXCEPT ![q] = Append(@, i)]
  /\ UNCHANGED <<priority, ret>>

\* Before the first item of no higher priority.
PushIncreasingly(q, i) ==
  /\ i \notin Queued
  /\ \E j \in 1 .. Len(contents[q]) + 1 :
       /\ \A m \in 1 .. j - 1 : priority[contents[q][m]] > priority[i]
       /\ j <= Len(contents[q]) => priority[contents[q][j]] <= priority[i]
       /\ contents' = [contents EXCEPT ![q] = InsertAt(@, j, i)]
  /\ UNCHANGED <<priority, ret>>

Dequeue(q) ==
  /\ contents[q] # <<>>
  /\ contents' = [contents EXCEPT ![q] = Tail(@)]
  /\ ret' = Head(contents[q])
  /\ UNCHANGED priority

\* Returns the item that followed the removed one.
RemoveItem(q, i) ==
  /\ \E j \in DOMAIN contents[q] :
       /\ contents[q][j] = i
       /\ contents' = [contents EXCEPT ![q] = RemoveAt(@, j)]
       /\ ret' = IF j = Len(contents[q]) THEN NULL ELSE contents[q][j + 1]
  /\ UNCHANGED priority

Next ==
  \E q \in Queues :
    \/ Dequeue(q)
    \/ \E i \in Items : Push(q, i) \/ PushIncreasingly(q, i) \/ RemoveItem(q, i)

Spec == Init /\ [][Next]_qvars
=============================================================================
