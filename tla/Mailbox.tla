------------------------------- MODULE Mailbox -------------------------------
(***************************************************************************)
(* Mailboxes (libs/mailbox.c): a table of ring buffers of bytes, which     *)
(* tasks open by name.  The functions are library code.  They run in user  *)
(* mode, where a task can be preempted anywhere, but from mutex_lock_      *)
(* acquire to mutex_lock_release or condition_wait they hold one lock.     *)
(*                                                                         *)
(* The calls of the kernel are used as Kernel shows they behave: the mutex *)
(* goes to one of the tasks that want it, and condition_signal wakes one   *)
(* of those that wait, which then wants the mutex.                         *)
(***************************************************************************)
EXTENDS Naturals, Sequences, FiniteSetsExt

CONSTANTS
  Tasks,
  MAX_BOX_NUM,
  MAX_BUFFER_SIZE,
  Names,
  Bytes,
  Lengths              \* of the messages

ASSUME MailboxAssumption ==
  /\ MAX_BOX_NUM \in Nat \ {0} /\ MAX_BUFFER_SIZE \in Nat \ {0} /\ Lengths \subseteq Nat \ {0}

VARIABLES
  mboxs,
  lock,                \* the owner of the mutex, if any
  call,                \* what each task is doing
  box,                 \* the mailbox that mbox_open has returned to it
  stored,              \* history: the bytes sent to a mailbox and not received
  overrun              \* history: a byte was stored in a full mailbox

vars == <<mboxs, lock, call, box, stored, overrun>>

Boxes == 0 .. MAX_BOX_NUM - 1
Index == 0 .. MAX_BUFFER_SIZE - 1
NULL == MAX_BOX_NUM
Nobody == "nobody"
NoName == "none"
Unset == "unset"

ASSUME TasksAssumption == IsFiniteSet(Tasks) /\ Nobody \notin Tasks

\* A call: where the task is in it, and what is left of the message.
Idle == [op |-> "none", at |-> "user", name |-> NoName, msg |-> <<>>]

Init ==
  /\ mboxs = [b \in Boxes |->
       [valid |-> 0, name |-> NoName, user_num |-> 0, empty |-> {}, full |-> {},
        head |-> 0, tail |-> 0, data_buffer |-> [i \in Index |-> Unset]]]
  /\ lock = Nobody
  /\ call = [t \in Tasks |-> Idle]
  /\ box = [t \in Tasks |-> NULL]
  /\ stored = [b \in Boxes |-> <<>>]
  /\ overrun = FALSE

-----------------------------------------------------------------------------
\* A task calls one of the functions.  It uses a mailbox that it has opened, one
\* at a time.  What follows an overrun is not of interest.
Begin(t, op, name, msg) ==
  /\ ~ overrun
  /\ call[t] = Idle
  /\ call' = [call EXCEPT ![t] = [op |-> op, at |-> "acquire", name |-> name, msg |-> msg]]
  /\ UNCHANGED <<mboxs, lock, box, stored, overrun>>

Call(t) ==
  \/ /\ box[t] = NULL
     /\ \E s \in Names : Begin(t, "open", s, <<>>)
  \/ /\ box[t] # NULL
     /\ \/ Begin(t, "close", NoName, <<>>)
        \/ \E n \in Lengths : Begin(t, "recv", NoName, [i \in 1 .. n |-> Unset])
        \/ \E n \in Lengths : \E msg \in [1 .. n -> Bytes] : Begin(t, "send", NoName, msg)

\* mutex_lock_acquire, at the start of a call or in condition_wait.
Acquire(t) ==
  /\ call[t].at = "acquire" /\ lock = Nobody
  /\ lock' = t
  /\ call' = [call EXCEPT ![t].at = "locked"]
  /\ UNCHANGED <<mboxs, box, stored, overrun>>

Executes(t, op) == lock = t /\ call[t].op = op

\* mutex_lock_release, and the call returns.
Return(t) == lock' = Nobody /\ call' = [call EXCEPT ![t] = Idle]

\* Faulty variant of Opened: the indices are left as they were.
Opened_old(m, s) ==
  [m EXCEPT !.valid = 1, !.name = s, !.user_num = 1, !.empty = {}, !.full = {}]

Opened(m, s) ==
  [m EXCEPT !.valid = 1, !.name = s, !.user_num = 1, !.empty = {}, !.full = {},
            !.head = 0, !.tail = 0]

mbox_open(t) ==
  LET s == call[t].name
      named == {b \in Boxes : mboxs[b].valid = 1 /\ mboxs[b].name = s}
      unused == {b \in Boxes : mboxs[b].valid = 0}
  IN  /\ Executes(t, "open")
      /\ \/ /\ named # {}
            /\ mboxs' = [mboxs EXCEPT ![Min(named)].user_num = @ + 1]
            /\ box' = [box EXCEPT ![t] = Min(named)]
            /\ UNCHANGED stored
         \/ /\ named = {} /\ unused # {}
            /\ mboxs' = [mboxs EXCEPT ![Min(unused)] = Opened(@, s)]
            /\ box' = [box EXCEPT ![t] = Min(unused)]
            /\ stored' = [stored EXCEPT ![Min(unused)] = <<>>]
         \/ /\ named = {} /\ unused = {}
            /\ UNCHANGED <<mboxs, box, stored>>
      /\ Return(t)
      /\ UNCHANGED overrun

\* Faulty variant of Closed: for all its users.
Closed_all(m) == [m EXCEPT !.user_num = @ - 1, !.valid = 0]

Closed(m) ==
  [m EXCEPT !.user_num = @ - 1, !.valid = IF m.user_num = 1 THEN 0 ELSE @]

mbox_close(t) ==
  /\ Executes(t, "close")
  /\ mboxs' = [mboxs EXCEPT ![box[t]] = Closed(@)]
  /\ box' = [box EXCEPT ![t] = NULL]
  /\ Return(t)
  /\ UNCHANGED <<stored, overrun>>

-----------------------------------------------------------------------------
Following(i) == (i + 1) % MAX_BUFFER_SIZE

\* The test of mbox_send has no modulo.
Full(m) == m.head = m.tail + 1
Empty(m) == m.head = m.tail

\* condition_wait: the task joins those that wait for c.
WaitFor(t, c) ==
  /\ mboxs' = [mboxs EXCEPT ![box[t]][c] = @ \cup {t}]
  /\ lock' = Nobody
  /\ call' = [call EXCEPT ![t].at = "wait"]
  /\ UNCHANGED <<box, stored, overrun>>

\* Faulty variant of Signalled: only when the mailbox was empty or full.
Signalled_edge(m, c) ==
  IF m[c] = {} \/ (c = "empty" /\ m.head # m.tail) \/ (c = "full" /\ m.head # m.tail + 1) THEN {{}}
  ELSE {{u} : u \in m[c]}

\* condition_signal: the tasks that it wakes.
Signalled(m, c) == IF m[c] = {} THEN {{}} ELSE {{u} : u \in m[c]}

\* One byte has been moved, m is the mailbox now, and those who wait for c are
\* told.
Moved(t, m, c) ==
  /\ \E w \in Signalled(mboxs[box[t]], c) :
       /\ mboxs' = [mboxs EXCEPT ![box[t]] = [m EXCEPT ![c] = @ \ w]]
       /\ call' = [u \in Tasks |-> IF u \in w THEN [call[u] EXCEPT !.at = "acquire"]
                                   ELSE IF u = t THEN [call[u] EXCEPT !.msg = Tail(@)]
                                   ELSE call[u]]
  /\ UNCHANGED <<lock, box>>

\* A step is one round of the loop in mbox_send: the lock is held in between.
mbox_send(t) ==
  LET m == mboxs[box[t]]
      x == Head(call[t].msg)
  IN  /\ Executes(t, "send")
      /\ \/ /\ call[t].msg # <<>> /\ Full(m)
            /\ WaitFor(t, "full")
         \/ /\ call[t].msg # <<>> /\ ~ Full(m)
            /\ Moved(t, [m EXCEPT !.data_buffer[m.tail] = x, !.tail = Following(@)], "empty")
            /\ stored' = [stored EXCEPT ![box[t]] = Append(@, x)]
            /\ overrun' = (overrun \/ Len(stored[box[t]]) = MAX_BUFFER_SIZE - 1)
         \/ /\ call[t].msg = <<>>
            /\ Return(t)
            /\ UNCHANGED <<mboxs, box, stored, overrun>>

mbox_recv(t) ==
  LET m == mboxs[box[t]]
  IN  /\ Executes(t, "recv")
      /\ \/ /\ call[t].msg # <<>> /\ Empty(m)
            /\ WaitFor(t, "empty")
         \/ /\ call[t].msg # <<>> /\ ~ Empty(m)
            /\ Moved(t, [m EXCEPT !.head = Following(@)], "full")
            /\ stored' = [stored EXCEPT ![box[t]] = IF @ = <<>> THEN @ ELSE Tail(@)]
            /\ UNCHANGED overrun
         \/ /\ call[t].msg = <<>>
            /\ Return(t)
            /\ UNCHANGED <<mboxs, box, stored, overrun>>

Next ==
  \E t \in Tasks : \/ Call(t) \/ Acquire(t)
                   \/ mbox_open(t) \/ mbox_close(t) \/ mbox_send(t) \/ mbox_recv(t)

Spec == Init /\ [][Next]_vars

-----------------------------------------------------------------------------
\* What a mailbox holds, from head to tail.
Contents(m) ==
  [i \in 1 .. (m.tail + MAX_BUFFER_SIZE - m.head) % MAX_BUFFER_SIZE |->
     m.data_buffer[(m.head + i - 1) % MAX_BUFFER_SIZE]]

\* A mailbox holds the bytes that have been sent to it since it was opened and
\* not received, in this order, until a byte is stored in a full one: mbox_send
\* does not notice that it is full when head is 0.
FifoOK == ~ overrun => \A b \in Boxes : mboxs[b].valid = 1 => Contents(mboxs[b]) = stored[b]

\* The bytes that tasks in mbox_send or mbox_recv, and not waiting, still have
\* to move.
Pending(op, b) ==
  LET active == {t \in Tasks : /\ box[t] = b /\ call[t].op = op
                               /\ call[t].at \in {"acquire", "locked"}}
  IN  Cardinality(UNION {{t} \X (1 .. Len(call[t].msg)) : t \in active})

\* Wake-ups are not lost: when a task waits for a byte in mbox_recv, others that
\* have been woken, or have come since, will take all there are; likewise for
\* room in mbox_send.
WakeupOK ==
  ~ overrun => \A b \in Boxes :
    /\ mboxs[b].empty # {} => Len(stored[b]) <= Pending("recv", b)
    /\ mboxs[b].full # {} => MAX_BUFFER_SIZE - 1 - Len(stored[b]) <= Pending("send", b)

\* A mailbox is valid as long as somebody has it open, so that nobody waits in,
\* or works on, one that mbox_open may give to others and initialise.
BoxesOK ==
  \A b \in Boxes :
    LET users == {t \in Tasks : box[t] = b}
        waiting(op) == {t \in users : call[t].op = op /\ call[t].at = "wait"}
    IN  /\ mboxs[b].user_num = Cardinality(users)
        /\ mboxs[b].valid = 1 <=> users # {}
        /\ mboxs[b].empty = waiting("recv") /\ mboxs[b].full = waiting("send")
=============================================================================
