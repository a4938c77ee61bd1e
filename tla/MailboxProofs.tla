---------------------------- MODULE MailboxProofs ----------------------------
(***************************************************************************)
(* Proofs about Mailbox: whoever has a mailbox open, or waits in it, is    *)
(* accounted for, and the ring buffers are queues of bytes, for all tasks, *)
(* mailboxes, buffer sizes and messages.                                   *)
(***************************************************************************)
EXTENDS Mailbox, FiniteSetTheorems, SequenceTheorems, WellFoundedInduction, TLAPS

Data == Bytes \cup {Unset}

BoxType ==
  [valid : 0 .. 1, name : Names \cup {NoName}, user_num : Int,
   empty : SUBSET Tasks, full : SUBSET Tasks, head : Index, tail : Index,
   data_buffer : [Index -> Data]]

CallType ==
  [op : {"none", "open", "close", "send", "recv"}, at : {"user", "acquire", "locked", "wait"},
   name : Names \cup {NoName}, msg : Seq(Data)]

Types ==
  /\ mboxs \in [Boxes -> BoxType]
  /\ lock \in Tasks \cup {Nobody}
  /\ call \in [Tasks -> CallType]
  /\ box \in [Tasks -> Boxes \cup {NULL}]
  /\ stored \in [Boxes -> Seq(Data)]
  /\ overrun \in BOOLEAN

\* The mutex belongs to the task that is between mutex_lock_acquire and
\* mutex_lock_release or condition_wait; and every call but mbox_open is made
\* with an open mailbox.
CallsOK ==
  \A t \in Tasks :
    /\ call[t].at = "locked" <=> lock = t
    /\ call[t].op = "none" => call[t].at = "user"
    /\ call[t].op = "open" => box[t] = NULL
    /\ call[t].op \in {"close", "send", "recv"} => box[t] \in Boxes

\* The parts of BoxesOK, for one mailbox.
UsersOf(b) == {t \in Tasks : box[t] = b}
Waiting(b, op) == {t \in Tasks : box[t] = b /\ call[t].op = op /\ call[t].at = "wait"}

BoxOK(b) ==
  /\ mboxs[b].user_num = Cardinality(UsersOf(b))
  /\ mboxs[b].valid = 1 <=> UsersOf(b) # {}
  /\ mboxs[b].empty = Waiting(b, "recv") /\ mboxs[b].full = Waiting(b, "send")

\* BoxesOK is BoxOK for all of them.
LEMMA BoxesParts == BoxesOK <=> \A b \in Boxes : BoxOK(b)
<1>1. \A b, op : {t \in {u \in Tasks : box[u] = b} : call[t].op = op /\ call[t].at = "wait"}
                   = Waiting(b, op)
  BY DEF Waiting
<1> QED BY <1>1 DEF BoxesOK, BoxOK, UsersOf

\* The same after a step.
LEMMA BoxesPartsNext == BoxesOK' <=> \A b \in Boxes : BoxOK(b)'
<1>1. \A b, op : {t \in {u \in Tasks : box'[u] = b} : call'[t].op = op /\ call'[t].at = "wait"}
                   = Waiting(b, op)'
  BY DEF Waiting
<1> QED BY <1>1 DEF BoxesOK, BoxOK, UsersOf

\* A set of numbers that is not empty has a least element: mbox_open finds a
\* mailbox with the properties it looks for.
LEMMA MinIn ==
  ASSUME NEW S \in SUBSET Nat, S # {}
  PROVE  Min(S) \in S
<1> DEFINE R == {ss \in Nat \X Nat : ss[1] < ss[2]}
<1>1. PICK x \in S : \A y \in S : ~ (<<y, x>> \in R)
  <2>1. IsWellFoundedOn(R, Nat)
    BY NatLessThanWellFounded DEF OpToRel
  <2> HIDE DEF R
  <2> QED BY <2>1, WFMin
<1>2. \A y \in S : x <= y
  <2>1. ASSUME NEW y \in S, y < x PROVE FALSE
    <3>1. <<y, x>> \in Nat \X Nat /\ <<y, x>>[1] = y /\ <<y, x>>[2] = x
      OBVIOUS
    <3> QED BY <1>1, <2>1, <3>1
  <2> QED BY <2>1
<1> QED BY <1>2 DEF Min

-----------------------------------------------------------------------------
\* Who uses a mailbox and who waits in it.

\* The three parts of the invariant.
Inv == Types /\ CallsOK /\ \A b \in Boxes : BoxOK(b)

\* The queues and the counter of a mailbox change with those who use it.
LEMMA SameBox ==
  ASSUME NEW b \in Boxes, BoxOK(b), UsersOf(b)' = UsersOf(b),
         Waiting(b, "recv")' = Waiting(b, "recv"), Waiting(b, "send")' = Waiting(b, "send"),
         mboxs'[b].user_num = mboxs[b].user_num, mboxs'[b].valid = mboxs[b].valid,
         mboxs'[b].empty = mboxs[b].empty, mboxs'[b].full = mboxs[b].full
  PROVE  BoxOK(b)'
BY DEF BoxOK

\* A step that neither begins nor ends a wait.
Awake(u) == call[u].at # "wait" /\ call'[u].at # "wait"
Alike(u) == call'[u].at = call[u].at /\ call'[u].op = call[u].op

\* Such a step keeps who waits where.
LEMMA QuietBoxes ==
  ASSUME Inv, UNCHANGED <<mboxs, box>>, \A u \in Tasks : Awake(u) \/ Alike(u)
  PROVE  \A b \in Boxes : BoxOK(b)'
<1> SUFFICES ASSUME NEW b \in Boxes PROVE BoxOK(b)'
  OBVIOUS
<1>1. UsersOf(b)' = UsersOf(b)
  BY DEF UsersOf
<1>2. Waiting(b, "recv")' = Waiting(b, "recv") /\ Waiting(b, "send")' = Waiting(b, "send")
  BY DEF Waiting, Awake, Alike
<1> QED BY <1>1, <1>2, SameBox DEF Inv

\* NULL is no mailbox.
LEMMA NullNoBox == NULL \notin Boxes
BY MailboxAssumption DEF NULL, Boxes

\* Begin: what a call starts with.
LEMMA BeginInv ==
  ASSUME Inv, NEW t \in Tasks, NEW op \in {"open", "close", "send", "recv"},
         NEW s \in Names \cup {NoName}, NEW msg \in Seq(Data),
         op = "open" <=> box[t] = NULL, Begin(t, op, s, msg)
  PROVE  Inv'
<1>1. /\ call[t] = Idle /\ UNCHANGED <<mboxs, lock, box, stored, overrun>>
      /\ call' = [call EXCEPT ![t] = [op |-> op, at |-> "acquire", name |-> s, msg |-> msg]]
  BY DEF Begin
<1>2. [op |-> op, at |-> "acquire", name |-> s, msg |-> msg] \in CallType
  BY DEF CallType
<1>3. Types'
  BY <1>1, <1>2 DEF Inv, Types
<1>4. /\ call'[t].op = op /\ call'[t].at = "acquire" /\ call[t].at = "user"
      /\ \A u \in Tasks : u # t => call'[u] = call[u]
  BY <1>1 DEF Inv, Types, Idle
<1>5. CallsOK'
  BY <1>1, <1>4 DEF Inv, CallsOK, Types
<1>6. \A u \in Tasks : Awake(u) \/ Alike(u)
  BY <1>4 DEF Awake, Alike
<1> QED BY <1>1, <1>3, <1>5, <1>6, QuietBoxes DEF Inv

\* A task calls one of the functions.
LEMMA CallInv ==
  ASSUME Inv, NEW t \in Tasks, Call(t)
  PROVE  Inv'
<1>1. CASE box[t] = NULL /\ \E s \in Names : Begin(t, "open", s, <<>>)
  <2>1. PICK s \in Names : Begin(t, "open", s, <<>>)
    BY <1>1
  <2>2. <<>> \in Seq(Data)
    BY EmptySeq
  <2> QED BY <1>1, <2>1, <2>2, BeginInv
<1>2. CASE box[t] # NULL /\ Begin(t, "close", NoName, <<>>)
  <2>1. <<>> \in Seq(Data)
    BY EmptySeq
  <2> QED BY <1>2, <2>1, BeginInv
<1>3. CASE box[t] # NULL /\ \E n \in Lengths : Begin(t, "recv", NoName, [i \in 1 .. n |-> Unset])
  <2>1. PICK n \in Lengths : Begin(t, "recv", NoName, [i \in 1 .. n |-> Unset])
    BY <1>3
  <2>2. n \in Nat
    BY MailboxAssumption
  <2>3. [i \in 1 .. n |-> Unset] \in Seq(Data)
    <3>1. [i \in 1 .. n |-> Unset] \in [1 .. n -> Data]
      BY DEF Data
    <3> QED BY <2>2, <3>1, SeqDef
  <2> QED BY <1>3, <2>1, <2>3, BeginInv
<1>4. CASE box[t] # NULL /\ \E n \in Lengths : \E msg \in [1 .. n -> Bytes] :
                                Begin(t, "send", NoName, msg)
  <2>1. PICK n \in Lengths : \E msg \in [1 .. n -> Bytes] : Begin(t, "send", NoName, msg)
    BY <1>4
  <2>2. PICK msg \in [1 .. n -> Bytes] : Begin(t, "send", NoName, msg)
    BY <2>1
  <2>3. n \in Nat /\ msg \in [1 .. n -> Data]
    BY MailboxAssumption DEF Data
  <2>4. msg \in Seq(Data)
    BY <2>3, SeqDef
  <2> QED BY <1>4, <2>2, <2>4, BeginInv
<1> QED BY <1>1, <1>2, <1>3, <1>4 DEF Call

\* mutex_lock_acquire.
LEMMA AcquireInv ==
  ASSUME Inv, NEW t \in Tasks, Acquire(t)
  PROVE  Inv'
<1>1. /\ call[t].at = "acquire" /\ lock = Nobody /\ lock' = t
      /\ call' = [call EXCEPT ![t].at = "locked"] /\ UNCHANGED <<mboxs, box, stored, overrun>>
  BY DEF Acquire
<1>2. call \in [Tasks -> CallType]
  BY DEF Inv, Types
<1>3. /\ call' \in [Tasks -> CallType] /\ call'[t].op = call[t].op /\ call'[t].at = "locked"
      /\ \A u \in Tasks : u # t => call'[u] = call[u]
  BY <1>1, <1>2 DEF CallType
<1>4. Types'
  BY <1>1, <1>3 DEF Inv, Types
<1>5. CallsOK'
  BY <1>1, <1>3, TasksAssumption DEF Inv, CallsOK
<1>6. \A u \in Tasks : Awake(u) \/ Alike(u)
  BY <1>1, <1>3 DEF Awake, Alike
<1> QED BY <1>1, <1>4, <1>5, <1>6, QuietBoxes DEF Inv

\* mutex_lock_release, and the call returns.
LEMMA ReturnFields ==
  ASSUME Inv, NEW t \in Tasks, lock = t, Return(t)
  PROVE  /\ call' \in [Tasks -> CallType] /\ lock' = Nobody
         /\ call'[t].op = "none" /\ call'[t].at = "user" /\ call[t].at = "locked"
         /\ \A u \in Tasks : u # t => call'[u] = call[u] /\ call[u].at # "locked"
<1>1. call \in [Tasks -> CallType] /\ call' = [call EXCEPT ![t] = Idle] /\ lock' = Nobody
  BY DEF Inv, Types, Return
<1>2. Idle \in CallType /\ Idle.op = "none" /\ Idle.at = "user"
  <2>1. <<>> \in Seq(Data)
    BY EmptySeq
  <2> QED BY <2>1 DEF Idle, CallType
<1> QED BY <1>1, <1>2 DEF Inv, CallsOK

\* A call that has changed nothing else returns.
LEMMA ReturnInv ==
  ASSUME Inv, NEW t \in Tasks, lock = t, Return(t), UNCHANGED <<mboxs, box, stored, overrun>>
  PROVE  Inv'
<1>1. Types'
  BY ReturnFields DEF Inv, Types
<1>2. CallsOK'
  BY ReturnFields, TasksAssumption DEF Inv, CallsOK
<1>3. \A u \in Tasks : Awake(u) \/ Alike(u)
  BY ReturnFields DEF Awake, Alike
<1> QED BY <1>1, <1>2, <1>3, QuietBoxes DEF Inv

\* The tasks that use a mailbox can be counted.
LEMMA UsersFinite ==
  ASSUME NEW b
  PROVE  IsFiniteSet(UsersOf(b)) /\ Cardinality(UsersOf(b)) \in Nat
BY TasksAssumption, FS_Subset, FS_CardinalityType DEF UsersOf

\* mbox_open and mbox_close, for the mailboxes that they do not open or close.
LEMMA OtherBoxes ==
  ASSUME Inv, NEW t \in Tasks, lock = t, Return(t), NEW b0, NEW b \in Boxes, b # b0,
         mboxs'[b] = mboxs[b], box[t] # b, box' = [box EXCEPT ![t] = b0]
  PROVE  BoxOK(b)'
<1>1. box \in [Tasks -> Boxes \cup {NULL}]
  BY DEF Inv, Types
<1>2. UsersOf(b)' = UsersOf(b)
  BY <1>1 DEF UsersOf
<1>3. Waiting(b, "recv")' = Waiting(b, "recv") /\ Waiting(b, "send")' = Waiting(b, "send")
  BY <1>1, ReturnFields DEF Waiting
<1> QED BY <1>2, <1>3, SameBox DEF Inv

\* mbox_open, with the mailbox b0.
LEMMA OpenBox ==
  ASSUME Inv, NEW t \in Tasks, Executes(t, "open"), Return(t), NEW b0 \in Boxes,
         box' = [box EXCEPT ![t] = b0], NEW m \in BoxType, mboxs' = [mboxs EXCEPT ![b0] = m],
         m.valid = 1, m.user_num = mboxs[b0].user_num + 1,
         m.empty = mboxs[b0].empty, m.full = mboxs[b0].full,
         stored' \in [Boxes -> Seq(Data)], UNCHANGED overrun
  PROVE  Inv'
<1>1. lock = t /\ box[t] = NULL /\ box[t] \notin Boxes
  BY NullNoBox DEF Executes, Inv, CallsOK
<1>2. box \in [Tasks -> Boxes \cup {NULL}] /\ mboxs \in [Boxes -> BoxType]
  BY DEF Inv, Types
<1>3. Types'
  BY <1>1, <1>2, ReturnFields DEF Inv, Types
<1>4. CallsOK'
  BY <1>1, <1>2, ReturnFields, TasksAssumption DEF Inv, CallsOK
<1>5. \A b \in Boxes : b # b0 => BoxOK(b)'
  BY <1>1, <1>2, OtherBoxes
<1>6. BoxOK(b0)'
  <2>1. UsersOf(b0)' = UsersOf(b0) \cup {t} /\ t \notin UsersOf(b0)
    BY <1>1, <1>2 DEF UsersOf
  <2>2. Cardinality(UsersOf(b0)') = Cardinality(UsersOf(b0)) + 1
    BY <2>1, UsersFinite, FS_AddElement
  <2>3. /\ Waiting(b0, "recv")' = Waiting(b0, "recv")
        /\ Waiting(b0, "send")' = Waiting(b0, "send")
    BY <1>1, <1>2, ReturnFields DEF Waiting
  <2>4. mboxs'[b0] = m
    BY <1>2
  <2>5. BoxOK(b0)
    BY DEF Inv
  <2> QED BY <2>1, <2>2, <2>3, <2>4, <2>5 DEF BoxOK
<1> QED BY <1>3, <1>4, <1>5, <1>6 DEF Inv

\* The two ways in which mbox_open succeeds, and how the mailbox is found.
LEMMA OpenCases ==
  ASSUME NEW t \in Tasks, mbox_open(t)
  PROVE  LET s == call[t].name IN
         \/ \E b \in Boxes : /\ mboxs[b].valid = 1 /\ mboxs[b].name = s
                             /\ mboxs' = [mboxs EXCEPT ![b].user_num = @ + 1]
                             /\ box' = [box EXCEPT ![t] = b] /\ UNCHANGED stored
         \/ \E b \in Boxes : /\ mboxs[b].valid = 0
                             /\ mboxs' = [mboxs EXCEPT ![b] = Opened(@, s)]
                             /\ box' = [box EXCEPT ![t] = b]
                             /\ stored' = [stored EXCEPT ![b] = <<>>]
         \/ UNCHANGED <<mboxs, box, stored>>
<1> DEFINE s == call[t].name
           named == {b \in Boxes : mboxs[b].valid = 1 /\ mboxs[b].name = s}
           unused == {b \in Boxes : mboxs[b].valid = 0}
<1>1. named \in SUBSET Nat /\ unused \in SUBSET Nat
  BY DEF Boxes
<1>2. named # {} => Min(named) \in named
  BY <1>1, MinIn
<1>3. unused # {} => Min(unused) \in unused
  BY <1>1, MinIn
<1>4. \/ /\ named # {}
         /\ mboxs' = [mboxs EXCEPT ![Min(named)].user_num = @ + 1]
         /\ box' = [box EXCEPT ![t] = Min(named)]
         /\ UNCHANGED stored
      \/ /\ unused # {}
         /\ mboxs' = [mboxs EXCEPT ![Min(unused)] = Opened(@, s)]
         /\ box' = [box EXCEPT ![t] = Min(unused)]
         /\ stored' = [stored EXCEPT ![Min(unused)] = <<>>]
      \/ UNCHANGED <<mboxs, box, stored>>
  BY DEF mbox_open
<1> QED BY <1>2, <1>3, <1>4

\* The records that mbox_open and mbox_close leave.
LEMMA BoxRecords ==
  ASSUME NEW m \in BoxType, NEW s \in Names \cup {NoName}
  PROVE  /\ LET n == [m EXCEPT !.user_num = @ + 1]
            IN  /\ n \in BoxType /\ n.valid = m.valid /\ n.user_num = m.user_num + 1
                /\ n.empty = m.empty /\ n.full = m.full
         /\ LET n == Opened(m, s)
            IN  /\ n \in BoxType /\ n.valid = 1 /\ n.user_num = 1
                /\ n.empty = {} /\ n.full = {} /\ n.head = 0 /\ n.tail = 0
         /\ LET n == Closed(m)
            IN  /\ n \in BoxType /\ n.user_num = m.user_num - 1
                /\ n.valid = IF m.user_num = 1 THEN 0 ELSE m.valid
                /\ n.empty = m.empty /\ n.full = m.full
<1>1. m.user_num \in Int /\ m.valid \in 0 .. 1 /\ 0 \in Index
  BY MailboxAssumption DEF BoxType, Index
<1> DEFINE n1 == [m EXCEPT !.user_num = @ + 1]
           n2 == Opened(m, s)
           n3 == Closed(m)
<1>2. /\ n1 \in BoxType /\ n1.valid = m.valid /\ n1.user_num = m.user_num + 1
      /\ n1.empty = m.empty /\ n1.full = m.full
  BY <1>1 DEF BoxType
<1>3. /\ n2 \in BoxType /\ n2.valid = 1 /\ n2.user_num = 1
      /\ n2.empty = {} /\ n2.full = {} /\ n2.head = 0 /\ n2.tail = 0
  <2> DEFINE none == {}
             i == 0
             v == 1
             w == 1
             a == [m EXCEPT !.valid = v, !.name = s, !.user_num = w]
             c == [a EXCEPT !.empty = none, !.full = none]
  <2>1. n2 = [c EXCEPT !.head = i, !.tail = i]
    BY DEF Opened
  <2>2. none \in SUBSET Tasks /\ i \in Index /\ v \in 0 .. 1 /\ w \in Int
    BY <1>1
  <2> HIDE DEF none, i, n2, v, w
  <2>3. a \in BoxType /\ a.valid = v /\ a.user_num = w
    BY <2>2 DEF BoxType
  <2> HIDE DEF a
  <2>4. c \in BoxType /\ c.valid = v /\ c.user_num = w /\ c.empty = none /\ c.full = none
    BY <2>3, <2>2 DEF BoxType
  <2> HIDE DEF c
  <2>5. /\ n2 \in BoxType /\ n2.valid = v /\ n2.user_num = w
        /\ n2.empty = none /\ n2.full = none /\ n2.head = i /\ n2.tail = i
    BY <2>1, <2>2, <2>4 DEF BoxType
  <2> QED BY <2>5 DEF none, i, v, w
<1>4. /\ n3 \in BoxType /\ n3.user_num = m.user_num - 1
      /\ n3.valid = IF m.user_num = 1 THEN 0 ELSE m.valid
      /\ n3.empty = m.empty /\ n3.full = m.full
  <2> DEFINE v == IF m.user_num = 1 THEN 0 ELSE m.valid
  <2>1. n3 = [m EXCEPT !.user_num = m.user_num - 1, !.valid = v]
    BY DEF Closed
  <2>2. v \in 0 .. 1 /\ m.user_num - 1 \in Int
    BY <1>1
  <2> HIDE DEF v
  <2>3. /\ n3 \in BoxType /\ n3.user_num = m.user_num - 1 /\ n3.valid = v
        /\ n3.empty = m.empty /\ n3.full = m.full
    BY <2>1, <2>2 DEF BoxType
  <2> QED BY <2>3 DEF v
<1> QED BY <1>2, <1>3, <1>4

\* mbox_open.
LEMMA OpenInv ==
  ASSUME Inv, NEW t \in Tasks, mbox_open(t)
  PROVE  Inv'
<1> DEFINE s == call[t].name
<1>1. Executes(t, "open") /\ Return(t) /\ UNCHANGED overrun /\ lock = t
  BY DEF mbox_open, Executes
<1>2. /\ mboxs \in [Boxes -> BoxType] /\ stored \in [Boxes -> Seq(Data)]
      /\ s \in Names \cup {NoName} /\ 0 \in Index
  BY MailboxAssumption DEF Inv, Types, CallType, Index
<1>3. ASSUME NEW b \in Boxes, mboxs[b].valid = 1,
             mboxs' = [mboxs EXCEPT ![b].user_num = @ + 1],
             box' = [box EXCEPT ![t] = b], UNCHANGED stored
      PROVE  Inv'
  <2> DEFINE m == [mboxs[b] EXCEPT !.user_num = @ + 1]
  <2>1. /\ m \in BoxType /\ m.valid = 1 /\ m.user_num = mboxs[b].user_num + 1
        /\ m.empty = mboxs[b].empty /\ m.full = mboxs[b].full
    BY <1>2, <1>3, BoxRecords
  <2>2. mboxs' = [mboxs EXCEPT ![b] = m]
    BY <1>3
  <2> HIDE DEF m
  <2> QED BY <1>1, <1>2, <1>3, <2>1, <2>2, OpenBox
<1>4. ASSUME NEW b \in Boxes, mboxs[b].valid = 0,
             mboxs' = [mboxs EXCEPT ![b] = Opened(@, s)],
             box' = [box EXCEPT ![t] = b], stored' = [stored EXCEPT ![b] = <<>>]
      PROVE  Inv'
  <2> DEFINE m == Opened(mboxs[b], s)
  <2>1. BoxOK(b) /\ UsersOf(b) = {}
    BY <1>4 DEF Inv, BoxOK
  <2>2. mboxs[b].user_num = 0 /\ mboxs[b].empty = {} /\ mboxs[b].full = {}
    BY <2>1, FS_EmptySet DEF BoxOK, Waiting, UsersOf
  <2>3. /\ m \in BoxType /\ m.valid = 1 /\ m.user_num = 1 /\ m.empty = {} /\ m.full = {}
    BY <1>2, <1>4, BoxRecords
  <2>4. mboxs' = [mboxs EXCEPT ![b] = m]
    BY <1>4
  <2>5. stored' \in [Boxes -> Seq(Data)]
    BY <1>2, <1>4, EmptySeq
  <2> HIDE DEF m
  <2>6. /\ m.user_num = mboxs[b].user_num + 1
        /\ m.empty = mboxs[b].empty /\ m.full = mboxs[b].full
    BY <2>2, <2>3
  <2> QED BY <1>1, <1>4, <2>3, <2>4, <2>5, <2>6, OpenBox
<1>5. CASE UNCHANGED <<mboxs, box, stored>>
  BY <1>1, <1>5, ReturnInv
<1> QED BY <1>3, <1>4, <1>5, OpenCases

\* mbox_close.
LEMMA CloseInv ==
  ASSUME Inv, NEW t \in Tasks, mbox_close(t)
  PROVE  Inv'
<1>0. PICK b0 \in Boxes : b0 = box[t]
  BY DEF mbox_close, Executes, Inv, CallsOK
<1> DEFINE m == Closed(mboxs[b0])
<1>1. /\ lock = t /\ Return(t) /\ UNCHANGED <<stored, overrun>>
      /\ mboxs' = [mboxs EXCEPT ![b0] = m] /\ box' = [box EXCEPT ![t] = NULL]
  BY <1>0 DEF mbox_close, Executes
<1>2. box \in [Tasks -> Boxes \cup {NULL}] /\ mboxs \in [Boxes -> BoxType]
  BY DEF Inv, Types
<1>3. /\ m \in BoxType /\ m.user_num = mboxs[b0].user_num - 1
      /\ m.valid = (IF mboxs[b0].user_num = 1 THEN 0 ELSE mboxs[b0].valid)
      /\ m.empty = mboxs[b0].empty /\ m.full = mboxs[b0].full
  <2>1. mboxs[b0] \in BoxType
    BY <1>2
  <2> QED BY <2>1, BoxRecords
<1> HIDE DEF m
<1>4. Types'
  BY <1>1, <1>2, <1>3, ReturnFields DEF Inv, Types
<1>5. CallsOK'
  BY <1>1, <1>2, ReturnFields, TasksAssumption DEF Inv, CallsOK
<1>6. ASSUME NEW b \in Boxes, b # b0 PROVE BoxOK(b)'
  <2>1. mboxs'[b] = mboxs[b] /\ box[t] # b /\ b # NULL
    BY <1>0, <1>1, <1>2, <1>6, NullNoBox
  <2> QED BY <1>1, <1>6, <2>1, OtherBoxes
<1>7. BoxOK(b0)'
  <2>1. UsersOf(b0)' = UsersOf(b0) \ {t} /\ t \in UsersOf(b0)
    BY <1>1, <1>2, <1>0, NullNoBox DEF UsersOf
  <2>2. /\ Cardinality(UsersOf(b0)') = Cardinality(UsersOf(b0)) - 1
        /\ IsFiniteSet(UsersOf(b0)') /\ Cardinality(UsersOf(b0)) \in Nat
    BY <2>1, UsersFinite, FS_RemoveElement
  <2>3. Cardinality(UsersOf(b0)') = 0 <=> UsersOf(b0)' = {}
    BY <2>2, FS_EmptySet
  <2>4. /\ Waiting(b0, "recv")' = Waiting(b0, "recv")
        /\ Waiting(b0, "send")' = Waiting(b0, "send")
    BY <1>1, <1>2, ReturnFields, NullNoBox DEF Waiting
  <2>5. mboxs'[b0] = m /\ BoxOK(b0)
    BY <1>1, <1>2 DEF Inv
  <2>6. mboxs[b0].valid = 1 /\ (mboxs[b0].user_num = 1 <=> UsersOf(b0)' = {})
    BY <2>1, <2>2, <2>3, <2>5 DEF BoxOK
  <2> QED BY <1>3, <2>2, <2>4, <2>5, <2>6 DEF BoxOK
<1> QED BY <1>4, <1>5, <1>6, <1>7 DEF Inv

\* The queue of a condition in a mailbox, and who waits for it.
Waits(c) == IF c = "empty" THEN "recv" ELSE "send"

\* Two records that differ in the queues of the conditions only.
SameButQueues(m, n) ==
  /\ n.valid = m.valid /\ n.user_num = m.user_num
  /\ n.head = m.head /\ n.tail = m.tail /\ n.data_buffer = m.data_buffer

\* n is m with another queue S for the condition c.
Requeued(m, n, c, S) ==
  /\ n \in BoxType /\ SameButQueues(m, n)
  /\ n.empty = IF c = "empty" THEN S ELSE m.empty
  /\ n.full = IF c = "full" THEN S ELSE m.full

\* Such a record is obtained by one assignment.
LEMMA QueueRecord ==
  ASSUME NEW m \in BoxType, NEW c \in {"empty", "full"}, NEW S \in SUBSET Tasks
  PROVE  Requeued(m, [m EXCEPT ![c] = S], c, S)
<1> DEFINE n == [m EXCEPT ![c] = S]
<1>1. CASE c = "empty"
  <2>1. n = [m EXCEPT !.empty = S]
    BY <1>1
  <2> QED BY <1>1, <2>1 DEF BoxType, SameButQueues, Requeued
<1>2. CASE c = "full"
  <2>1. n = [m EXCEPT !.full = S]
    BY <1>2
  <2> QED BY <1>2, <2>1 DEF BoxType, SameButQueues, Requeued
<1> QED BY <1>1, <1>2

\* The queue of a condition is a set of tasks.
LEMMA QueueType ==
  ASSUME NEW m \in BoxType, NEW c \in {"empty", "full"}
  PROVE  /\ m[c] \in SUBSET Tasks
         /\ m[c] = IF c = "empty" THEN m.empty ELSE m.full
BY DEF BoxType

\* The queue for c in the record n of b0 is that of those who wait for c now ...
Queues(n, b0, c) ==
  /\ n.valid = mboxs[b0].valid /\ n.user_num = mboxs[b0].user_num
  /\ n.empty = IF c = "empty" THEN Waiting(b0, "recv")' ELSE mboxs[b0].empty
  /\ n.full = IF c = "full" THEN Waiting(b0, "send")' ELSE mboxs[b0].full

\* ... and only for c in b0 can a wait have begun or ended.
WaitsOnly(b0, c) ==
  \A u \in Tasks : \/ Awake(u) \/ Alike(u)
                   \/ box[u] = b0 /\ call[u].op = Waits(c) /\ call'[u].op = call[u].op

\* condition_wait and condition_signal.
LEMMA QueueBoxes ==
  ASSUME Inv, NEW b0 \in Boxes, NEW c \in {"empty", "full"}, box' = box,
         NEW n \in BoxType, mboxs' = [mboxs EXCEPT ![b0] = n],
         Queues(n, b0, c), WaitsOnly(b0, c)
  PROVE  \A b \in Boxes : BoxOK(b)'
<1>1. mboxs \in [Boxes -> BoxType]
  BY DEF Inv, Types
<1>2. \A b : UsersOf(b)' = UsersOf(b)
  BY DEF UsersOf
<1>3. ASSUME NEW b \in Boxes, NEW op, b # b0 \/ op # Waits(c)
      PROVE  Waiting(b, op)' = Waiting(b, op)
  BY <1>3 DEF Waiting, Awake, Alike, WaitsOnly
<1>4. ASSUME NEW b \in Boxes, b # b0 PROVE BoxOK(b)'
  <2>1. mboxs'[b] = mboxs[b]
    BY <1>1, <1>4
  <2> QED BY <1>2, <1>3, <1>4, <2>1, SameBox DEF Inv
<1>5. BoxOK(b0)'
  <2>1. mboxs'[b0] = n /\ BoxOK(b0)
    BY <1>1 DEF Inv
  <2>2. CASE c = "empty"
    <3>1. Waiting(b0, "send")' = Waiting(b0, "send")
      BY <1>3, <2>2 DEF Waits
    <3> QED BY <1>2, <2>1, <2>2, <3>1 DEF BoxOK, Queues
  <2>3. CASE c = "full"
    <3>1. Waiting(b0, "recv")' = Waiting(b0, "recv")
      BY <1>3, <2>3 DEF Waits
    <3> QED BY <1>2, <2>1, <2>3, <3>1 DEF BoxOK, Queues
  <2> QED BY <2>2, <2>3
<1> QED BY <1>4, <1>5

\* condition_wait.
LEMMA WaitForInv ==
  ASSUME Inv, NEW t \in Tasks, lock = t, NEW b0 \in Boxes, box[t] = b0,
         NEW c \in {"empty", "full"}, call[t].op = Waits(c), WaitFor(t, c)
  PROVE  /\ Inv'
         /\ \E n \in BoxType : mboxs' = [mboxs EXCEPT ![b0] = n] /\ SameButQueues(mboxs[b0], n)
<1> DEFINE m == mboxs[b0]
           S == m[c] \cup {t}
           n == [m EXCEPT ![c] = S]
<1>1. /\ mboxs' = [mboxs EXCEPT ![b0] = n] /\ lock' = Nobody
      /\ call' = [call EXCEPT ![t].at = "wait"] /\ UNCHANGED <<box, stored, overrun>>
  BY DEF WaitFor
<1>2. /\ mboxs \in [Boxes -> BoxType] /\ call \in [Tasks -> CallType]
      /\ box \in [Tasks -> Boxes \cup {NULL}]
  BY DEF Inv, Types
<1>3. /\ call' \in [Tasks -> CallType] /\ call'[t].op = call[t].op /\ call'[t].at = "wait"
      /\ call[t].at = "locked" /\ \A u \in Tasks : u # t => call'[u] = call[u]
  BY <1>1, <1>2 DEF CallType, Inv, CallsOK
<1>4. m \in BoxType
  BY <1>2
<1> HIDE DEF m
<1>5. S \in SUBSET Tasks /\ m[c] = IF c = "empty" THEN m.empty ELSE m.full
  BY <1>4, QueueType
<1> HIDE DEF S
<1>13. Requeued(m, n, c, S)
  BY <1>4, <1>5, QueueRecord
<1> HIDE DEF n
<1>6. /\ n \in BoxType /\ SameButQueues(m, n)
      /\ n.empty = IF c = "empty" THEN S ELSE m.empty
      /\ n.full = IF c = "full" THEN S ELSE m.full
  BY <1>13 DEF Requeued
<1>7. Waiting(b0, Waits(c))' = Waiting(b0, Waits(c)) \cup {t}
  BY <1>1, <1>3 DEF Waiting
<1>8. S = Waiting(b0, Waits(c))'
  BY <1>5, <1>7 DEF Inv, BoxOK, S, m, Waits
<1>9. WaitsOnly(b0, c)
  BY <1>3 DEF Alike, WaitsOnly
<1>10. \A b \in Boxes : BoxOK(b)'
  <2>1. Queues(n, b0, c)
    BY <1>6, <1>8 DEF SameButQueues, Queues, Waits, m
  <2> QED BY <1>1, <1>6, <1>9, <2>1, QueueBoxes
<1>11. Types'
  BY <1>1, <1>2, <1>3, <1>6 DEF Inv, Types
<1>12. CallsOK'
  BY <1>1, <1>3, TasksAssumption DEF Inv, CallsOK
<1> QED BY <1>1, <1>6, <1>10, <1>11, <1>12 DEF Inv, m

\* n is the record of a mailbox after bytes have moved.
SameButRing(m, n) ==
  /\ n \in BoxType /\ n.valid = m.valid /\ n.user_num = m.user_num
  /\ n.empty = m.empty /\ n.full = m.full

\* condition_signal, after one byte has been moved.
LEMMA MovedInv ==
  ASSUME Inv, NEW t \in Tasks, lock = t, NEW b0 \in Boxes, box[t] = b0,
         call[t].msg # <<>>, NEW c \in {"empty", "full"}, NEW m,
         SameButRing(mboxs[b0], m), Moved(t, m, c),
         stored' \in [Boxes -> Seq(Data)], overrun' \in BOOLEAN
  PROVE  /\ Inv'
         /\ \E n \in BoxType : mboxs' = [mboxs EXCEPT ![b0] = n] /\ SameButQueues(m, n)
<1>1. PICK w \in Signalled(mboxs[b0], c) :
        /\ mboxs' = [mboxs EXCEPT ![b0] = [m EXCEPT ![c] = @ \ w]]
        /\ call' = [u \in Tasks |-> IF u \in w THEN [call[u] EXCEPT !.at = "acquire"]
                                    ELSE IF u = t THEN [call[u] EXCEPT !.msg = Tail(@)]
                                    ELSE call[u]]
  BY DEF Moved
<1>2. UNCHANGED <<lock, box>>
  BY DEF Moved
<1>3. /\ mboxs \in [Boxes -> BoxType] /\ call \in [Tasks -> CallType]
      /\ box \in [Tasks -> Boxes \cup {NULL}] /\ call[t].at = "locked"
  BY DEF Inv, Types, CallsOK
<1>4. mboxs[b0][c] = Waiting(b0, Waits(c)) /\ m[c] = mboxs[b0][c]
  <2>1. mboxs[b0] \in BoxType /\ m \in BoxType
    BY <1>3 DEF SameButRing
  <2>2. /\ mboxs[b0][c] = (IF c = "empty" THEN mboxs[b0].empty ELSE mboxs[b0].full)
        /\ m[c] = (IF c = "empty" THEN m.empty ELSE m.full)
    BY <2>1, QueueType
  <2> QED BY <2>2 DEF Inv, BoxOK, Waits, SameButRing
<1>5. w \subseteq Waiting(b0, Waits(c)) /\ t \notin w
  BY <1>1, <1>3, <1>4 DEF Signalled, Waiting
<1>6. /\ call' \in [Tasks -> CallType]
      /\ \A u \in Tasks : /\ call'[u].op = call[u].op
                          /\ call'[u].at = IF u \in w THEN "acquire" ELSE call[u].at
  <2>1. ASSUME NEW u \in Tasks
        PROVE  /\ call'[u] \in CallType /\ call'[u].op = call[u].op
               /\ call'[u].at = IF u \in w THEN "acquire" ELSE call[u].at
    <3>1. call[u] \in CallType /\ call[t] \in CallType
      BY <1>3
    <3>2. CASE u \in w
      <4>1. call'[u] = [call[u] EXCEPT !.at = "acquire"]
        BY <1>1, <3>2
      <4> QED BY <3>1, <3>2, <4>1 DEF CallType
    <3>3. CASE u \notin w /\ u = t
      <4>1. call'[t] = [call[t] EXCEPT !.msg = Tail(call[t].msg)]
        BY <1>1, <1>5
      <4>2. Tail(call[t].msg) \in Seq(Data)
        BY <3>1, HeadTailProperties DEF CallType
      <4> QED BY <3>1, <3>3, <4>1, <4>2 DEF CallType
    <3>4. CASE u \notin w /\ u # t
      <4>1. call'[u] = call[u]
        BY <1>1, <3>4
      <4> QED BY <3>1, <3>4, <4>1
    <3> QED BY <3>2, <3>3, <3>4
  <2> QED BY <1>1, <2>1
<1> DEFINE S == m[c] \ w
           n == [m EXCEPT ![c] = S]
<1>7. m \in BoxType /\ S \in SUBSET Tasks /\ mboxs' = [mboxs EXCEPT ![b0] = n]
  <2>1. m \in BoxType
    BY DEF SameButRing
  <2>2. m[c] \in SUBSET Tasks
    BY <2>1, QueueType
  <2> QED BY <1>1, <2>1, <2>2
<1>8. Waiting(b0, Waits(c))' = S
  <2>1. Waiting(b0, Waits(c))' = Waiting(b0, Waits(c)) \ w
    BY <1>2, <1>5, <1>6 DEF Waiting
  <2> QED BY <1>4, <2>1
<1> HIDE DEF S
<1>9. Requeued(m, n, c, S)
  BY <1>7, QueueRecord
<1> HIDE DEF n
<1>10. n \in BoxType /\ SameButQueues(m, n)
  BY <1>9 DEF Requeued
<1>11. Queues(n, b0, c)
  BY <1>8, <1>9 DEF Requeued, SameButQueues, SameButRing, Queues, Waits
<1>12. WaitsOnly(b0, c)
  BY <1>5, <1>6 DEF WaitsOnly, Alike, Waiting
<1>13. \A b \in Boxes : BoxOK(b)'
  BY <1>2, <1>7, <1>10, <1>11, <1>12, QueueBoxes
<1>14. Types'
  BY <1>2, <1>3, <1>6, <1>7, <1>10 DEF Inv, Types
<1>15. CallsOK'
  <2>1. \A u \in w : u \in Tasks /\ call[u].at = "wait"
    BY <1>5 DEF Waiting
  <2> QED BY <1>2, <1>6, <2>1 DEF Inv, CallsOK, Waiting
<1> QED BY <1>7, <1>10, <1>13, <1>14, <1>15 DEF Inv

\* One round of mbox_send.
LEMMA SendRecord ==
  ASSUME NEW m \in BoxType, NEW x \in Data
  PROVE  LET n == [m EXCEPT !.data_buffer[m.tail] = x, !.tail = Following(@)]
         IN  /\ SameButRing(m, n) /\ n.head = m.head /\ n.tail = Following(m.tail)
             /\ n.data_buffer = [m.data_buffer EXCEPT ![m.tail] = x]
<1> DEFINE d == [m.data_buffer EXCEPT ![m.tail] = x]
           i == Following(m.tail)
           n == [m EXCEPT !.data_buffer = d, !.tail = i]
<1>1. m.data_buffer \in [Index -> Data] /\ m.tail \in Index
  BY DEF BoxType
<1>2. d \in [Index -> Data]
  BY <1>1
<1>3. i \in Index
  BY <1>1, MailboxAssumption DEF Index, Following
<1> HIDE DEF d, i
<1>4. SameButRing(m, n) /\ n.head = m.head /\ n.tail = i /\ n.data_buffer = d
  BY <1>2, <1>3 DEF BoxType, SameButRing
<1> QED BY <1>4 DEF d, i

\* One round of mbox_recv.
LEMMA RecvRecord ==
  ASSUME NEW m \in BoxType
  PROVE  LET n == [m EXCEPT !.head = Following(@)]
         IN  /\ SameButRing(m, n) /\ n.tail = m.tail /\ n.head = Following(m.head)
             /\ n.data_buffer = m.data_buffer
<1> DEFINE i == Following(m.head)
           n == [m EXCEPT !.head = i]
<1>1. m.head \in Index
  BY DEF BoxType
<1>2. i \in Index
  BY <1>1, MailboxAssumption DEF Index, Following
<1> HIDE DEF i
<1>3. SameButRing(m, n) /\ n.tail = m.tail /\ n.head = i /\ n.data_buffer = m.data_buffer
  BY <1>2 DEF BoxType, SameButRing
<1> QED BY <1>3 DEF i

-----------------------------------------------------------------------------
\* The ring buffers.

Used(m) == (m.tail + MAX_BUFFER_SIZE - m.head) % MAX_BUFFER_SIZE

\* Where the i-th byte is, from the head h on.
Place(h, i) == (h + i - 1) % MAX_BUFFER_SIZE

\* The ring buffer of m holds the bytes s.
Holds(m, s) ==
  /\ Len(s) = Used(m)
  /\ \A i \in 1 .. Len(s) : s[i] = m.data_buffer[Place(m.head, i)]

\* The modulo operations wrap around once at most.
LEMMA Wraps ==
  ASSUME NEW a \in Nat, a < 2 * MAX_BUFFER_SIZE
  PROVE  a % MAX_BUFFER_SIZE = IF a < MAX_BUFFER_SIZE THEN a ELSE a - MAX_BUFFER_SIZE
BY MailboxAssumption

\* The number of bytes in the buffer, and their places, without modulo.
LEMMA UsedIs ==
  ASSUME NEW m \in BoxType
  PROVE  /\ Used(m) = IF m.tail < m.head THEN m.tail + MAX_BUFFER_SIZE - m.head
                      ELSE m.tail - m.head
         /\ Used(m) \in 0 .. MAX_BUFFER_SIZE - 1
         /\ m.head \in Index /\ m.tail \in Index
<1>1. /\ m.head \in Index /\ m.tail \in Index /\ MAX_BUFFER_SIZE \in Nat
      /\ m.head \in Nat /\ m.tail \in Nat
  BY MailboxAssumption DEF BoxType, Index
<1> DEFINE a == m.tail + MAX_BUFFER_SIZE - m.head
<1>2. a \in Nat /\ a < 2 * MAX_BUFFER_SIZE /\ Used(m) = a % MAX_BUFFER_SIZE
  BY <1>1 DEF Index, Used
<1> HIDE DEF a
<1>3. Used(m) = IF a < MAX_BUFFER_SIZE THEN a ELSE a - MAX_BUFFER_SIZE
  BY <1>2, Wraps
<1> QED BY <1>1, <1>3 DEF Index, a

\* The place of a byte in the buffer.
LEMMA PlaceIs ==
  ASSUME NEW h \in Index, NEW i \in 1 .. MAX_BUFFER_SIZE
  PROVE  /\ Place(h, i) = IF h + i - 1 < MAX_BUFFER_SIZE THEN h + i - 1
                          ELSE h + i - 1 - MAX_BUFFER_SIZE
         /\ Place(h, i) \in Index
<1>1. MAX_BUFFER_SIZE \in Nat /\ h \in Nat /\ i \in Nat
  BY MailboxAssumption DEF Index
<1> DEFINE a == h + i - 1
<1>2. a \in Nat /\ a < 2 * MAX_BUFFER_SIZE /\ Place(h, i) = a % MAX_BUFFER_SIZE
  BY <1>1 DEF Index, Place
<1> HIDE DEF a
<1>3. Place(h, i) = IF a < MAX_BUFFER_SIZE THEN a ELSE a - MAX_BUFFER_SIZE
  BY <1>2, Wraps
<1>4. Place(h, i) \in Index
  BY <1>1, <1>2, <1>3 DEF Index
<1> QED BY <1>1, <1>3, <1>4 DEF a

\* The next place in the buffer.
LEMMA FollowingIs ==
  ASSUME NEW i \in Index
  PROVE  Following(i) = IF i + 1 = MAX_BUFFER_SIZE THEN 0 ELSE i + 1
<1>1. MAX_BUFFER_SIZE \in Nat /\ i \in Nat /\ i + 1 \in Nat /\ i + 1 < 2 * MAX_BUFFER_SIZE
  BY MailboxAssumption DEF Index
<1> QED BY <1>1, Wraps DEF Following, Index

\* Contents is what the buffer holds.
LEMMA HoldsContents ==
  ASSUME NEW m \in BoxType, NEW s \in Seq(Data), Holds(m, s)
  PROVE  Contents(m) = s
<1>1. Contents(m) = [i \in 1 .. Len(s) |-> m.data_buffer[(m.head + i - 1) % MAX_BUFFER_SIZE]]
  BY DEF Holds, Contents, Used, Place
<1>2. s \in [1 .. Len(s) -> Data]
  BY LenProperties
<1> QED BY <1>1, <1>2 DEF Holds, Place

\* mbox_send appends a byte, as long as there is room.
LEMMA SendHolds ==
  ASSUME NEW m \in BoxType, NEW n \in BoxType, NEW s \in Seq(Data), NEW x \in Data,
         Holds(m, s), Len(s) # MAX_BUFFER_SIZE - 1,
         n.head = m.head, n.tail = Following(m.tail),
         n.data_buffer = [m.data_buffer EXCEPT ![m.tail] = x]
  PROVE  Holds(n, Append(s, x))
<1> DEFINE N == MAX_BUFFER_SIZE
           s2 == Append(s, x)
           h == m.head
           e == m.tail
           place(i) == Place(h, i)
<1>1. /\ m.head \in 0 .. N - 1 /\ m.tail \in 0 .. N - 1 /\ N \in Nat \ {0}
      /\ n.head \in 0 .. N - 1 /\ n.tail \in 0 .. N - 1
      /\ m.data_buffer \in [0 .. N - 1 -> Data]
  BY MailboxAssumption DEF BoxType, Index
<1>2. Len(s) = IF m.tail < m.head THEN m.tail + N - m.head ELSE m.tail - m.head
  BY UsedIs DEF Holds
<1>3. n.tail = IF m.tail + 1 = N THEN 0 ELSE m.tail + 1
  BY <1>1, FollowingIs DEF Index
<1>4. Used(n) = IF n.tail < n.head THEN n.tail + N - n.head ELSE n.tail - n.head
  BY UsedIs
<1>5. Len(s) \in Nat /\ Len(s) < N - 1
  BY <1>1, <1>2
<1>6. Used(n) = Len(s) + 1
  <2> DEFINE a == m.tail
             b == m.head
             c == n.tail
             l == Len(s)
             u == Used(n)
             z == MAX_BUFFER_SIZE
  <2>1. /\ a \in 0 .. z - 1 /\ b \in 0 .. z - 1 /\ z \in Nat
        /\ l = (IF a < b THEN a + z - b ELSE a - b) /\ l < z - 1
    BY <1>1, <1>2, <1>5
  <2>2. /\ c = (IF a + 1 = z THEN 0 ELSE a + 1)
        /\ u = (IF c < b THEN c + z - b ELSE c - b)
    BY <1>3, <1>4
  <2> HIDE DEF a, b, c, l, u, z
  <2>3. u = l + 1
    BY <2>1, <2>2
  <2> QED BY <2>3 DEF l, u
<1>7. /\ Len(s2) = Len(s) + 1 /\ s2[Len(s) + 1] = x
      /\ \A i \in 1 .. Len(s) : s2[i] = s[i]
  BY AppendProperties
<1>8. \A i \in 1 .. Len(s) + 1 :
        /\ place(i) = IF h + i - 1 < N THEN h + i - 1 ELSE h + i - 1 - N
        /\ place(i) \in 0 .. N - 1
  <2>1. ASSUME NEW i \in 1 .. Len(s) + 1 PROVE i \in 1 .. N
    BY <1>1, <1>5
  <2> QED BY <1>1, <2>1, PlaceIs DEF Index
<1> HIDE DEF place
<1>9. place(Len(s) + 1) = m.tail
  <2> DEFINE p == place(Len(s) + 1)
             l == Len(s)
  <2>0. Len(s) + 1 \in 1 .. Len(s) + 1
    BY <1>5
  <2>1. p = IF h + (l + 1) - 1 < N THEN h + (l + 1) - 1 ELSE h + (l + 1) - 1 - N
    BY <1>8, <2>0
  <2>1a. /\ h \in 0 .. N - 1 /\ e \in 0 .. N - 1 /\ N \in Nat \ {0} /\ l \in Nat
         /\ l = IF e < h THEN e + N - h ELSE e - h
    BY <1>1, <1>2, <1>5
  <2> HIDE DEF p, l, h, e, N
  <2>2. p = e
    BY <2>1, <2>1a
  <2> QED BY <2>2 DEF p, l, e
<1>10. \A i \in 1 .. Len(s) : place(i) # m.tail
  <2> SUFFICES ASSUME NEW i \in 1 .. Len(s), place(i) = e PROVE FALSE
    OBVIOUS
  <2> DEFINE l == Len(s)
  <2>0. i \in 1 .. Len(s) + 1
    BY <1>5
  <2>1. e = IF h + i - 1 < N THEN h + i - 1 ELSE h + i - 1 - N
    BY <1>8, <2>0
  <2>1a. /\ h \in 0 .. N - 1 /\ e \in 0 .. N - 1 /\ N \in Nat \ {0} /\ l \in Nat
         /\ l = IF e < h THEN e + N - h ELSE e - h
         /\ i \in 1 .. l /\ l < N - 1
    BY <1>1, <1>2, <1>5
  <2> HIDE DEF l, h, e, N
  <2> QED BY <2>1, <2>1a
<1> HIDE DEF s2
<1>11. n.data_buffer[m.tail] = x
  BY <1>1
<1>12. \A i \in 1 .. Len(s) : n.data_buffer[place(i)] = m.data_buffer[place(i)]
  BY <1>1, <1>5, <1>8, <1>10
<1>13. \A i \in 1 .. Len(s) : s2[i] = n.data_buffer[place(i)]
  BY <1>7, <1>12 DEF Holds, place
<1>14. ASSUME NEW i \in 1 .. Len(s2) PROVE s2[i] = n.data_buffer[place(i)]
  <2>1. i \in 1 .. Len(s) \/ i = Len(s) + 1
    BY <1>5, <1>7
  <2> QED BY <1>7, <1>9, <1>11, <1>13, <2>1
<1> QED BY <1>6, <1>7, <1>14 DEF Holds, s2, place

\* mbox_recv takes the first byte.
LEMMA RecvHolds ==
  ASSUME NEW m \in BoxType, NEW n \in BoxType, NEW s \in Seq(Data),
         Holds(m, s), m.head # m.tail,
         n.head = Following(m.head), n.tail = m.tail, n.data_buffer = m.data_buffer
  PROVE  s # <<>> /\ Holds(n, Tail(s))
<1> DEFINE N == MAX_BUFFER_SIZE
           s2 == Tail(s)
<1>1. /\ m.head \in 0 .. N - 1 /\ m.tail \in 0 .. N - 1 /\ N \in Nat \ {0}
      /\ n.head \in 0 .. N - 1 /\ n.tail \in 0 .. N - 1
  BY MailboxAssumption DEF BoxType, Index
<1>2. Len(s) = IF m.tail < m.head THEN m.tail + N - m.head ELSE m.tail - m.head
  BY UsedIs DEF Holds
<1>3. n.head = IF m.head + 1 = N THEN 0 ELSE m.head + 1
  BY <1>1, FollowingIs DEF Index
<1>4. Used(n) = IF n.tail < n.head THEN n.tail + N - n.head ELSE n.tail - n.head
  BY UsedIs
<1>5. Len(s) \in Nat /\ Len(s) > 0 /\ Len(s) < N
  BY <1>1, <1>2
<1>6. Used(n) = Len(s) - 1
  <2> DEFINE a == m.tail
             b == m.head
             c == n.head
             l == Len(s)
             u == Used(n)
             z == MAX_BUFFER_SIZE
  <2>1. /\ a \in 0 .. z - 1 /\ b \in 0 .. z - 1 /\ z \in Nat
        /\ l = (IF a < b THEN a + z - b ELSE a - b) /\ l > 0
    BY <1>1, <1>2, <1>5
  <2>2. /\ c = (IF b + 1 = z THEN 0 ELSE b + 1)
        /\ u = (IF a < c THEN a + z - c ELSE a - c)
    BY <1>3, <1>4
  <2> HIDE DEF a, b, c, l, u, z
  <2>3. u = l - 1
    BY <2>1, <2>2
  <2> QED BY <2>3 DEF l, u
<1>7. s # <<>>
  BY <1>5, EmptySeq
<1>8. Len(s2) = Len(s) - 1 /\ \A i \in 1 .. Len(s2) : s2[i] = s[i + 1]
  BY <1>7, HeadTailProperties
<1> HIDE DEF s2
<1>9. ASSUME NEW i \in 1 .. Len(s2)
      PROVE  s2[i] = n.data_buffer[Place(n.head, i)]
  <2>1. i \in 1 .. N /\ i + 1 \in 1 .. N /\ i + 1 \in 1 .. Len(s) /\ i \in Nat
    BY <1>1, <1>5, <1>8
  <2>2. s2[i] = m.data_buffer[Place(m.head, i + 1)]
    BY <1>8, <2>1 DEF Holds
  <2> DEFINE h == m.head
             g == n.head
             p == Place(h, i + 1)
             r == Place(g, i)
  <2>3. /\ p = IF h + (i + 1) - 1 < N THEN h + (i + 1) - 1 ELSE h + (i + 1) - 1 - N
        /\ r = IF g + i - 1 < N THEN g + i - 1 ELSE g + i - 1 - N
    BY <1>1, <2>1, PlaceIs DEF Index
  <2>4. h \in 0 .. N - 1 /\ g = (IF h + 1 = N THEN 0 ELSE h + 1) /\ N \in Nat \ {0} /\ i \in 1 .. N - 1
    BY <1>1, <1>3, <2>1
  <2> HIDE DEF h, g, p, r, N
  <2>5. p = r
    BY <2>3, <2>4
  <2> QED BY <2>2, <2>5 DEF h, g, p, r
<1> QED BY <1>6, <1>7, <1>8, <1>9 DEF Holds, s2

-----------------------------------------------------------------------------
\* The steps, for both properties.

FifoInv == ~ overrun => \A b \in Boxes : mboxs[b].valid = 1 => Holds(mboxs[b], stored[b])

\* A record that holds what another one holds.
SameRing(m, n) ==
  /\ n.valid = m.valid /\ n.head = m.head /\ n.tail = m.tail
  /\ n.data_buffer = m.data_buffer

\* Nothing happens to the bytes.
LEMMA SameFifo ==
  ASSUME FifoInv, UNCHANGED <<stored, overrun>>,
         \A b \in Boxes : SameRing(mboxs[b], mboxs'[b]) \/ mboxs'[b].valid # 1
  PROVE  FifoInv'
BY DEF FifoInv, SameRing, Holds, Used

\* Something happens to one mailbox.
LEMMA OneFifo ==
  ASSUME Inv, FifoInv, NEW b0 \in Boxes, NEW n, mboxs' = [mboxs EXCEPT ![b0] = n],
         NEW s, stored' = [stored EXCEPT ![b0] = s],
         overrun => overrun', ~ overrun' /\ n.valid = 1 => Holds(n, s)
  PROVE  FifoInv'
<1>1. mboxs'[b0] = n /\ stored'[b0] = s
  BY DEF Inv, Types
<1>2. \A b \in Boxes : b # b0 => mboxs'[b] = mboxs[b] /\ stored'[b] = stored[b]
  BY DEF Inv, Types
<1> QED BY <1>1, <1>2 DEF FifoInv

\* mbox_open leaves a mailbox that it found as it was, and empties a new one.
LEMMA OpenFifo ==
  ASSUME Inv, FifoInv, NEW t \in Tasks, mbox_open(t)
  PROVE  FifoInv'
<1> DEFINE s == call[t].name
<1>1. UNCHANGED overrun
  BY DEF mbox_open
<1>2. mboxs \in [Boxes -> BoxType] /\ s \in Names \cup {NoName}
  BY DEF Inv, Types, CallType
<1>3. ASSUME NEW b \in Boxes, mboxs' = [mboxs EXCEPT ![b].user_num = @ + 1], UNCHANGED stored
      PROVE  FifoInv'
  <2>1. \A c \in Boxes : SameRing(mboxs[c], mboxs'[c])
    BY <1>2, <1>3 DEF SameRing, BoxType
  <2> QED BY <1>1, <1>3, <2>1, SameFifo
<1>4. ASSUME NEW b \in Boxes, mboxs' = [mboxs EXCEPT ![b] = Opened(@, s)],
             stored' = [stored EXCEPT ![b] = <<>>]
      PROVE  FifoInv'
  <2> DEFINE n == Opened(mboxs[b], s)
             none == <<>>
  <2>0. mboxs[b] \in BoxType
    BY <1>2
  <2>1. n \in BoxType /\ n.head = 0 /\ n.tail = 0
    BY <1>2, <2>0, BoxRecords
  <2>2. mboxs' = [mboxs EXCEPT ![b] = n] /\ stored' = [stored EXCEPT ![b] = none]
    BY <1>4
  <2>3. Len(none) = 0
    BY EmptySeq
  <2> HIDE DEF n, none
  <2>4. Used(n) = 0
    BY <2>1, UsedIs
  <2>5. Holds(n, none)
    BY <2>3, <2>4 DEF Holds
  <2> QED BY <1>1, <2>2, <2>5, OneFifo
<1>5. CASE UNCHANGED <<mboxs, box, stored>>
  BY <1>1, <1>5, SameFifo DEF SameRing
<1> QED BY <1>3, <1>4, <1>5, OpenCases

\* mbox_close invalidates a mailbox or leaves its bytes alone.
LEMMA CloseFifo ==
  ASSUME Inv, FifoInv, NEW t \in Tasks, mbox_close(t)
  PROVE  FifoInv'
<1>1. PICK b0 \in Boxes : b0 = box[t]
  BY DEF mbox_close, Executes, Inv, CallsOK
<1>2. mboxs' = [mboxs EXCEPT ![b0] = Closed(mboxs[b0])] /\ UNCHANGED <<stored, overrun>>
  BY <1>1 DEF mbox_close
<1>3. mboxs \in [Boxes -> BoxType] /\ mboxs[b0] \in BoxType
  BY DEF Inv, Types
<1>4. SameRing(mboxs[b0], Closed(mboxs[b0])) \/ Closed(mboxs[b0]).valid # 1
  <2> DEFINE m == mboxs[b0]
  <2>1. m \in BoxType /\ m.valid \in 0 .. 1
    BY <1>3 DEF BoxType
  <2> HIDE DEF m
  <2>2. SameRing(m, Closed(m)) \/ Closed(m).valid # 1
    BY <2>1 DEF SameRing, Closed, BoxType
  <2> QED BY <2>2 DEF m
<1>5. \A b \in Boxes : SameRing(mboxs[b], mboxs'[b]) \/ mboxs'[b].valid # 1
  <2>1. mboxs'[b0] = Closed(mboxs[b0]) /\ \A b \in Boxes : b # b0 => mboxs'[b] = mboxs[b]
    BY <1>2, <1>3
  <2> QED BY <1>4, <2>1 DEF SameRing
<1> QED BY <1>2, <1>5, SameFifo

\* condition_wait has nothing to do with the bytes.
LEMMA WaitForFifo ==
  ASSUME Inv, FifoInv, UNCHANGED <<stored, overrun>>, NEW b0 \in Boxes, NEW n,
         mboxs' = [mboxs EXCEPT ![b0] = n], SameButQueues(mboxs[b0], n)
  PROVE  FifoInv'
<1>1. mboxs'[b0] = n /\ \A b \in Boxes : b # b0 => mboxs'[b] = mboxs[b]
  BY DEF Inv, Types
<1>2. \A b \in Boxes : SameRing(mboxs[b], mboxs'[b])
  BY <1>1 DEF SameRing, SameButQueues
<1> QED BY <1>2, SameFifo

\* One round of mbox_send.
LEMMA SendInv ==
  ASSUME Inv, NEW t \in Tasks, mbox_send(t)
  PROVE  Inv' /\ (FifoInv => FifoInv')
<1> DEFINE msg == call[t].msg
           c == "empty"
           f == "full"
<1>1. Executes(t, "send") /\ lock = t /\ call[t].op = "send"
  BY DEF mbox_send, Executes
<1>2. PICK b0 \in Boxes : b0 = box[t]
  BY <1>1 DEF Inv, CallsOK
<1>3. /\ mboxs \in [Boxes -> BoxType] /\ stored \in [Boxes -> Seq(Data)] /\ overrun \in BOOLEAN
      /\ msg \in Seq(Data) /\ mboxs[b0] \in BoxType /\ stored[b0] \in Seq(Data)
  BY DEF Inv, Types, CallType
<1>4. /\ c \in {"empty", "full"} /\ f \in {"empty", "full"}
      /\ Waits(f) = "send"
  BY DEF Waits
<1>5. CASE msg # <<>> /\ Full(mboxs[b0])
  <2>1. WaitFor(t, f) /\ UNCHANGED <<stored, overrun>>
    BY <1>2, <1>5 DEF mbox_send, WaitFor
  <2> HIDE DEF f
  <2>2. /\ Inv'
        /\ \E n \in BoxType : mboxs' = [mboxs EXCEPT ![b0] = n] /\ SameButQueues(mboxs[b0], n)
    BY <1>1, <1>2, <1>4, <2>1, WaitForInv
  <2> QED BY <2>1, <2>2, WaitForFifo
<1>6. CASE msg # <<>> /\ ~ Full(mboxs[b0])
  <2> DEFINE m == mboxs[b0]
             x == Head(msg)
             m2 == [m EXCEPT !.data_buffer[m.tail] = x, !.tail = Following(@)]
             s2 == Append(stored[b0], x)
  <2>1. /\ Moved(t, m2, c) /\ stored' = [stored EXCEPT ![b0] = s2]
        /\ overrun' = (overrun \/ Len(stored[b0]) = MAX_BUFFER_SIZE - 1)
    BY <1>2, <1>6 DEF mbox_send
  <2>2. x \in Data
    BY <1>3, <1>6, HeadTailProperties
  <2> HIDE DEF x
  <2>3. s2 \in Seq(Data)
    BY <1>3, <2>2, AppendProperties
  <2> HIDE DEF s2
  <2>4. stored' \in [Boxes -> Seq(Data)] /\ overrun' \in BOOLEAN
    BY <1>3, <2>1, <2>3
  <2>5. /\ SameButRing(m, m2) /\ m2.head = m.head /\ m2.tail = Following(m.tail)
        /\ m2.data_buffer = [m.data_buffer EXCEPT ![m.tail] = x]
    BY <1>3, <2>2, SendRecord
  <2> HIDE DEF m2, c
  <2>6. /\ Inv'
        /\ \E n \in BoxType : mboxs' = [mboxs EXCEPT ![b0] = n] /\ SameButQueues(m2, n)
    BY <1>1, <1>2, <1>4, <1>6, <2>1, <2>4, <2>5, MovedInv
  <2>7. PICK n \in BoxType : mboxs' = [mboxs EXCEPT ![b0] = n] /\ SameButQueues(m2, n)
    BY <2>6
  <2>8. ASSUME FifoInv PROVE FifoInv'
    <3>1. n.valid = m.valid
      BY <2>5, <2>7 DEF SameButRing, SameButQueues
    <3>2. /\ n.head = m.head /\ n.tail = Following(m.tail)
          /\ n.data_buffer = [m.data_buffer EXCEPT ![m.tail] = x]
      BY <2>5, <2>7 DEF SameButQueues
    <3>3. ASSUME ~ overrun', n.valid = 1 PROVE Holds(n, s2)
      <4>1. Holds(m, stored[b0]) /\ Len(stored[b0]) # MAX_BUFFER_SIZE - 1
        BY <2>1, <2>8, <3>1, <3>3 DEF FifoInv
      <4> HIDE DEF m
      <4> QED BY <1>3, <2>2, <3>2, <4>1, SendHolds DEF s2, m
    <3>4. overrun => overrun'
      BY <2>1
    <3> QED BY <2>1, <2>7, <2>8, <3>3, <3>4, OneFifo
  <2> QED BY <2>6, <2>8
<1>7. CASE msg = <<>>
  <2>1. Return(t) /\ UNCHANGED <<mboxs, box, stored, overrun>>
    BY <1>7 DEF mbox_send
  <2> QED BY <1>1, <2>1, ReturnInv, SameFifo DEF SameRing
<1> QED BY <1>5, <1>6, <1>7

\* One round of mbox_recv.
LEMMA RecvInv ==
  ASSUME Inv, NEW t \in Tasks, mbox_recv(t)
  PROVE  Inv' /\ (FifoInv => FifoInv')
<1> DEFINE msg == call[t].msg
           c == "empty"
           f == "full"
<1>1. Executes(t, "recv") /\ lock = t /\ call[t].op = "recv"
  BY DEF mbox_recv, Executes
<1>2. PICK b0 \in Boxes : b0 = box[t]
  BY <1>1 DEF Inv, CallsOK
<1>3. /\ mboxs \in [Boxes -> BoxType] /\ stored \in [Boxes -> Seq(Data)] /\ overrun \in BOOLEAN
      /\ mboxs[b0] \in BoxType /\ stored[b0] \in Seq(Data)
  BY DEF Inv, Types
<1>4. /\ c \in {"empty", "full"} /\ f \in {"empty", "full"}
      /\ Waits(c) = "recv"
  BY DEF Waits
<1>5. CASE msg # <<>> /\ Empty(mboxs[b0])
  <2>1. WaitFor(t, c) /\ UNCHANGED <<stored, overrun>>
    BY <1>2, <1>5 DEF mbox_recv, WaitFor
  <2> HIDE DEF c
  <2>2. /\ Inv'
        /\ \E n \in BoxType : mboxs' = [mboxs EXCEPT ![b0] = n] /\ SameButQueues(mboxs[b0], n)
    BY <1>1, <1>2, <1>4, <2>1, WaitForInv
  <2> QED BY <2>1, <2>2, WaitForFifo
<1>6. CASE msg # <<>> /\ ~ Empty(mboxs[b0])
  <2> DEFINE m == mboxs[b0]
             m2 == [m EXCEPT !.head = Following(@)]
             s2 == IF stored[b0] = <<>> THEN stored[b0] ELSE Tail(stored[b0])
  <2>1. /\ Moved(t, m2, f) /\ stored' = [stored EXCEPT ![b0] = s2] /\ overrun' = overrun
    BY <1>2, <1>6 DEF mbox_recv
  <2>2. s2 \in Seq(Data)
    BY <1>3, HeadTailProperties
  <2> HIDE DEF s2
  <2>3. stored' \in [Boxes -> Seq(Data)] /\ overrun' \in BOOLEAN
    BY <1>3, <2>1, <2>2
  <2>4. /\ SameButRing(m, m2) /\ m2.tail = m.tail /\ m2.head = Following(m.head)
        /\ m2.data_buffer = m.data_buffer
    BY <1>3, RecvRecord
  <2> HIDE DEF m2, f
  <2>5. /\ Inv'
        /\ \E n \in BoxType : mboxs' = [mboxs EXCEPT ![b0] = n] /\ SameButQueues(m2, n)
    BY <1>1, <1>2, <1>4, <1>6, <2>1, <2>3, <2>4, MovedInv
  <2>6. PICK n \in BoxType : mboxs' = [mboxs EXCEPT ![b0] = n] /\ SameButQueues(m2, n)
    BY <2>5
  <2>7. ASSUME FifoInv PROVE FifoInv'
    <3>1. n.valid = m.valid
      BY <2>4, <2>6 DEF SameButRing, SameButQueues
    <3>2. n.tail = m.tail /\ n.head = Following(m.head) /\ n.data_buffer = m.data_buffer
      BY <2>4, <2>6 DEF SameButQueues
    <3>3. ASSUME ~ overrun', n.valid = 1 PROVE Holds(n, s2)
      <4>1. Holds(m, stored[b0]) /\ m.head # m.tail
        BY <1>6, <2>1, <2>7, <3>1, <3>3 DEF FifoInv, Empty
      <4> HIDE DEF m
      <4>2. stored[b0] # <<>> /\ Holds(n, Tail(stored[b0]))
        BY <1>3, <3>2, <4>1, RecvHolds DEF m
      <4> QED BY <4>2 DEF s2
    <3> QED BY <2>1, <2>6, <2>7, <3>3, OneFifo
  <2> QED BY <2>5, <2>7
<1>7. CASE msg = <<>>
  <2>1. Return(t) /\ UNCHANGED <<mboxs, box, stored, overrun>>
    BY <1>7 DEF mbox_recv
  <2> QED BY <1>1, <2>1, ReturnInv, SameFifo DEF SameRing
<1> QED BY <1>5, <1>6, <1>7

\* Every step preserves the invariant.
LEMMA NextInv == (Inv /\ FifoInv) /\ [Next]_vars => (Inv /\ FifoInv)'
<1> SUFFICES ASSUME Inv, FifoInv, [Next]_vars PROVE Inv' /\ FifoInv'
  OBVIOUS
<1>1. CASE UNCHANGED vars
  <2>1. Types' /\ CallsOK'
    BY <1>1 DEF vars, Inv, Types, CallsOK
  <2>2. \A b \in Boxes : BoxOK(b)'
    BY <1>1 DEF vars, Inv, BoxOK, UsersOf, Waiting
  <2> QED BY <1>1, <2>1, <2>2 DEF vars, Inv, FifoInv, Holds, Used
<1>2. ASSUME NEW t \in Tasks, Call(t) \/ Acquire(t) PROVE Inv' /\ FifoInv'
  <2>1. UNCHANGED <<mboxs, stored, overrun>>
    BY <1>2 DEF Call, Begin, Acquire
  <2> QED BY <1>2, <2>1, CallInv, AcquireInv, SameFifo DEF SameRing
<1>3. ASSUME NEW t \in Tasks, mbox_open(t) \/ mbox_close(t) PROVE Inv' /\ FifoInv'
  BY <1>3, OpenInv, OpenFifo, CloseInv, CloseFifo
<1>4. ASSUME NEW t \in Tasks, mbox_send(t) \/ mbox_recv(t) PROVE Inv' /\ FifoInv'
  BY <1>4, SendInv, RecvInv
<1> QED BY <1>1, <1>2, <1>3, <1>4 DEF Next

\* Initially no mailbox is open.
LEMMA InitInv == Init => Inv /\ FifoInv
<1> SUFFICES ASSUME Init PROVE Inv /\ FifoInv
  OBVIOUS
<1>1. <<>> \in Seq(Data) /\ 0 \in Index /\ NULL \in Boxes \cup {NULL}
  BY EmptySeq, MailboxAssumption DEF Index
<1>2. \A b \in Boxes : /\ mboxs[b] \in BoxType /\ mboxs[b].valid = 0 /\ mboxs[b].user_num = 0
                       /\ mboxs[b].empty = {} /\ mboxs[b].full = {}
  BY <1>1 DEF Init, BoxType, Data
<1>3. Idle \in CallType /\ Idle.op = "none" /\ Idle.at = "user"
  BY <1>1 DEF Idle, CallType
<1>4. Types
  <2>1. mboxs \in [Boxes -> BoxType]
    BY <1>2 DEF Init
  <2> QED BY <1>1, <1>3, <2>1 DEF Init, Types
<1>5. CallsOK
  BY <1>3, TasksAssumption DEF Init, CallsOK
<1>6. ASSUME NEW b \in Boxes PROVE BoxOK(b)
  <2>1. UsersOf(b) = {}
    BY NullNoBox DEF Init, UsersOf
  <2>2. Waiting(b, "recv") = {} /\ Waiting(b, "send") = {}
    BY NullNoBox DEF Init, Waiting
  <2>3. Cardinality(UsersOf(b)) = 0
    BY <2>1, FS_EmptySet
  <2> QED BY <1>2, <2>1, <2>2, <2>3 DEF BoxOK
<1> QED BY <1>2, <1>4, <1>5, <1>6 DEF Inv, FifoInv

\* Whoever has opened a mailbox is counted, a mailbox is valid as long as
\* somebody has it open, and the queues of its conditions are those who wait
\* there: mbox_open never initialises a mailbox somebody works on.
THEOREM MailboxBoxes == Spec => []BoxesOK
<1>1. Inv => BoxesOK
  BY BoxesParts DEF Inv
<1> QED BY <1>1, InitInv, NextInv, PTL DEF Spec

\* A mailbox is a queue of bytes, for every size of the buffer, every number of
\* senders and receivers and all lengths of messages, until mbox_send misses that
\* the buffer is full.
THEOREM MailboxFifo == Spec => []FifoOK
<1>1. Inv /\ FifoInv => FifoOK
  <2> SUFFICES ASSUME Inv, FifoInv, ~ overrun, NEW b \in Boxes, mboxs[b].valid = 1
               PROVE  Contents(mboxs[b]) = stored[b]
    BY DEF FifoOK
  <2>1. mboxs[b] \in BoxType /\ stored[b] \in Seq(Data)
    BY DEF Inv, Types
  <2>2. Holds(mboxs[b], stored[b])
    BY DEF FifoInv
  <2> QED BY <2>1, <2>2, HoldsContents
<1> QED BY <1>1, InitInv, NextInv, PTL DEF Spec

-----------------------------------------------------------------------------
\* Wake-ups.

\* The bytes that tasks with the calls c and the mailboxes x, and not waiting,
\* have to move for op in mailbox b: pairs of a task and a number.
Active(c, x, op, b) ==
  {t \in Tasks : x[t] = b /\ c[t].op = op /\ c[t].at \in {"acquire", "locked"}}

ToMove(c, x, op, b) == UNION {{t} \X (1 .. Len(c[t].msg)) : t \in Active(c, x, op, b)}

\* Pending counts them.
LEMMA PendingIs ==
  \A op, b : /\ Pending(op, b) = Cardinality(ToMove(call, box, op, b))
             /\ Pending(op, b)' = Cardinality(ToMove(call', box', op, b))
BY DEF Pending, ToMove, Active

\* What is in that set.
LEMMA ToMoveIs ==
  ASSUME NEW c, NEW x, NEW op, NEW b
  PROVE  /\ \A e \in ToMove(c, x, op, b) :
              \E t \in Active(c, x, op, b) : \E i \in 1 .. Len(c[t].msg) : e = <<t, i>>
         /\ \A t \in Active(c, x, op, b) : \A i \in 1 .. Len(c[t].msg) :
              <<t, i>> \in ToMove(c, x, op, b)
         /\ \A t, i : <<t, i>> \in ToMove(c, x, op, b) =>
              t \in Active(c, x, op, b) /\ i \in 1 .. Len(c[t].msg)
BY DEF ToMove

\* The bytes can be counted.
LEMMA ToMoveFinite ==
  ASSUME NEW c \in [Tasks -> CallType], NEW x, NEW op, NEW b
  PROVE  IsFiniteSet(ToMove(c, x, op, b)) /\ Cardinality(ToMove(c, x, op, b)) \in Nat
<1> DEFINE A == Active(c, x, op, b)
           row(t) == {t} \X (1 .. Len(c[t].msg))
           R == {row(t) : t \in A}
           f == [t \in A |-> row(t)]
<1>1. A \subseteq Tasks /\ IsFiniteSet(A)
  BY TasksAssumption, FS_Subset DEF Active
<1>2. \A t \in A : IsFiniteSet(row(t))
  <2> SUFFICES ASSUME NEW t \in A PROVE IsFiniteSet(row(t))
    OBVIOUS
  <2>1. Len(c[t].msg) \in Nat
    BY <1>1, LenProperties DEF CallType
  <2>2. IsFiniteSet(1 .. Len(c[t].msg))
    BY <2>1, FS_Interval
  <2>3. IsFiniteSet({t})
    BY FS_Singleton, Zenon
  <2> QED BY <2>2, <2>3, FS_Product
<1>3. f \in Surjection(A, R)
  BY DEF Surjection
<1> HIDE DEF A, R, f
<1>4. IsFiniteSet(R)
  BY <1>1, <1>3, FS_Surjection
<1>5. \A T \in R : IsFiniteSet(T)
  BY <1>2 DEF R
<1>6. IsFiniteSet(UNION R)
  BY <1>4, <1>5, FS_UNION
<1>7. ToMove(c, x, op, b) = UNION R
  BY DEF ToMove, R, A
<1> QED BY <1>6, <1>7, FS_CardinalityType

\* Fewer, more, or one less.
LEMMA CountSets ==
  ASSUME NEW S, NEW T, IsFiniteSet(S), IsFiniteSet(T)
  PROVE  /\ S \subseteq T => Cardinality(S) <= Cardinality(T)
         /\ \A e : e \notin S /\ e \in T /\ S \subseteq T => Cardinality(S) + 1 <= Cardinality(T)
         /\ \A e : e \in S /\ S \ {e} \subseteq T => Cardinality(S) - 1 <= Cardinality(T)
<1>1. S \subseteq T => Cardinality(S) <= Cardinality(T)
  BY FS_Subset
<1>2. ASSUME NEW e, e \notin S, e \in T, S \subseteq T PROVE Cardinality(S) + 1 <= Cardinality(T)
  <2>1. IsFiniteSet(S \cup {e}) /\ Cardinality(S \cup {e}) = Cardinality(S) + 1
    BY <1>2, FS_AddElement
  <2>2. S \cup {e} \subseteq T
    BY <1>2
  <2> QED BY <2>1, <2>2, FS_Subset
<1>3. ASSUME NEW e, e \in S, S \ {e} \subseteq T PROVE Cardinality(S) - 1 <= Cardinality(T)
  <2>1. IsFiniteSet(S \ {e}) /\ Cardinality(S \ {e}) = Cardinality(S) - 1
    BY <1>3, FS_RemoveElement
  <2> QED BY <1>3, <2>1, FS_Subset
<1> QED BY <1>1, <1>2, <1>3


Ops == {"send", "recv"}

\* What those who wait in op leave to others: the bytes, or the free places.
Demand(op, s) == IF op = "recv" THEN Len(s) ELSE MAX_BUFFER_SIZE - 1 - Len(s)

Covered(op, b) == Waiting(b, op) # {} => Demand(op, stored[b]) <= Pending(op, b)

\* WakeupOK, and nobody waits who has nothing left to move.
WakeInv ==
  /\ \A t \in Tasks : call[t].at = "wait" => call[t].msg # <<>>
  /\ ~ overrun => \A b \in Boxes : \A op \in Ops : Covered(op, b)

\* Nobody has less to move.
LEMMA GrownCovered ==
  ASSUME Inv, Inv', NEW b \in Boxes, NEW op \in Ops, Covered(op, b), stored'[b] = stored[b],
         Waiting(b, op)' \subseteq Waiting(b, op),
         ToMove(call, box, op, b) \subseteq ToMove(call', box', op, b)
  PROVE  Covered(op, b)'
<1> DEFINE S == ToMove(call, box, op, b)
           T == ToMove(call', box', op, b)
<1>1. /\ IsFiniteSet(S) /\ Cardinality(S) \in Nat /\ IsFiniteSet(T) /\ Cardinality(T) \in Nat
      /\ Pending(op, b) = Cardinality(S) /\ Pending(op, b)' = Cardinality(T)
  BY ToMoveFinite, PendingIs DEF Inv, Types
<1>2. Cardinality(S) <= Cardinality(T)
  BY <1>1, CountSets
<1>3. Demand(op, stored[b]) \in Int
  BY MailboxAssumption, LenProperties DEF Inv, Types, Demand
<1>4. Demand(op, stored[b])' = Demand(op, stored[b])
  BY DEF Demand
<1> HIDE DEF S, T
<1> QED BY <1>1, <1>2, <1>3, <1>4 DEF Covered

\* A step of one task that does not wait, before and after.
LEMMA QuietWake ==
  ASSUME Inv, Inv', WakeInv, UNCHANGED overrun, NEW t \in Tasks,
         \A u \in Tasks : u # t => call'[u] = call[u] /\ box'[u] = box[u],
         call'[t].at # "wait",
         \/ call[t].op \notin Ops
         \/ call[t].msg = <<>>
         \/ /\ call'[t].op = call[t].op /\ call'[t].msg = call[t].msg /\ box'[t] = box[t]
            /\ call'[t].at \in {"acquire", "locked"},
         \A b \in Boxes : stored'[b] = stored[b] \/ \A op \in Ops : Waiting(b, op) = {}
  PROVE  WakeInv'
<1>1. \A u \in Tasks : call'[u].at = "wait" => call'[u].msg # <<>>
  BY DEF WakeInv
<1>2. ASSUME ~ overrun', NEW b \in Boxes, NEW op \in Ops PROVE Covered(op, b)'
  <2>1. Waiting(b, op)' \subseteq Waiting(b, op)
    BY DEF Waiting
  <2>2. CASE Waiting(b, op) = {}
    BY <2>1, <2>2 DEF Covered
  <2>3. CASE stored'[b] = stored[b]
    <3>1. ASSUME NEW e \in ToMove(call, box, op, b) PROVE e \in ToMove(call', box', op, b)
      <4>1. PICK u \in Active(call, box, op, b) : \E i \in 1 .. Len(call[u].msg) : e = <<u, i>>
        BY ToMoveIs
      <4>2. PICK i \in 1 .. Len(call[u].msg) : e = <<u, i>>
        BY <4>1
      <4>3. call[u].msg # <<>>
        BY <4>2, EmptySeq
      <4>4. u \in Active(call', box', op, b) /\ call'[u].msg = call[u].msg
        BY <4>3 DEF Active
      <4>5. i \in 1 .. Len(call'[u].msg)
        BY <4>4
      <4> QED BY <4>2, <4>4, <4>5, ToMoveIs
    <3>2. Covered(op, b)
      BY <1>2 DEF WakeInv
    <3> QED BY <2>1, <2>3, <3>1, <3>2, GrownCovered
  <2> QED BY <2>2, <2>3
<1> QED BY <1>1, <1>2 DEF WakeInv

\* Nobody waits in a mailbox that is not valid.
LEMMA NobodyWaits ==
  ASSUME Inv, NEW b \in Boxes, mboxs[b].valid = 0
  PROVE  \A op \in Ops : Waiting(b, op) = {}
<1>1. UsersOf(b) = {}
  BY DEF Inv, BoxOK
<1> QED BY <1>1 DEF UsersOf, Waiting

\* The calls begin, mbox_open and mbox_close.
LEMMA CallWake ==
  ASSUME Inv, Inv', WakeInv, NEW t \in Tasks, Call(t) \/ Acquire(t)
  PROVE  WakeInv'
<1>1. call \in [Tasks -> CallType]
  BY DEF Inv, Types
<1>2. ASSUME NEW op, NEW s, NEW msg, Begin(t, op, s, msg) PROVE WakeInv'
  <2>1. /\ call[t] = Idle /\ UNCHANGED <<mboxs, lock, box, stored, overrun>>
        /\ call' = [call EXCEPT ![t] = [op |-> op, at |-> "acquire", name |-> s, msg |-> msg]]
    BY <1>2 DEF Begin
  <2>2. call'[t].at = "acquire" /\ \A u \in Tasks : u # t => call'[u] = call[u] /\ box'[u] = box[u]
    BY <1>1, <2>1
  <2>3. call[t].op \notin Ops
    BY <2>1 DEF Idle, Ops
  <2> QED BY <2>1, <2>2, <2>3, QuietWake
<1>3. CASE Acquire(t)
  <2>1. /\ call' = [call EXCEPT ![t].at = "locked"] /\ UNCHANGED <<mboxs, box, stored, overrun>>
    BY <1>3 DEF Acquire
  <2>2. /\ call'[t].at = "locked" /\ call'[t].op = call[t].op /\ call'[t].msg = call[t].msg
        /\ \A u \in Tasks : u # t => call'[u] = call[u] /\ box'[u] = box[u]
    BY <1>1, <2>1 DEF CallType
  <2> QED BY <2>1, <2>2, QuietWake
<1> QED BY <1>2, <1>3 DEF Call

\* mbox_open and mbox_close wake nobody, and empty only an unused mailbox.
LEMMA OpenWake ==
  ASSUME Inv, Inv', WakeInv, NEW t \in Tasks, mbox_open(t) \/ mbox_close(t)
  PROVE  WakeInv'
<1>1. Return(t) /\ UNCHANGED overrun /\ lock = t /\ call[t].op \notin Ops
  BY DEF mbox_open, mbox_close, Executes, Ops
<1>2. \A u \in Tasks : u # t => box'[u] = box[u]
  BY DEF mbox_open, mbox_close, Inv, Types
<1>3. call'[t].at = "user" /\ \A u \in Tasks : u # t => call'[u] = call[u]
  BY <1>1, ReturnFields
<1>4. ASSUME NEW b \in Boxes PROVE stored'[b] = stored[b] \/ \A op \in Ops : Waiting(b, op) = {}
  <2>1. CASE UNCHANGED stored
    BY <2>1
  <2>2. CASE ~ UNCHANGED stored
    <3> DEFINE unused == {a \in Boxes : mboxs[a].valid = 0}
    <3>1. unused # {} /\ stored' = [stored EXCEPT ![Min(unused)] = <<>>]
      BY <2>2 DEF mbox_open, mbox_close
    <3>2. Min(unused) \in unused
      <4>1. unused \in SUBSET Nat
        BY MailboxAssumption DEF Boxes
      <4> HIDE DEF unused
      <4> QED BY <3>1, <4>1, MinIn
    <3>3. PICK a \in Boxes : a = Min(unused) /\ mboxs[a].valid = 0
      BY <3>2
    <3> HIDE DEF unused
    <3>4. b # a => stored'[b] = stored[b]
      BY <3>1, <3>3 DEF Inv, Types
    <3> QED BY <3>3, <3>4, NobodyWaits
  <2> QED BY <2>1, <2>2
<1> QED BY <1>1, <1>2, <1>3, <1>4, QuietWake


\* A full or an empty mailbox leaves nothing to those who do not wait.
LEMMA NoDemand ==
  ASSUME Inv, FifoInv, ~ overrun, NEW b \in Boxes, mboxs[b].valid = 1
  PROVE  /\ Full(mboxs[b]) => Demand("send", stored[b]) = 0
         /\ Empty(mboxs[b]) => Demand("recv", stored[b]) = 0
<1> DEFINE m == mboxs[b]
<1>1. m \in BoxType /\ MAX_BUFFER_SIZE \in Nat
  BY MailboxAssumption DEF Inv, Types
<1>2. Len(stored[b]) = Used(m)
  BY DEF FifoInv, Holds
<1> HIDE DEF m
<1>3. /\ Used(m) = IF m.tail < m.head THEN m.tail + MAX_BUFFER_SIZE - m.head ELSE m.tail - m.head
      /\ m.head \in Nat /\ m.tail \in Nat
  BY <1>1, UsedIs DEF Index
<1>4. /\ m.head = m.tail + 1 => MAX_BUFFER_SIZE - 1 - Used(m) = 0
      /\ m.head = m.tail => Used(m) = 0
  BY <1>1, <1>3
<1> QED BY <1>2, <1>4 DEF Full, Empty, Demand, m

\* condition_wait.
LEMMA WaitForWake ==
  ASSUME Inv, Inv', FifoInv, WakeInv, NEW t \in Tasks, lock = t, NEW b0 \in Boxes, box[t] = b0,
         NEW c \in {"empty", "full"}, call[t].op = Waits(c), call[t].msg # <<>>,
         c = "empty" => Empty(mboxs[b0]), c = "full" => Full(mboxs[b0]), WaitFor(t, c)
  PROVE  WakeInv'
<1>1. call' = [call EXCEPT ![t].at = "wait"] /\ UNCHANGED <<box, stored, overrun>>
  BY DEF WaitFor
<1>2. call \in [Tasks -> CallType]
  BY DEF Inv, Types
<1>3. /\ call'[t].op = call[t].op /\ call'[t].at = "wait" /\ call'[t].msg = call[t].msg
      /\ \A u \in Tasks : u # t => call'[u] = call[u]
  BY <1>1, <1>2 DEF CallType
<1>4. \A u \in Tasks : call'[u].at = "wait" => call'[u].msg # <<>>
  BY <1>3 DEF WakeInv
<1>5. ASSUME ~ overrun', NEW b \in Boxes, NEW op \in Ops PROVE Covered(op, b)'
  <2>1. CASE b = b0 /\ op = call[t].op
    <3>1. mboxs[b0].valid = 1
      BY DEF Inv, BoxOK, UsersOf
    <3>2. Demand(op, stored[b0])' = 0
      BY <1>1, <1>5, <2>1, <3>1, NoDemand DEF Waits, Demand
    <3>3. Pending(op, b)' \in Nat
      BY ToMoveFinite, PendingIs DEF Inv, Types
    <3> QED BY <2>1, <3>2, <3>3 DEF Covered
  <2>2. CASE b # b0 \/ op # call[t].op
    <3>1. Waiting(b, op)' \subseteq Waiting(b, op)
      BY <1>1, <1>3, <2>2 DEF Waiting
    <3>2. ASSUME NEW e \in ToMove(call, box, op, b) PROVE e \in ToMove(call', box', op, b)
      <4>1. PICK u \in Active(call, box, op, b) : \E i \in 1 .. Len(call[u].msg) : e = <<u, i>>
        BY ToMoveIs
      <4>2. u # t /\ u \in Tasks
        BY <2>2 DEF Active
      <4>3. u \in Active(call', box', op, b) /\ call'[u].msg = call[u].msg
        BY <1>1, <1>3, <4>2 DEF Active
      <4>4. PICK i \in 1 .. Len(call'[u].msg) : e = <<u, i>>
        BY <4>1, <4>3
      <4> QED BY <4>3, <4>4, ToMoveIs
    <3>3. Covered(op, b) /\ stored'[b] = stored[b]
      BY <1>1, <1>5 DEF WakeInv
    <3> QED BY <3>1, <3>2, <3>3, GrownCovered
  <2> QED BY <2>1, <2>2
<1> QED BY <1>4, <1>5 DEF WakeInv

\* What condition_signal does to the calls: one of those who wait is woken, if
\* there is any, and the caller has a byte less to move.
Signals(w, t, b0, c) ==
  /\ UNCHANGED box
  /\ w \subseteq Waiting(b0, Waits(c)) /\ t \notin w
  /\ Waiting(b0, Waits(c)) # {} => w # {}
  /\ \A u \in Tasks : /\ call'[u].op = call[u].op
                      /\ call'[u].at = IF u \in w THEN "acquire" ELSE call[u].at
                      /\ u # t => call'[u].msg = call[u].msg
  /\ Len(call'[t].msg) = Len(call[t].msg) - 1

\* Moved is such a step.
LEMMA MovedSignals ==
  ASSUME Inv, NEW t \in Tasks, lock = t, NEW b0 \in Boxes, box[t] = b0,
         call[t].msg # <<>>, NEW c \in {"empty", "full"}, NEW m, Moved(t, m, c)
  PROVE  \E w : Signals(w, t, b0, c)
<1>1. PICK w \in Signalled(mboxs[b0], c) :
        call' = [u \in Tasks |-> IF u \in w THEN [call[u] EXCEPT !.at = "acquire"]
                                 ELSE IF u = t THEN [call[u] EXCEPT !.msg = Tail(@)]
                                 ELSE call[u]]
  BY DEF Moved
<1>2. UNCHANGED box
  BY DEF Moved
<1>3. mboxs \in [Boxes -> BoxType] /\ call \in [Tasks -> CallType] /\ call[t].at = "locked"
  BY DEF Inv, Types, CallsOK
<1>4. mboxs[b0][c] = Waiting(b0, Waits(c))
  <2>1. mboxs[b0] \in BoxType
    BY <1>3
  <2>2. mboxs[b0][c] = IF c = "empty" THEN mboxs[b0].empty ELSE mboxs[b0].full
    BY <2>1, QueueType
  <2> QED BY <2>2 DEF Inv, BoxOK, Waits
<1>5. w \subseteq Waiting(b0, Waits(c)) /\ t \notin w /\ (Waiting(b0, Waits(c)) # {} => w # {})
  BY <1>1, <1>3, <1>4 DEF Signalled, Waiting
<1>6. ASSUME NEW u \in Tasks
      PROVE  /\ call'[u].op = call[u].op
             /\ call'[u].at = IF u \in w THEN "acquire" ELSE call[u].at
             /\ u # t => call'[u].msg = call[u].msg
  <2>1. call[u] \in CallType
    BY <1>3
  <2>2. CASE u \in w
    <3>1. call'[u] = [call[u] EXCEPT !.at = "acquire"]
      BY <1>1, <2>2
    <3> QED BY <2>1, <2>2, <3>1 DEF CallType
  <2>3. CASE u \notin w /\ u = t
    <3>1. call'[u] = [call[u] EXCEPT !.msg = Tail(call[u].msg)]
      BY <1>1, <2>3
    <3> QED BY <2>1, <2>3, <3>1 DEF CallType
  <2>4. CASE u \notin w /\ u # t
    BY <1>1, <2>4
  <2> QED BY <2>2, <2>3, <2>4
<1>7. Len(call'[t].msg) = Len(call[t].msg) - 1
  <2>1. call[t] \in CallType /\ call[t].msg \in Seq(Data)
    BY <1>3 DEF CallType
  <2>2. call'[t] = [call[t] EXCEPT !.msg = Tail(call[t].msg)]
    BY <1>1, <1>5
  <2>3. call'[t].msg = Tail(call[t].msg)
    BY <2>1, <2>2 DEF CallType
  <2> QED BY <2>1, <2>3, HeadTailProperties
<1> QED BY <1>2, <1>5, <1>6, <1>7 DEF Signals


\* A round of mbox_send or mbox_recv: who moves a byte has one less to move, and
\* who is woken has at least the one that has come.
LEMMA MovedWake ==
  ASSUME Inv, Inv', WakeInv, NEW t \in Tasks, lock = t, NEW b0 \in Boxes, box[t] = b0,
         call[t].op \in Ops, call[t].msg # <<>>, NEW c \in {"empty", "full"}, Waits(c) # call[t].op,
         NEW w, Signals(w, t, b0, c), overrun => overrun',
         \A b \in Boxes : b # b0 => stored'[b] = stored[b],
         ~ overrun' => /\ Demand(call[t].op, stored'[b0]) = Demand(call[t].op, stored[b0]) - 1
                       /\ Demand(Waits(c), stored'[b0]) = Demand(Waits(c), stored[b0]) + 1
  PROVE  WakeInv'
<1> DEFINE mine == call[t].op
           other == Waits(c)
<1>1. /\ call \in [Tasks -> CallType] /\ call' \in [Tasks -> CallType] /\ call[t].at = "locked"
      /\ UNCHANGED box /\ \A u \in w : u \in Tasks /\ call[u].at = "wait" /\ u # t
  BY DEF Inv, Types, CallsOK, Signals, Waiting
<1>2. \A u \in Tasks : call[u].msg \in Seq(Data) /\ Len(call[u].msg) \in Nat
  BY <1>1, LenProperties DEF CallType
<1>3. \A u \in Tasks : call'[u].at = "wait" => call'[u].msg # <<>>
  BY <1>1 DEF WakeInv, Signals
<1>4. ASSUME NEW b, NEW op, NEW u \in Active(call, box, op, b)
      PROVE  u \in Active(call', box', op, b) /\ u \notin w
  BY <1>1 DEF Active, Signals
<1>5. ASSUME NEW b, NEW op PROVE Waiting(b, op)' \subseteq Waiting(b, op)
  BY <1>1 DEF Waiting, Signals
<1>6. ASSUME NEW b, NEW op, b # b0 \/ op # mine
      PROVE  ToMove(call, box, op, b) \subseteq ToMove(call', box', op, b)
  <2> SUFFICES ASSUME NEW e \in ToMove(call, box, op, b) PROVE e \in ToMove(call', box', op, b)
    OBVIOUS
  <2>1. PICK u \in Active(call, box, op, b) : \E i \in 1 .. Len(call[u].msg) : e = <<u, i>>
    BY ToMoveIs
  <2>2. u \in Tasks /\ u # t
    BY <1>6 DEF Active
  <2>3. call'[u].msg = call[u].msg
    BY <2>2 DEF Signals
  <2>4. PICK i \in 1 .. Len(call'[u].msg) : e = <<u, i>>
    BY <2>1, <2>3
  <2> QED BY <1>4, <2>4, ToMoveIs
<1>7. ASSUME ~ overrun', NEW b \in Boxes, NEW op \in Ops PROVE Covered(op, b)'
  <2>1. Covered(op, b)
    BY <1>7 DEF WakeInv
  <2> DEFINE S == ToMove(call, box, op, b)
             T == ToMove(call', box', op, b)
             d == Demand(op, stored[b])
             d2 == Demand(op, stored'[b])
  <2>2. /\ IsFiniteSet(S) /\ Cardinality(S) \in Nat /\ IsFiniteSet(T) /\ Cardinality(T) \in Nat
        /\ Pending(op, b) = Cardinality(S) /\ Pending(op, b)' = Cardinality(T)
    BY <1>1, ToMoveFinite, PendingIs
  <2>3. d \in Int /\ Demand(op, stored[b])' = d2
    BY MailboxAssumption, LenProperties DEF Inv, Types, Demand
  <2>4. CASE b # b0
    BY <1>5, <1>6, <2>1, <2>4, GrownCovered
  <2>5. CASE b = b0 /\ op = mine
    <3> DEFINE e == <<t, Len(call[t].msg)>>
    <3>1. e \in S
      <4>1. t \in Active(call, box, op, b)
        BY <1>1, <2>5 DEF Active
      <4>2. Len(call[t].msg) \in 1 .. Len(call[t].msg)
        BY <1>2, EmptySeq
      <4> QED BY <4>1, <4>2, ToMoveIs
    <3>2. ASSUME NEW x \in S, x # e PROVE x \in T
      <4>1. PICK u \in Active(call, box, op, b) : \E i \in 1 .. Len(call[u].msg) : x = <<u, i>>
        BY ToMoveIs
      <4>2. PICK i \in 1 .. Len(call[u].msg) : x = <<u, i>>
        BY <4>1
      <4>3. i \in 1 .. Len(call'[u].msg)
        <5>1. CASE u = t
          <6>1. i # Len(call[t].msg)
            BY <3>2, <4>2, <5>1
          <6>2. Len(call'[t].msg) = Len(call[t].msg) - 1 /\ Len(call[t].msg) \in Nat
            BY <1>2 DEF Signals
          <6> QED BY <4>2, <5>1, <6>1, <6>2
        <5>2. CASE u # t
          BY <5>2 DEF Signals, Active
        <5> QED BY <5>1, <5>2
      <4> QED BY <1>4, <4>2, <4>3, ToMoveIs
    <3>3. Cardinality(S) - 1 <= Cardinality(T)
      <4> HIDE DEF S, T, e
      <4> QED BY <2>2, <3>1, <3>2, CountSets
    <3>4. d2 = d - 1
      BY <1>7, <2>5
    <3> HIDE DEF S, T, d, d2
    <3>5. ASSUME Waiting(b, op)' # {} PROVE d2 <= Cardinality(T)
      <4>1. d <= Cardinality(S)
        BY <1>5, <2>1, <2>2, <3>5 DEF Covered, d
      <4> QED BY <2>2, <2>3, <3>3, <3>4, <4>1
    <3> QED BY <2>2, <2>3, <3>5 DEF Covered
  <2>6. CASE b = b0 /\ op # mine
    <3>1. op = other
      BY <2>6 DEF Ops, Waits
    <3>2. ASSUME Waiting(b, op)' # {} PROVE d2 <= Cardinality(T)
      <4>1. PICK u \in w : u \in Waiting(b, op)
        BY <1>5, <2>6, <3>1, <3>2 DEF Signals
      <4> DEFINE e == <<u, 1>>
      <4>2. u \in Tasks /\ u \in w /\ call[u].at = "wait" /\ call[u].msg # <<>> /\ u # t
        BY <1>1, <4>1 DEF WakeInv
      <4>3. e \notin S
        <5>1. u \notin Active(call, box, op, b)
          BY <4>2 DEF Active
        <5> QED BY <5>1, ToMoveIs
      <4>4. e \in T
        <5>1. u \in Active(call', box', op, b)
          BY <1>1, <4>1, <4>2 DEF Active, Waiting, Signals
        <5>2. 1 \in 1 .. Len(call'[u].msg)
          <6>1. call'[u].msg = call[u].msg /\ Len(call[u].msg) # 0
            BY <1>2, <4>2, EmptySeq DEF Signals
          <6> QED BY <1>2, <4>2, <6>1
        <5> QED BY <5>1, <5>2, ToMoveIs
      <4>5. S \subseteq T
        BY <1>6, <2>6
      <4>6. d2 = d + 1
        BY <1>7, <2>6, <3>1
      <4> HIDE DEF S, T, d, d2, e
      <4>7. Cardinality(S) + 1 <= Cardinality(T)
        BY <2>2, <4>3, <4>4, <4>5, CountSets
      <4>8. d <= Cardinality(S)
        BY <2>1, <2>2, <4>1 DEF Covered, d
      <4> QED BY <2>2, <2>3, <4>6, <4>7, <4>8
    <3> HIDE DEF S, T, d, d2
    <3> QED BY <2>2, <2>3, <3>2 DEF Covered
  <2> QED BY <2>4, <2>5, <2>6
<1> QED BY <1>3, <1>7 DEF WakeInv

\* One round of mbox_send.
LEMMA SendWake ==
  ASSUME Inv, Inv', FifoInv, WakeInv, NEW t \in Tasks, mbox_send(t)
  PROVE  WakeInv'
<1> DEFINE msg == call[t].msg
           c == "empty"
           f == "full"
<1>1. lock = t /\ call[t].op = "send"
  BY DEF mbox_send, Executes
<1>2. PICK b0 \in Boxes : b0 = box[t]
  BY <1>1 DEF Inv, CallsOK
<1>3. /\ stored \in [Boxes -> Seq(Data)] /\ stored[b0] \in Seq(Data) /\ msg \in Seq(Data)
      /\ MAX_BUFFER_SIZE \in Nat /\ Len(stored[b0]) \in Nat
  BY MailboxAssumption, LenProperties DEF Inv, Types, CallType
<1>4. /\ c \in {"empty", "full"} /\ f \in {"empty", "full"} /\ Waits(f) = "send"
      /\ Waits(c) = "recv" /\ c # f /\ call[t].op \in Ops
  BY <1>1 DEF Waits, Ops
<1>5. CASE msg # <<>> /\ Full(mboxs[b0])
  <2>1. WaitFor(t, f)
    BY <1>2, <1>5 DEF mbox_send
  <2>2. f # "empty"
    OBVIOUS
  <2> HIDE DEF f
  <2> QED BY <1>1, <1>2, <1>4, <1>5, <2>1, <2>2, WaitForWake
<1>6. CASE msg # <<>> /\ ~ Full(mboxs[b0])
  <2>1. PICK m : Moved(t, m, c)
    <3> DEFINE m0 == mboxs[b0]
               m2 == [m0 EXCEPT !.data_buffer[m0.tail] = Head(msg), !.tail = Following(@)]
    <3>1. Moved(t, m2, c)
      BY <1>2, <1>6 DEF mbox_send
    <3> HIDE DEF m2
    <3> QED BY <3>1
  <2> DEFINE x == Head(msg)
             s2 == Append(stored[b0], x)
  <2>2. stored' = [stored EXCEPT ![b0] = s2] /\ (overrun => overrun')
    BY <1>2, <1>6 DEF mbox_send
  <2>3. x \in Data
    BY <1>3, <1>6, HeadTailProperties
  <2> HIDE DEF x
  <2>4. Len(s2) = Len(stored[b0]) + 1
    BY <1>3, <2>3, AppendProperties
  <2> HIDE DEF s2
  <2>5. stored'[b0] = s2 /\ \A b \in Boxes : b # b0 => stored'[b] = stored[b]
    BY <1>3, <2>2
  <2>6. /\ Demand("send", stored'[b0]) = Demand("send", stored[b0]) - 1
        /\ Demand("recv", stored'[b0]) = Demand("recv", stored[b0]) + 1
    <3> DEFINE l == Len(stored[b0])
               l2 == Len(stored'[b0])
    <3>1. l2 = l + 1 /\ l \in Nat
      BY <1>3, <2>4, <2>5
    <3>2. /\ Demand("send", stored'[b0]) = MAX_BUFFER_SIZE - 1 - l2
          /\ Demand("send", stored[b0]) = MAX_BUFFER_SIZE - 1 - l
          /\ Demand("recv", stored'[b0]) = l2 /\ Demand("recv", stored[b0]) = l
      BY DEF Demand
    <3> HIDE DEF l, l2
    <3> QED BY <1>3, <3>1, <3>2
  <2> HIDE DEF c
  <2>7. PICK w : Signals(w, t, b0, c)
    BY <1>1, <1>2, <1>4, <1>6, <2>1, MovedSignals
  <2> QED BY <1>1, <1>2, <1>4, <1>6, <2>2, <2>5, <2>6, <2>7, MovedWake
<1>7. CASE msg = <<>>
  <2>1. Return(t) /\ UNCHANGED <<mboxs, box, stored, overrun>>
    BY <1>7 DEF mbox_send
  <2>2. call'[t].at = "user" /\ \A u \in Tasks : u # t => call'[u] = call[u]
    BY <1>1, <2>1, ReturnFields
  <2> QED BY <1>7, <2>1, <2>2, QuietWake
<1> QED BY <1>5, <1>6, <1>7

\* One round of mbox_recv.
LEMMA RecvWake ==
  ASSUME Inv, Inv', FifoInv, WakeInv, NEW t \in Tasks, mbox_recv(t)
  PROVE  WakeInv'
<1> DEFINE msg == call[t].msg
           c == "empty"
           f == "full"
<1>1. lock = t /\ call[t].op = "recv"
  BY DEF mbox_recv, Executes
<1>2. PICK b0 \in Boxes : b0 = box[t]
  BY <1>1 DEF Inv, CallsOK
<1>3. /\ stored \in [Boxes -> Seq(Data)] /\ stored[b0] \in Seq(Data)
      /\ MAX_BUFFER_SIZE \in Nat /\ Len(stored[b0]) \in Nat /\ mboxs[b0] \in BoxType
  BY MailboxAssumption, LenProperties DEF Inv, Types
<1>4. /\ c \in {"empty", "full"} /\ f \in {"empty", "full"} /\ Waits(f) = "send"
      /\ Waits(c) = "recv" /\ c # f /\ call[t].op \in Ops
  BY <1>1 DEF Waits, Ops
<1>5. CASE msg # <<>> /\ Empty(mboxs[b0])
  <2>1. WaitFor(t, c)
    BY <1>2, <1>5 DEF mbox_recv
  <2>2. c # "full"
    OBVIOUS
  <2> HIDE DEF c
  <2> QED BY <1>1, <1>2, <1>4, <1>5, <2>1, <2>2, WaitForWake
<1>6. CASE msg # <<>> /\ ~ Empty(mboxs[b0])
  <2>1. PICK m : Moved(t, m, f)
    <3> DEFINE m2 == [mboxs[b0] EXCEPT !.head = Following(@)]
    <3>1. Moved(t, m2, f)
      BY <1>2, <1>6 DEF mbox_recv
    <3> HIDE DEF m2
    <3> QED BY <3>1
  <2> DEFINE s == stored[b0]
             s2 == IF s = <<>> THEN s ELSE Tail(s)
  <2>2. stored' = [stored EXCEPT ![b0] = s2] /\ overrun' = overrun
    BY <1>2, <1>6 DEF mbox_recv
  <2>3. ASSUME ~ overrun PROVE Len(s2) = Len(s) - 1
    <3>1. mboxs[b0].valid = 1
      BY <1>2 DEF Inv, BoxOK, UsersOf
    <3>2. Len(s) = Used(mboxs[b0])
      BY <2>3, <3>1 DEF FifoInv, Holds
    <3>3. Len(s) # 0
      BY <1>3, <1>6, <3>2, UsedIs DEF Empty, Index
    <3>4. s # <<>>
      BY <3>3, EmptySeq
    <3> QED BY <1>3, <3>4, HeadTailProperties
  <2> HIDE DEF s2
  <2>4. stored'[b0] = s2 /\ \A b \in Boxes : b # b0 => stored'[b] = stored[b]
    BY <1>3, <2>2
  <2>5. ASSUME ~ overrun'
        PROVE  /\ Demand("recv", stored'[b0]) = Demand("recv", stored[b0]) - 1
               /\ Demand("send", stored'[b0]) = Demand("send", stored[b0]) + 1
    <3> DEFINE l == Len(stored[b0])
               l2 == Len(stored'[b0])
    <3>1. l2 = l - 1 /\ l \in Nat
      BY <1>3, <2>2, <2>3, <2>4, <2>5
    <3>2. /\ Demand("send", stored'[b0]) = MAX_BUFFER_SIZE - 1 - l2
          /\ Demand("send", stored[b0]) = MAX_BUFFER_SIZE - 1 - l
          /\ Demand("recv", stored'[b0]) = l2 /\ Demand("recv", stored[b0]) = l
      BY DEF Demand
    <3> HIDE DEF l, l2
    <3> QED BY <1>3, <3>1, <3>2
  <2> HIDE DEF f
  <2>6. PICK w : Signals(w, t, b0, f)
    BY <1>1, <1>2, <1>4, <1>6, <2>1, MovedSignals
  <2> QED BY <1>1, <1>2, <1>4, <1>6, <2>2, <2>4, <2>5, <2>6, MovedWake
<1>7. CASE msg = <<>>
  <2>1. Return(t) /\ UNCHANGED <<mboxs, box, stored, overrun>>
    BY <1>7 DEF mbox_recv
  <2>2. call'[t].at = "user" /\ \A u \in Tasks : u # t => call'[u] = call[u]
    BY <1>1, <2>1, ReturnFields
  <2> QED BY <1>7, <2>1, <2>2, QuietWake
<1> QED BY <1>5, <1>6, <1>7

\* Every step keeps the wake-ups.
LEMMA NextWake == (Inv /\ FifoInv) /\ (Inv /\ FifoInv)' /\ WakeInv /\ [Next]_vars => WakeInv'
<1> SUFFICES ASSUME Inv, FifoInv, Inv', WakeInv, [Next]_vars PROVE WakeInv'
  OBVIOUS
<1>1. CASE UNCHANGED vars
  BY <1>1 DEF vars, WakeInv, Covered, Waiting, Demand, Pending
<1> QED BY <1>1, CallWake, OpenWake, SendWake, RecvWake DEF Next

\* No wake-up is lost: when a task waits for a byte, or for room, those that are
\* not waiting will take all bytes there are, or use all the room.
THEOREM MailboxWakeup == Spec => []WakeupOK
<1>1. Init => WakeInv
  <2> SUFFICES ASSUME Init PROVE WakeInv
    OBVIOUS
  <2>1. \A t \in Tasks : call[t].at = "user"
    BY DEF Init, Idle
  <2>2. \A b, op : Waiting(b, op) = {}
    BY <2>1 DEF Waiting
  <2> QED BY <2>1, <2>2 DEF WakeInv, Covered
<1>2. Inv /\ WakeInv => WakeupOK
  <2> SUFFICES ASSUME Inv, WakeInv, ~ overrun, NEW b \in Boxes
               PROVE  /\ mboxs[b].empty # {} => Len(stored[b]) <= Pending("recv", b)
                      /\ mboxs[b].full # {} =>
                           MAX_BUFFER_SIZE - 1 - Len(stored[b]) <= Pending("send", b)
    BY DEF WakeupOK
  <2>1. Covered("recv", b) /\ Covered("send", b)
    BY DEF WakeInv, Ops
  <2> QED BY <2>1 DEF Covered, Demand, Inv, BoxOK
<1>3. Inv /\ FifoInv /\ WakeInv /\ [Next]_vars => (Inv /\ FifoInv /\ WakeInv)'
  BY NextInv, NextWake
<1> QED BY <1>1, <1>2, <1>3, InitInv, PTL DEF Spec

=============================================================================
