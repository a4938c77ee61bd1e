------------------------------ MODULE NetProofs ------------------------------
(***************************************************************************)
(* Proofs that the receiver of Net reads the packages that were stored and *)
(* that no wake-up is lost but in the one place that is named, for a ring  *)
(* of any length, any number of packages and any number of runs.           *)
(***************************************************************************)
EXTENDS Net, TLAPS

Phases == {"off", "start", "own", "poll", "test", "wait", "blocked", "read", "done"}

\* The receiver has given all descriptors to the engine.
Loop == {"test", "wait", "blocked", "read"}

Types ==
  /\ own \in [Descs -> BOOLEAN] /\ rbuffer \in [Descs -> Nat]
  /\ dma \in [state : {"stopped", "running", "suspended"}, at : Descs]
  /\ owed \in BOOLEAN /\ status \in BOOLEAN /\ arrived \in Nat
  /\ rx \in [pc : Phases, i : Nat] /\ runs \in Nat
  /\ log \in Seq(Nat) /\ missed \in BOOLEAN /\ late \in BOOLEAN

\* Where the receiver may be in the ring.
Place ==
  /\ rx.pc \in {"start", "poll"} => rx.i = 0
  /\ rx.pc \in Loop \cup {"own"} => rx.i < RDESC_LENGTH
  /\ rx.pc = "done" => rx.i <= RDESC_LENGTH

\* How many descriptors have been given to the engine in this run.
Given == IF rx.pc = "own" THEN rx.i ELSE RDESC_LENGTH

\* The ring: the engine has used the descriptors in their order, and owns what
\* it has been given and has not used.
Ring ==
  /\ rx.pc = "start" => log = <<>> /\ dma.state = "stopped" /\ own = [d \in Descs |-> FALSE]
  /\ rx.pc \notin {"off", "start"} =>
       /\ Len(log) <= Given
       /\ dma.at = IF Len(log) = RDESC_LENGTH THEN 0 ELSE Len(log)
       /\ \A d \in Descs : own[d] <=> Len(log) <= d /\ d < Given
       /\ \A d \in Descs : d < Len(log) => rbuffer[d] = log[d + 1]

\* Between its test and the end of its wait an interrupt is under way for a
\* package that has come.
Promised == rx.pc \in {"wait", "blocked"} /\ ~ missed => own[rx.i] \/ owed \/ status

\* Without a late interrupt: the receiver has passed only packages that were
\* stored, and one that waits for a package that has not come will not be woken.
Passed ==
  ~ late =>
    /\ rx.pc \in Loop \cup {"done"} =>
         rx.i <= Len(log) /\ \A k \in 1 .. rx.i : log[k] \notin Headers
    /\ rx.pc = "read" => rx.i < Len(log)
    /\ rx.pc = "blocked" /\ own[rx.i] => ~ owed /\ ~ status
    /\ rx.pc = "done" /\ rx.i # RDESC_LENGTH => rx.i < Len(log) /\ log[rx.i + 1] \in Headers

IInv == Types /\ Place /\ Ring /\ Promised /\ Passed

\* The invariant holds at first, before the receiver has been started.
LEMMA InitIInv == Init => IInv
<1> SUFFICES ASSUME Init PROVE IInv
  OBVIOUS
<1> USE NetAssumption DEF Init
<1>1. Types
  BY DEF Types, Descs, Phases
<1>2. Place /\ Promised /\ Ring
  BY DEF Place, Promised, Ring
<1>3. Passed
  BY DEF Passed
<1> QED BY <1>1, <1>2, <1>3 DEF IInv

\* The invariant implies the two properties.
LEMMA IInvSound == IInv => RecvOK /\ WaitOK
<1> SUFFICES ASSUME IInv PROVE RecvOK /\ WaitOK
  OBVIOUS
<1>1. WaitOK
  BY DEF IInv, Promised, WaitOK, At
<1>2. ~ late /\ At("read") => rx.i < Len(log) /\ rbuffer[rx.i] = log[rx.i + 1]
  BY NetAssumption DEF IInv, Types, Ring, Passed, At, Descs, Phases
<1>3. ~ late /\ At("done") =>
         IF rx.i = RDESC_LENGTH
         THEN Len(log) = RDESC_LENGTH /\ \A k \in DOMAIN log : log[k] \notin Headers
         ELSE log[rx.i + 1] \in Headers /\ \A k \in 1 .. rx.i : log[k] \notin Headers
  BY NetAssumption DEF IInv, Types, Ring, Passed, At, Descs, Phases
<1> QED BY <1>1, <1>2, <1>3 DEF RecvOK

\* The ring has a first descriptor, and des3 leads from a descriptor to one.
LEMMA Ends == 0 \in Descs /\ \A d \in Descs : Following(d) \in Descs
BY NetAssumption DEF Descs, Following

\* Suspending changes the state of the engine only.
LEMMA DmaSuspendIInv == IInv /\ DmaSuspend => IInv'
<1> SUFFICES ASSUME IInv, DmaSuspend PROVE IInv'
  OBVIOUS
<1> USE NetAssumption DEF IInv, DmaSuspend, Phases, At, Goto
<1>1. Types'
  BY Ends DEF Types
<1>2. Place'
  BY DEF Place
<1>3. Ring'
  BY DEF Ring, Given
<1>4. Promised'
  BY DEF Promised
<1>5. Passed'
  BY DEF Passed
<1> QED BY <1>1, <1>2, <1>3, <1>4, <1>5

\* A package that is stored goes to the first descriptor that has not been used,
\* so that the packages lie in the ring in the order of the log.
LEMMA DmaStoreIInv == IInv /\ DmaStore => IInv'
<1> SUFFICES ASSUME IInv, DmaStore PROVE IInv'
  OBVIOUS
<1> USE NetAssumption DEF IInv
<1>1. CASE ~ (dma.state = "running" /\ own[dma.at])
  <2>1. UNCHANGED <<own, rbuffer, dma, owed, log, status, rx, runs, missed, late>> /\ arrived' \in Nat
    BY <1>1 DEF DmaStore, Types
  <2>2. Types' /\ Place' /\ Ring'
    BY <2>1 DEF Types, Place, Ring, Given
  <2> QED BY <2>1, <2>2 DEF Promised, Passed
<1>2. CASE dma.state = "running" /\ own[dma.at]
  <2> DEFINE at == dma.at
             new == arrived + 1
  <2>1. /\ own' = [own EXCEPT ![at] = FALSE] /\ rbuffer' = [rbuffer EXCEPT ![at] = new]
        /\ dma' = [dma EXCEPT !.at = Following(at)] /\ owed' = TRUE
        /\ log' = Append(log, new) /\ arrived' = new
        /\ UNCHANGED <<status, rx, runs, missed, late>>
    BY <1>2 DEF DmaStore
  <2>2. at \in Descs /\ new \in Nat /\ log \in Seq(Nat)
    BY DEF Types
  <2>3. /\ Len(log') = Len(log) + 1 /\ log'[Len(log) + 1] = new
        /\ \A k \in 1 .. Len(log) : log'[k] = log[k]
    BY <2>1, <2>2
  <2>4. Types'
    <3>1. own' \in [Descs -> BOOLEAN] /\ rbuffer' \in [Descs -> Nat] /\ log' \in Seq(Nat)
      BY <2>1, <2>2 DEF Types
    <3>2. dma' \in [state : {"stopped", "running", "suspended"}, at : Descs]
      BY <2>1, <2>2, Ends DEF Types
    <3> QED BY <2>1, <2>2, <3>1, <3>2 DEF Types
  <2>5. Place'
    BY <2>1 DEF Place
  \* The engine uses the first descriptor that it has not used.
  <2>6. rx.pc # "off" => rx.pc # "start" /\ at = Len(log) /\ Len(log) < Given
    BY <1>2, <2>2 DEF Ring
  <2>7. Ring'
    <3> SUFFICES ASSUME rx.pc # "off" PROVE Ring'
      BY <2>1 DEF Ring
    <3>1. Given' = Given /\ rx.pc # "start" /\ at = Len(log) /\ Len(log) < Given
      BY <2>1, <2>6 DEF Given
    <3>2. dma'.at = IF Len(log') = RDESC_LENGTH THEN 0 ELSE Len(log')
      BY <2>1, <2>2, <2>3, <3>1 DEF Following
    <3>3. \A d \in Descs : own'[d] <=> Len(log') <= d /\ d < Given'
      BY <2>1, <2>2, <2>3, <3>1 DEF Types, Ring, Descs
    <3>4. \A d \in Descs : d < Len(log') => rbuffer'[d] = log'[d + 1]
      <4> SUFFICES ASSUME NEW d \in Descs, d < Len(log') PROVE rbuffer'[d] = log'[d + 1]
        OBVIOUS
      <4>1. rbuffer'[d] = IF d = at THEN new ELSE rbuffer[d]
        BY <2>1, <2>2 DEF Types
      <4>2. CASE d = at
        BY <2>3, <3>1, <4>1, <4>2
      <4>3. CASE d # at
        <5>1. d \in Nat /\ Len(log) \in Nat /\ d < Len(log)
          BY <2>2, <2>3, <3>1, <4>3 DEF Descs
        <5>2. rbuffer[d] = log[d + 1]
          BY <3>1, <5>1 DEF Ring
        <5> QED BY <2>3, <4>1, <4>3, <5>1, <5>2
      <4> QED BY <4>2, <4>3
    <3>5. Len(log') <= Given'
      BY <2>2, <2>3, <3>1 DEF Given, Types
    <3> QED BY <2>1, <3>1, <3>2, <3>3, <3>4, <3>5 DEF Ring
  <2>8. Promised'
    BY <2>1 DEF Promised
  <2>9. Passed'
    <3> SUFFICES ASSUME ~ late, rx.pc \in Loop \cup {"done"} PROVE Passed'
      BY <2>1 DEF Passed, Loop
    <3>1. rx.i \in Nat /\ rx.i <= Len(log) /\ \A k \in 1 .. rx.i : log[k] \notin Headers
      BY DEF Passed, Types
    <3>2. rx.i <= Len(log') /\ \A k \in 1 .. rx.i : log'[k] \notin Headers
      BY <2>2, <2>3, <3>1
    <3>3. rx.pc = "read" => rx.i < Len(log')
      BY <2>2, <2>3, <3>1
    <3>4. rx.pc = "done" /\ rx.i # RDESC_LENGTH => rx.i < Len(log') /\ log'[rx.i + 1] \in Headers
      BY <2>2, <2>3, <3>1 DEF Passed
    <3>5. rx.pc = "blocked" => ~ own'[rx.i]
      <4> SUFFICES ASSUME rx.pc = "blocked" PROVE ~ own'[rx.i]
        OBVIOUS
      <4>1. rx.i \in Descs /\ own'[rx.i] => rx.i >= Len(log')
        BY <2>1, <2>7, <3>1 DEF Ring
      <4> QED BY <2>2, <2>3, <3>1, <4>1 DEF Place, Loop, Descs
    <3> QED BY <2>1, <3>2, <3>3, <3>4, <3>5 DEF Passed
  <2> QED BY <2>4, <2>5, <2>7, <2>8, <2>9
<1> QED BY <1>1, <1>2

\* What the engine owes becomes a request.
LEMMA DmaRaiseIInv == IInv /\ DmaRaise => IInv'
<1> SUFFICES ASSUME IInv, DmaRaise PROVE IInv'
  OBVIOUS
<1> USE NetAssumption DEF IInv, DmaRaise, Phases, At, Goto
<1>1. Types'
  BY Ends DEF Types
<1>2. Place'
  BY DEF Place
<1>3. Ring'
  BY DEF Ring, Given
<1>4. Promised'
  BY DEF Promised
<1>5. Passed'
  BY DEF Passed
<1> QED BY <1>1, <1>2, <1>3, <1>4, <1>5

\* irq_mac wakes a blocked receiver, whose package is there by Passed; an
\* interrupt at "wait" is the one that is missed.
LEMMA IrqIInv == IInv /\ Irq => IInv'
<1> SUFFICES ASSUME IInv, Irq PROVE IInv'
  OBVIOUS
<1> USE NetAssumption DEF IInv, Irq, Phases, At, Goto, Wakes, Masked
<1>1. Types'
  BY Ends DEF Types
<1>2. Place'
  BY DEF Place, Loop
<1>3. Ring'
  BY DEF Ring, Given
<1>4. Promised'
  BY DEF Types, Promised
<1>5. Passed'
  BY DEF Types, Place, Ring, Given, Passed, Loop
<1> QED BY <1>1, <1>2, <1>3, <1>4, <1>5

\* A new run begins with an empty log, whatever the last one has left.
LEMMA SetupIInv == IInv /\ Setup => IInv'
<1> SUFFICES ASSUME IInv, Setup PROVE IInv'
  OBVIOUS
<1> USE NetAssumption DEF IInv, Setup, Phases, At, do_init_mac, recv_desc_init
<1>1. Types'
  <2>1. own' \in [Descs -> BOOLEAN]
    OBVIOUS
  <2>2. dma' \in [state : {"stopped", "running", "suspended"}, at : Descs]
    BY DEF Types
  <2>3. log' \in Seq(Nat) /\ rx' \in [pc : Phases, i : Nat] /\ runs' \in Nat
    BY DEF Types
  <2> QED BY <2>1, <2>2, <2>3, Zenon DEF Types
<1>2. Place'
  BY DEF Place
<1>3. Ring'
  BY DEF Ring
<1>4. Promised' /\ Passed'
  BY DEF Promised, Passed
<1> QED BY <1>1, <1>2, <1>3, <1>4

\* The engine is told to begin with the first descriptor.
LEMMA NetRecvStartIInv == IInv /\ NetRecvStart => IInv'
<1> SUFFICES ASSUME IInv, NetRecvStart PROVE IInv'
  OBVIOUS
<1> USE NetAssumption DEF IInv, NetRecvStart, Phases, At, Goto, ListAddress
<1>1. Types'
  BY Ends DEF Types
<1>2. Place'
  BY DEF Place
<1>3. Ring'
  BY DEF Types, Place, Given, Descs, Loop
<1>4. Promised'
  BY DEF Promised
<1>5. Passed'
  BY DEF Passed, Loop
<1> QED BY <1>1, <1>2, <1>3, <1>4, <1>5

\* One more descriptor is given; what has been stored meanwhile stays before it.
LEMMA NetRecvOwnIInv == IInv /\ NetRecvOwn => IInv'
<1> SUFFICES ASSUME IInv, NetRecvOwn PROVE IInv'
  OBVIOUS
<1> USE NetAssumption DEF IInv, NetRecvOwn, Phases, At
<1>1. Types'
  <2>1. own' \in [Descs -> BOOLEAN]
    BY DEF Types
  <2>2. rx' \in [pc : Phases, i : Nat]
    BY DEF Types
  <2> QED BY <2>1, <2>2 DEF Types
<1>2. Place'
  BY DEF Types, Place
<1>3. Ring'
  BY DEF Types, Ring, Given, Descs
<1>4. Promised' /\ Passed'
  BY DEF Promised, Passed, Loop
<1> QED BY <1>1, <1>2, <1>3, <1>4

\* Polling changes the state of the engine only.
LEMMA NetRecvPollIInv == IInv /\ NetRecvPoll => IInv'
<1> SUFFICES ASSUME IInv, NetRecvPoll PROVE IInv'
  OBVIOUS
<1> USE NetAssumption DEF IInv, NetRecvPoll, Phases, At, Goto
<1>1. Types'
  BY Ends DEF Types
<1>2. Place'
  BY DEF Place
<1>3. Ring'
  BY DEF Ring, Given
<1>4. Promised'
  BY DEF Promised
<1>5. Passed'
  BY DEF Place, Passed
<1> QED BY <1>1, <1>2, <1>3, <1>4, <1>5

\* The receiver waits if the engine owns the descriptor, and reads if it does not.
LEMMA TestIInv == IInv /\ Test => IInv'
<1> SUFFICES ASSUME IInv, Test PROVE IInv'
  OBVIOUS
<1> USE NetAssumption DEF IInv, Test, Phases, At, Goto
<1>1. Types'
  BY Ends DEF Types
<1>2. Place'
  BY DEF Place, Loop
<1>3. Ring'
  BY DEF Ring, Given
<1>4. Promised'
  BY DEF Promised
<1>5. Passed'
  BY DEF Types, Place, Ring, Given, Passed, Loop
<1> QED BY <1>1, <1>2, <1>3, <1>4, <1>5

\* With an earlier interrupt under way the call is late; otherwise none is.
LEMMA WaitIInv == IInv /\ do_wait_recv_package => IInv'
<1> SUFFICES ASSUME IInv, do_wait_recv_package PROVE IInv'
  OBVIOUS
<1> USE NetAssumption DEF IInv, do_wait_recv_package, Phases, At, Goto
<1>1. Types'
  BY Ends DEF Types
<1>2. Place'
  BY DEF Place, Loop
<1>3. Ring'
  BY DEF Ring, Given
<1>4. Promised'
  BY DEF Promised
<1>5. Passed'
  BY DEF Types, Passed, Loop
<1> QED BY <1>1, <1>2, <1>3, <1>4, <1>5

\* What is read is the next package of the log.
LEMMA ReadIInv == IInv /\ Read => IInv'
<1> SUFFICES ASSUME IInv, Read PROVE IInv'
  OBVIOUS
<1> USE NetAssumption DEF IInv, Read, Phases, At
<1>1. Types'
  BY DEF Types
<1>2. Place'
  BY DEF Types, Place, Loop
<1>3. Ring'
  BY DEF Ring, Given
<1>4. Promised'
  BY DEF Promised
<1>5. Passed'
  <2> SUFFICES ASSUME ~ late PROVE Passed'
    BY DEF Passed
  <2>1. /\ rx.i \in Nat /\ rx.i < Len(log) /\ rx.i \in Descs
        /\ \A k \in 1 .. rx.i : log[k] \notin Headers
        /\ rbuffer[rx.i] = log[rx.i + 1]
    BY DEF Types, Ring, Passed, Loop, Descs
  <2>2. CASE rbuffer[rx.i] \in Headers
    <3>1. rx'.pc = "done" /\ rx'.i = rx.i
      BY <2>2
    <3> QED BY <2>1, <2>2, <3>1 DEF Passed, Types
  <2>3. CASE rbuffer[rx.i] \notin Headers
    <3>1. rx'.pc \in {"done", "test"} /\ rx'.i = rx.i + 1
          /\ (rx'.pc = "done" => rx'.i = RDESC_LENGTH)
      BY <2>3
    <3>2. \A k \in 1 .. rx.i + 1 : log[k] \notin Headers
      BY <2>1, <2>3
    <3> QED BY <2>1, <3>1, <3>2 DEF Passed, Types
  <2> QED BY <2>2, <2>3
<1> QED BY <1>1, <1>2, <1>3, <1>4, <1>5

\* Nothing is claimed of a run that has ended.
LEMMA GoneIInv == IInv /\ Gone => IInv'
<1> SUFFICES ASSUME IInv, Gone PROVE IInv'
  OBVIOUS
<1> USE NetAssumption DEF IInv, Gone, Phases, At, Goto, Masked
<1>1. Types'
  BY Ends DEF Types
<1>2. Place'
  BY DEF Place
<1>3. Ring'
  BY DEF Ring
<1>4. Promised'
  BY DEF Promised
<1>5. Passed'
  BY DEF Passed
<1> QED BY <1>1, <1>2, <1>3, <1>4, <1>5

\* Every step preserves the invariant.
LEMMA NextIInv == IInv /\ [Next]_vars => IInv'
<1> SUFFICES ASSUME IInv, [Next]_vars PROVE IInv'
  OBVIOUS
<1>1. CASE UNCHANGED vars
  BY <1>1 DEF vars, IInv, Types, Place, Ring, Given, Promised, Passed
<1>2. CASE DmaSuspend \/ DmaStore \/ DmaRaise \/ Irq
  BY <1>2, DmaSuspendIInv, DmaStoreIInv, DmaRaiseIInv, IrqIInv
<1>3. CASE Receive
  BY <1>3, NetRecvStartIInv, NetRecvOwnIInv, NetRecvPollIInv, TestIInv, WaitIInv, ReadIInv
     DEF Receive
<1>4. CASE Setup \/ Gone
  BY <1>4, SetupIInv, GoneIInv
<1> QED BY <1>1, <1>2, <1>3, <1>4 DEF Next

\* Whatever the engine, the interrupt and the receiver do, a run without a late
\* interrupt takes the packages that test_bonus1 should take.
THEOREM NetReceives == Spec => []RecvOK
<1>1. Init => IInv
  BY InitIInv
<1>2. IInv /\ [Next]_vars => IInv'
  BY NextIInv
<1>3. IInv => RecvOK
  BY IInvSound
<1> QED BY <1>1, <1>2, <1>3, PTL DEF Spec

\* A receiver in do_wait_recv_package whose package has come will be woken by
\* irq_mac, unless the interrupt came between its test and the call.
THEOREM NetWakes == Spec => []WaitOK
<1>1. Init => IInv
  BY InitIInv
<1>2. IInv /\ [Next]_vars => IInv'
  BY NextIInv
<1>3. IInv => WaitOK
  BY IInvSound
<1> QED BY <1>1, <1>2, <1>3, PTL DEF Spec
==============================================================================
