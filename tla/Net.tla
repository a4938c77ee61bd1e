--------------------------------- MODULE Net ---------------------------------
(***************************************************************************)
(* Receiving packages: the driver (drivers/mac.c), the interrupt           *)
(* (irq_mac of kernel/exception/irq.c) and the program that uses them      *)
(* (test_bonus1 of test/test_bonus/test_bonus.c), beside the DMA engine,   *)
(* which goes on whatever the processor does.                              *)
(*                                                                         *)
(* The receiver tests in user mode whether the DMA engine still owns a     *)
(* descriptor, and makes the system call that waits only after that.       *)
(***************************************************************************)
EXTENDS Integers, Sequences

CONSTANTS
  RDESC_LENGTH,        \* descriptors in the ring
  MaxPackages,         \* bound: packages that are sent
  Headers,             \* those that begin an executable file
  MaxRuns              \* bound: how often the receiver is started

ASSUME NetAssumption ==
  /\ RDESC_LENGTH \in Nat \ {0} /\ MaxPackages \in Nat /\ MaxRuns \in Nat
  /\ Headers \subseteq 1 .. MaxPackages

Descs == 0 .. RDESC_LENGTH - 1

VARIABLES
  own,                 \* bit 31 of des0: the DMA engine owns the descriptor
  rbuffer,             \* the package in each buffer, 0 for none
  dma,                 \* the engine, and the descriptor it will use next
  owed,                \* the engine is about to set its status register
  status,              \* the status register: an interrupt is requested
  arrived,             \* the number of packages that have arrived
  rx,                  \* the receiver: where it is, and i
  runs,
  log,                 \* history: the packages stored in this run
  missed,              \* history: an interrupt between the test and the call
  late                 \* history: a call with an earlier interrupt under way

vars == <<own, rbuffer, dma, owed, status, arrived, rx, runs, log, missed, late>>

Init ==
  /\ own = [d \in Descs |-> FALSE] /\ rbuffer = [d \in Descs |-> 0]
  /\ dma = [state |-> "stopped", at |-> 0]
  /\ owed = FALSE /\ status = FALSE /\ arrived = 0
  /\ rx = [pc |-> "off", i |-> 0] /\ runs = 0
  /\ log = <<>> /\ missed = FALSE /\ late = FALSE

-----------------------------------------------------------------------------
\* The DMA engine (external).

\* des3 of a descriptor.
Following(d) == IF d = RDESC_LENGTH - 1 THEN 0 ELSE d + 1

\* It looks at its descriptor, finds that it does not own it, and suspends.
DmaSuspend ==
  /\ dma.state = "running" /\ ~ own[dma.at]
  /\ dma' = [dma EXCEPT !.state = "suspended"]
  /\ UNCHANGED <<own, rbuffer, owed, status, arrived, rx, runs, log, missed, late>>

\* A package comes; it is lost unless there is a descriptor for it.
DmaStore ==
  /\ arrived < MaxPackages
  /\ arrived' = arrived + 1
  /\ IF dma.state = "running" /\ own[dma.at]
     THEN /\ own' = [own EXCEPT ![dma.at] = FALSE]
          /\ rbuffer' = [rbuffer EXCEPT ![dma.at] = arrived']
          /\ dma' = [dma EXCEPT !.at = Following(@)]
          /\ owed' = TRUE
          /\ log' = Append(log, arrived')
     ELSE UNCHANGED <<own, rbuffer, dma, owed, log>>
  /\ UNCHANGED <<status, rx, runs, missed, late>>

DmaRaise ==
  /\ owed
  /\ owed' = FALSE /\ status' = TRUE
  /\ UNCHANGED <<own, rbuffer, dma, arrived, rx, runs, log, missed, late>>

-----------------------------------------------------------------------------
\* The interrupt waits while the receiver is in the middle of do_net_recv; at
\* any other time it comes at once, or when another task runs.
Masked == rx.pc \in {"own", "poll"}

\* Faulty variant of Wakes: check_recv's condition, that all have arrived.
Wakes_last == rx.pc = "blocked" /\ ~ own[RDESC_LENGTH - 1]

\* The receiver is in recv_block_queue.
Wakes == rx.pc = "blocked"

\* irq_mac: do_unblock_one, and clear_dma_interrupt.
Irq ==
  /\ status /\ ~ Masked
  /\ rx' = IF Wakes THEN [rx EXCEPT !.pc = "read"] ELSE rx
  /\ status' = FALSE
  /\ missed' = (missed \/ rx.pc = "wait")
  /\ UNCHANGED <<own, rbuffer, dma, owed, arrived, runs, log, late>>

-----------------------------------------------------------------------------
At(pc) == rx.pc = pc
Goto(pc) == rx' = [rx EXCEPT !.pc = pc]

\* The controller is reset, and with it the engine; no interrupt is left.
do_init_mac ==
  dma' = [dma EXCEPT !.state = "stopped"] /\ owed' = FALSE /\ status' = FALSE

\* The engine owns no descriptor.  What is in the buffers stays there.
recv_desc_init == own' = [d \in Descs |-> FALSE]

\* The receiver is started.
Setup ==
  /\ At("off") /\ runs < MaxRuns
  /\ runs' = runs + 1
  /\ do_init_mac /\ recv_desc_init
  /\ rx' = [pc |-> "start", i |-> 0]
  /\ log' = <<>> /\ missed' = FALSE /\ late' = FALSE
  /\ UNCHANGED <<rbuffer, arrived>>

\* Faulty variant of ListAddress: the address is not written again.
ListAddress_kept == dma.at

\* The first descriptor, as do_net_recv tells the engine.
ListAddress == 0

\* do_net_recv.  The engine is started before it owns any descriptor ...
NetRecvStart ==
  /\ At("start")
  /\ dma' = [state |-> "running", at |-> ListAddress]
  /\ Goto("own")
  /\ UNCHANGED <<own, rbuffer, owed, status, arrived, runs, log, missed, late>>

\* ... then given one after the other ...
NetRecvOwn ==
  /\ At("own")
  /\ own' = [own EXCEPT ![rx.i] = TRUE]
  /\ rx' = IF rx.i + 1 = RDESC_LENGTH THEN [pc |-> "poll", i |-> 0]
           ELSE [rx EXCEPT !.i = @ + 1]
  /\ UNCHANGED <<rbuffer, dma, owed, status, arrived, runs, log, missed, late>>

\* ... and made to look at them again if it has suspended.
NetRecvPoll ==
  /\ At("poll")
  /\ dma' = [dma EXCEPT !.state = IF own[dma.at] THEN "running" ELSE @]
  /\ Goto("test")
  /\ UNCHANGED <<own, rbuffer, owed, status, arrived, runs, log, missed, late>>

\* The loop of test_bonus1: if the engine owns the descriptor, wait.
Test ==
  /\ At("test")
  /\ Goto(IF own[rx.i] THEN "wait" ELSE "read")
  /\ UNCHANGED <<own, rbuffer, dma, owed, status, arrived, runs, log, missed, late>>

\* Faulty variant of do_wait_recv_package: it forgets a pending interrupt.
do_wait_recv_package_clear ==
  /\ At("wait")
  /\ Goto("blocked")
  /\ late' = (late \/ (own[rx.i] /\ (owed \/ status)))
  /\ status' = FALSE
  /\ UNCHANGED <<own, rbuffer, dma, owed, arrived, runs, log, missed>>

do_wait_recv_package ==
  /\ At("wait")
  /\ Goto("blocked")
  /\ late' = (late \/ (own[rx.i] /\ (owed \/ status)))
  /\ UNCHANGED <<own, rbuffer, dma, owed, status, arrived, runs, log, missed>>

\* Whatever has woken it, it takes the buffer for received.
Read ==
  /\ At("read")
  /\ rx' = IF rbuffer[rx.i] \in Headers THEN [rx EXCEPT !.pc = "done"]
           ELSE [pc |-> IF rx.i + 1 = RDESC_LENGTH THEN "done" ELSE "test", i |-> rx.i + 1]
  /\ UNCHANGED <<own, rbuffer, dma, owed, status, arrived, runs, log, missed, late>>

\* The receiver exits, or is killed where it is.
Gone ==
  /\ rx.pc # "off" /\ ~ Masked
  /\ rx' = [pc |-> "off", i |-> 0]
  /\ UNCHANGED <<own, rbuffer, dma, owed, status, arrived, runs, log, missed, late>>

Receive == NetRecvStart \/ NetRecvOwn \/ NetRecvPoll \/ Test \/ do_wait_recv_package \/ Read

Next == DmaSuspend \/ DmaStore \/ DmaRaise \/ Irq \/ Setup \/ Receive \/ Gone

Spec == Init /\ [][Next]_vars

\* The engine and the receiver go on, and interrupts are enabled again and again
\* since some task is always running.  Nobody need send anything.
Fairness == WF_vars(DmaRaise) /\ WF_vars(Irq) /\ WF_vars(Receive)

LiveSpec == Spec /\ Fairness

-----------------------------------------------------------------------------
\* In a run without a late interrupt the receiver takes exactly the packages
\* that have been stored, in their order, although buffers keep the packages
\* of earlier runs: it stops at the first header, or past the end of a ring
\* without one.
RecvOK ==
  ~ late =>
    /\ At("read") => rx.i < Len(log) /\ rbuffer[rx.i] = log[rx.i + 1]
    /\ At("done") =>
         IF rx.i = RDESC_LENGTH
         THEN Len(log) = RDESC_LENGTH /\ \A k \in DOMAIN log : log[k] \notin Headers
         ELSE log[rx.i + 1] \in Headers /\ \A k \in 1 .. rx.i : log[k] \notin Headers

\* A receiver that is blocked although its package is there will be woken by an
\* interrupt under way, unless one came between its test and its call.
WaitOK == At("blocked") /\ ~ missed => own[rx.i] \/ owed \/ status

\* Hence, unless an interrupt was missed, the receiver gets past every package
\* that has been stored.
Received ==
  \A d \in Descs :
    (rx.i = d /\ Len(log) > d) ~> (rx.i # d \/ missed \/ rx.pc \in {"done", "off"})
=============================================================================
