------------------------------ MODULE MCQueue -------------------------------
\* Queue for TLC: four items, so that a removed item can be the head, the tail,
\* the only one or in between, and two queues that exchange them.
EXTENDS Queue
=============================================================================
