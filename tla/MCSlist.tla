------------------------------ MODULE MCSlist -------------------------------
\* Slist for TLC: five allocatable nodes, so that a free list of every length
\* and in every order is reached, empty and full included.
EXTENDS Slist
=============================================================================
