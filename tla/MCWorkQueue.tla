---------------------------- MODULE MCWorkQueue ----------------------------
(* Values for the constants of WorkQueue.                                  *)
EXTENDS WorkQueue

CONSTANTS w1, w2, j1, j2, j3

MCWorkers == {w1, w2}
MCWorks == {j1, j2, j3}

\* What the allocation may hold.
ZeroSem == {0}
AnySem == 0..SemMax
ZeroMutex == {None}
AnyMutex == {None, Garbage}
=============================================================================
