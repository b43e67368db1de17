------------------------------ MODULE MCHolper ------------------------------
(* Values for the constants of Holper.  Clients are interchangeable, and so *)
(* are workers.                                                             *)
EXTENDS Holper, TLC

CONSTANTS c1, c2, c3, w1, w2

TwoClients == {c1, c2}
ThreeClients == {c1, c2, c3}
TwoWorkers == {w1, w2}
Symmetry == Permutations(ThreeClients) \cup Permutations(TwoWorkers)

Ending == {"ok", "fails", "kills"}
Risky == {"ok", "hangs", "kills"}
=============================================================================
