---------------------------- MODULE MCSubprocess ----------------------------
(* Values for the constants of Subprocess.                                 *)
EXTENDS Subprocess

CONSTANTS w1, w2, a, b

TwoWorkers == {w1, w2}
TwoWorks == {a, b}
=============================================================================
