--------------------------- MODULE MCThreadQueue ---------------------------
(* Values for the constants of ThreadQueue.                                *)
EXTENDS ThreadQueue

CONSTANTS s1, s2, m1, m2, m3

MCSenders == {s1, s2}
MCMessages == {m1, m2, m3}
=============================================================================
