----------------------------- MODULE MCDevices -----------------------------
(* Values for the constants of Devices.                                     *)
EXTENDS Devices

CONSTANTS w1, w2

TwoWorkers == {w1, w2}
FirstWorker == {w1}

SomeBacklightOps ==
    [device : {"screen"}, name : {"incr", "set"}, val : {-70, 70}] \cup
    [device : {"keyboard"}, name : {"on", "off", "toggle"}, val : {0}] \cup
    [device : {"keyboard"}, name : {"set", "incr"}, val : {-1, 5}]
SomeRanges == [screen |-> 1100, keyboard |-> 2]

SomeVolumeOps == [name : {"set", "incr"}, val : {-10, 170}] \cup
                 [name : {"mute"}, val : {0}]
SomeGarbage == {0, 90000}
=============================================================================
