------------------------------ MODULE Devices ------------------------------
(***************************************************************************)
(* The actions that change something outside of the daemon, each with      *)
(* several workers: a behaviour is one of Backlight, on one of its devices, *)
(* of Volume or of Music.                                                  *)
(***************************************************************************)
EXTENDS Integers, FiniteSets

CONSTANTS Workers, NoOp,
          BacklightOps, BrightnessMax,   \* Ops, BrightnessMax of Backlight
          VolumeOps, Garbage,            \* Ops, Garbage of Volume
          Spawning, Retries,             \* of Music
          MaxCalls                       \* bound: calls of Backlight, of Volume

\* The parameters of the commands are integers of any value.
ASSUME BacklightOpsOK ==
    /\ BacklightOps \subseteq
          [device : {"screen"}, name : {"incr", "set"}, val : Int] \cup
          [device : {"keyboard"}, name : {"on", "off", "toggle", "set", "incr"},
           val : Int]
    /\ NoOp \notin BacklightOps
ASSUME VolumeOpsOK ==
    /\ VolumeOps \subseteq [name : {"set", "incr", "mute"}, val : Int]
    /\ NoOp \notin VolumeOps
ASSUME BrightnessMaxOK == BrightnessMax \in [{"screen", "keyboard"} -> Nat \ {0}]
\* Every value of the brightness files is a float, exactly.
ASSUME BrightnessIsFloat == BrightnessMax["screen"] < 2^24
ASSUME GarbageOK == Garbage \subseteq Int
ASSUME BoundOK == MaxCalls \in Nat

VARIABLES device,
          raw, lit, present, dpms, bPc, bOp, new, bCalls, bDown,
          bStale, raced, missed,
          volume, muted, plugged, vPc, vOp, state, sink, copy, seen, told,
          vCalls, vDown, fault, vStale,
          player, mPc, retries, child, played, lost

backlight == <<raw, lit, present, dpms, bPc, bOp, new, bCalls, bDown,
               bStale, raced, missed>>
sound == <<volume, muted, plugged, vPc, vOp, state, sink, copy, seen, told,
           vCalls, vDown, fault, vStale>>
music == <<player, mPc, retries, child, played, lost>>
vars == <<device, backlight, sound, music>>

B == INSTANCE Backlight WITH
        Ops <- BacklightOps, pc <- bPc, op <- bOp, calls <- bCalls, down <- bDown,
        stale <- bStale

V == INSTANCE Volume WITH
        Ops <- VolumeOps, pc <- vPc, op <- vOp, calls <- vCalls, down <- vDown,
        stale <- vStale

M == INSTANCE Music WITH pc <- mPc

Init == /\ device \in {"screen", "keyboard", "volume", "music"}
        /\ B!Init /\ V!Init /\ M!Init
        \* one environment is enough for the actions that are not run
        /\ device # "screen" => dpms = "ok"
        /\ device # "keyboard" => present["keyboard"]
        /\ device # "music" => player = "up"

Next == /\ UNCHANGED device
        /\ \/ /\ device \in {"screen", "keyboard"}
              /\ B!Next
              /\ \A w \in Workers : bOp'[w] # NoOp => bOp'[w].device = device
              /\ UNCHANGED <<sound, music>>
           \/ device = "volume" /\ V!Next /\ UNCHANGED <<backlight, music>>
           \/ device = "music" /\ M!Next /\ UNCHANGED <<backlight, sound>>

Safety == Init /\ [][Next]_vars

\* The workers that play music run; players and the others need not.
Spec == /\ Safety
        /\ \A w \in Workers : WF_vars(device = "music" /\ M!Act(w)
                                      /\ UNCHANGED <<device, backlight, sound>>)

-----------------------------------------------------------------------------
\* Backlight!DarkMeansZero: a screen is off at brightness 0 only, unless calls
\* overlapped, the write of the 0 failed or the daemon ended (display.cpp:57-64);
\* and every brightness is one that Backlight!TypeOK allows.
DarkMeansZero == B!TypeOK /\ B!DarkMeansZero

\* Backlight!LostOnlyByOverlap: a call that writes changes the brightness as asked,
\* within the error of float, unless the device was changed between its read and
\* its write (display.cpp:48-64, 107-124).
LostOnlyByOverlap == B!LostOnlyByOverlap

\* Volume!VolumeBounded: no volume above 200 per cent, no crash without a fault
\* (pulse.cpp:82, 118-145, 205).
VolumeBounded == V!VolumeBounded

\* Volume!ToldIsTrue: a call that met no fault did what it answers
\* (pulse.cpp:192-216).
ToldIsTrue == V!ToldIsTrue

\* Music!PlayedOnce: a method is executed at most once however often it is
\* tried, and success is told truly (music.cpp:34, 56-75).
PlayedOnce == M!PlayedOnce

\* Music!MusicEnds: the retries end (music.cpp:56-58).
MusicEnds == device = "music" => M!MusicEnds
=============================================================================
