\* Two workers and three calls: two overlap and a third finds what they left.
\* Ranges are small and asymmetric, so that every clamp and the dark screen are
\* reached; four retries instead of eleven.  A run ends when the calls are used
\* up or the daemon crashed.
SPECIFICATION Spec
CONSTANTS
    w1 = w1
    w2 = w2
    Workers <- TwoWorkers
    NoOp = none
    BacklightOps <- SomeBacklightOps
    BrightnessMax <- SomeRanges
    VolumeOps <- SomeVolumeOps
    Garbage <- SomeGarbage
    Spawning <- FirstWorker
    Retries = 4
    MaxCalls = 3
INVARIANTS DarkMeansZero VolumeBounded PlayedOnce
PROPERTIES LostOnlyByOverlap  MusicEnds
CHECK_DEADLOCK FALSE
