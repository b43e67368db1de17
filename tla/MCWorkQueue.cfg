\* Two workers, three works, memory that held anything, two failing waits.  The
\* run ends when all workers block, when nobody can lock the mutex, or in a crash.
SPECIFICATION Spec
CONSTANTS
    w1 = w1
    w2 = w2
    j1 = j1
    j2 = j2
    j3 = j3
    Workers <- MCWorkers
    Works <- MCWorks
    Pool = pool
    SemMax = 2
    MaxFailedWaits = 2
    SemInits <- AnySem
    MutexInits <- AnyMutex
    Garbage = garbage
    None = none
INVARIANTS TypeOK MutexGuardsWorks TokenBalance CrashNeedsSpareWakeup OnePlace
PROPERTIES ImplementsChannel ImplementsFairness
CHECK_DEADLOCK FALSE
