\* Two workers and two works: two subprocesses overlap, and a child whose execv
\* failed runs the work that waited beside the daemon.  The run ends when all
\* are answered, the daemon is killed, or a worker waits for ever.
SPECIFICATION Spec
CONSTANTS
    w1 = w1
    w2 = w2
    a = a
    b = b
    Workers <- TwoWorkers
    Works <- TwoWorks
    None = none
INVARIANTS TypeOK TwiceNeedsExecFailure DownNeedsEarlyExit
PROPERTIES FinishReturns
CHECK_DEADLOCK FALSE
