\* The same instance: a child whose execv fails.
SPECIFICATION Spec
CONSTANTS
    w1 = w1
    w2 = w2
    a = a
    b = b
    Workers <- TwoWorkers
    Works <- TwoWorks
    None = none
PROPERTIES ExecFailureIsReported
CHECK_DEADLOCK FALSE
