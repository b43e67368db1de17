\* Trees of four commands with names that clash or not, specs of four calls,
\* passwords of two classes, rings of two lines: the smallest sizes at which
\* groups shadow each other, limits come before what they count, minimums and
\* maximums conflict, and the ring wraps twice.  Every part comes to an end.
SPECIFICATION Safety
CONSTANTS
    main = main
    other = other
    Names <- TwoNames
    MaxCommands = 4
    MaxNames = 2
    CommandLines <- SomeCommandLines
    Declarations <- SomeDeclarations
    MaxCalls = 4
    Classes <- TwoClasses
    Bounds <- FewBounds
    Lengths <- FewLengths
    Absent = absent
    Threads <- TwoThreads
    Main = main
    LogSize = 2
    MaxLines = 5
    MaxFailures = 1
INVARIANTS NamesReach AcceptedIffFits LimitsKept TargetsKeepLines
CHECK_DEADLOCK FALSE
