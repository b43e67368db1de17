------------------------------- MODULE Values -------------------------------
(***************************************************************************)
(* The parts of the program that are about values more than about threads: *)
(* a behaviour is one of CommandTree, ParamSpec, Password or Logger.       *)
(***************************************************************************)
EXTENDS Integers, FiniteSets, Sequences

CONSTANTS Names, MaxCommands, MaxNames,              \* of CommandTree
          CommandLines, Declarations, MaxCalls,      \* of ParamSpec
          Classes, Bounds, Lengths, Absent,          \* of Password
          Threads, Main, LogSize, MaxLines, MaxFailures   \* of Logger

\* The minimum and the maximum of a key are integers of any value (request.h:146).
ASSUME DeclarationsOK ==
    \A d \in Declarations : /\ d.call \in {"param", "key"}
                            /\ d.call = "key" => d.min \in Int /\ d.max \in Int

\* The parameters of a password are ints (clipboard.cpp:41).
ASSUME PasswordOK ==
    IsFiniteSet(Classes) /\ Bounds \subseteq Int /\ Lengths \subseteq Int

\* The ring holds a line (logger.h:60, client.cpp:63).
ASSUME RingOK == LogSize \in Nat \ {0}

VARIABLES part,
          parent, names, acts, group, stage,
          pGiven, validate, calls, counters, failed, outcome,
          wGiven, length, min, max, pool, password, wStage,
          memory, verbosity, content, logs, index, logCount, said, at,
          failures

commands == <<parent, names, acts, group, stage>>
spec == <<pGiven, validate, calls, counters, failed, outcome>>
generator == <<wGiven, length, min, max, pool, password, wStage>>
logger == <<memory, verbosity, content, logs, index, logCount, said, at,
            failures>>
vars == <<part, commands, spec, generator, logger>>

T == INSTANCE CommandTree
P == INSTANCE ParamSpec WITH given <- pGiven
W == INSTANCE Password WITH given <- wGiven, stage <- wStage
L == INSTANCE Logger

Init == /\ part \in {"commands", "spec", "password", "logger"}
        /\ T!Init /\ P!Init /\ W!Init /\ L!Init
        \* one environment is enough for the parts that are not run
        /\ part # "spec" => validate /\ pGiven = <<>>
        /\ part # "password" =>
              length = 0 /\ wGiven = [c \in DOMAIN wGiven |->
                                         [min |-> Absent, max |-> Absent]]
        /\ part # "logger" => memory /\ verbosity = 0

Next == /\ UNCHANGED part
        /\ \/ /\ part = "commands" /\ T!Next
              /\ UNCHANGED <<spec, generator, logger>>
           \/ /\ part = "spec" /\ P!Next
              /\ UNCHANGED <<commands, generator, logger>>
           \/ /\ part = "password" /\ W!Next
              /\ UNCHANGED <<commands, spec, logger>>
           \/ /\ part = "logger" /\ L!Next
              /\ UNCHANGED <<commands, spec, generator>>

Safety == Init /\ [][Next]_vars

-----------------------------------------------------------------------------
\* CommandTree!NamesReach: every name reaches its command once the daemon
\* serves (command.cpp:9, commandmanager.cpp:12, 26).
NamesReach == T!NamesReach

\* ParamSpec!AcceptedIffFits: the chain of calls accepts what the whole spec
\* says (request.h:119-179).
AcceptedIffFits == P!AcceptedIffFits

\* Password!LimitsKept: a password has its length and keeps its limits, and
\* only impossible limits kill the daemon (clipboard.cpp:39-126).
LimitsKept == W!LimitsKept

\* Logger!TargetsKeepLines: targets lose, repeat or swap no line of a thread
\* (logger.cpp:14-31, logger.h:46-69).
TargetsKeepLines == L!TargetsKeepLines
=============================================================================
