------------------------------- MODULE Logger -------------------------------
(***************************************************************************)
(* The logger: a line that is not below the verbosity goes to each target  *)
(* in turn, with no lock, so lines of several threads interleave between   *)
(* the targets.  The daemon logs from all its threads to two descriptors;  *)
(* the client, from its one thread, to a descriptor and to the ring in     *)
(* memory.  A line is <<thread, n>> for the n-th call of its thread.       *)
(***************************************************************************)
EXTENDS Integers, FiniteSetsExt, SequencesExt

CONSTANTS Threads,      \* of the daemon
          Main,         \* the one of them that the client has
          LogSize,      \* size of the ring
          MaxLines,     \* bound: calls of all the threads
          MaxFailures   \* bound: writes that fail

VARIABLES memory,     \* the client's targets, else the daemon's
          verbosity,
          content,    \* what the files of the descriptors hold
          logs, index, logCount,   \* the ring
          said,       \* levels of the lines each thread has logged
          at,         \* the target each thread writes next, 0 if none
          failures    \* the writes <<target, line>> that failed

ring == <<logs, index, logCount>>
vars == <<memory, verbosity, content, ring, said, at, failures>>

Targets == 1..2
DEBUG == 0
MUSTFIX == 3
Levels == {DEBUG, MUSTFIX}

Init == /\ memory \in BOOLEAN
        /\ verbosity \in Levels
        /\ content = [k \in Targets |-> <<>>]
        /\ logs = [i \in 0..LogSize - 1 |-> ""] /\ index = 0 /\ logCount = 0
        /\ said = [t \in Threads |-> <<>>]
        /\ at = [t \in Threads |-> 0]
        /\ failures = {}

Calls == FoldFunction(LAMBDA s, n : Len(s) + n, 0, said)
Line(t) == <<t, Len(said[t])>>
InMemory(k) == memory /\ k = 2

\* A line below the verbosity is dropped.
Log(t, level) ==
    /\ memory => t = Main
    /\ at[t] = 0 /\ Calls < MaxLines
    /\ said' = [said EXCEPT ![t] = Append(@, level)]
    /\ at' = [at EXCEPT ![t] = IF level < verbosity THEN 0 ELSE 1]
    /\ UNCHANGED <<memory, verbosity, content, ring, failures>>

\* _logToTargets goes on to the next target.
NextTarget(t) ==
    at' = [at EXCEPT ![t] = IF @ = Max(Targets) THEN 0 ELSE @ + 1]

WriteFD(t) ==
    /\ at[t] # 0 /\ ~InMemory(at[t])
    /\ content' = [content EXCEPT ![at[t]] = Append(@, Line(t))]
    /\ NextTarget(t)
    /\ UNCHANGED <<memory, verbosity, ring, said, failures>>

\* What ::write returns is not looked at.
WriteFails(t) ==
    /\ at[t] # 0 /\ ~InMemory(at[t])
    /\ Cardinality(failures) < MaxFailures
    /\ failures' = failures \cup {<<at[t], Line(t)>>}
    /\ NextTarget(t)
    /\ UNCHANGED <<memory, verbosity, content, ring, said>>

WriteMemory(t) ==
    /\ at[t] # 0 /\ InMemory(at[t])
    /\ logs' = [logs EXCEPT ![index] = Line(t)]
    /\ index' = (index + 1) % LogSize
    /\ logCount' = logCount + 1
    /\ NextTarget(t)
    /\ UNCHANGED <<memory, verbosity, content, said, failures>>

Next == \E t \in Threads :
            \/ \E level \in Levels : Log(t, level)
            \/ WriteFD(t) \/ WriteFails(t) \/ WriteMemory(t)

Lines(i, j) == [n \in 1..j - i |-> logs[i + n - 1]]

\* Variant of GetLogs: a ring that is exactly full counts as not wrapped.
GetLogsFullIsNew ==
    (IF logCount > LogSize THEN Lines(index, LogSize) ELSE <<>>)
        \o Lines(0, index)

\* The lines from index on are older, if they have been written.
GetLogs ==
    (IF logCount > index THEN Lines(index, LogSize) ELSE <<>>)
        \o Lines(0, index)

-----------------------------------------------------------------------------
Logged == UNION {{t} \X DOMAIN said[t] : t \in Threads}

\* The lines that target k must have.
Due(k) ==
    {line \in Logged :
        LET t == line[1]
            n == line[2]
        IN /\ said[t][n] >= verbosity
           /\ n < Len(said[t]) \/ at[t] = 0 \/ at[t] > k
           /\ <<k, line>> \notin failures}

\* The lines of each thread are there once and in their order.
InOrder(s) == \A i, j \in DOMAIN s :
                 i < j /\ s[i][1] = s[j][1] => s[i][2] < s[j][2]

\* However the threads interleave, every target has each line that was not
\* below the verbosity once and in the order of its thread, except those whose
\* write failed; and getLogs returns the last lines, as many as the ring holds
\* and the oldest first, also when it has just been filled
\* (logger.cpp:14-31, logger.h:46-69).
TargetsKeepLines ==
    /\ \A k \in Targets : ~InMemory(k) =>
          Range(content[k]) = Due(k) /\ InOrder(content[k])
    /\ memory =>
          /\ Len(GetLogs) = Min({LogSize, Cardinality(Due(2))})
          /\ Range(GetLogs) \subseteq Due(2) /\ InOrder(GetLogs)
          /\ \A old \in Due(2) \ Range(GetLogs), i \in DOMAIN GetLogs :
                old[2] < GetLogs[i][2]
=============================================================================
