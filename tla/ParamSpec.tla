----------------------------- MODULE ParamSpec -----------------------------
(***************************************************************************)
(* What the parameters of a request must be: an action's spec() declares   *)
(* parameters and limits on their keys by a chain of calls, each of which  *)
(* checks what it can at once, and failReason() closes it (request.h).     *)
(* Also how the client and the resolver make the parameters of a request   *)
(* out of the words on the command line.                                   *)
(*                                                                         *)
(* A word is <<name>>, or <<name, value>> when it has a colon; "--" is     *)
(* <<"--">>.  A value is known by how it parses: "" parses as nothing and  *)
(* as a string, "number" also as int, "text" as a string only.             *)
(***************************************************************************)
EXTENDS Integers, FiniteSetsExt, SequencesExt

CONSTANTS CommandLines,   \* sequences of words, options removed
          Declarations,   \* the calls: [call |-> "param", name, type, keys]
                          \* or [call |-> "key", key, min, max]
          MaxCalls        \* bound: calls in one spec()

VARIABLES given,      \* parameters_: name to value
          validate,   \* validate_: a request; otherwise the help text
          calls,      \* the calls made, paramSpecs_ and keyRestrictions_
          counters,   \* counters_
          failed,     \* failReason_ is not empty
          outcome     \* open, thrown, accepted, rejected, or help

vars == <<given, validate, calls, counters, failed, outcome>>

Separator == <<"--">>

\* With the option string "+..." getopt takes a separator that comes first.
GetOpt(line) == IF line # <<>> /\ line[1] = Separator THEN Tail(line) ELSE line

\* The words after the first separator are parameters; the ones before it
\* are the tokens of the command.
ParameterWords(line) ==
    LET before == SelectInSeq(GetOpt(line), LAMBDA word : word = Separator)
    IN IF before = 0 THEN <<>>
       ELSE SubSeq(GetOpt(line), before + 1, Len(GetOpt(line)))

\* The text before the first colon and after it, "" without one; the
\* resolver inserts them into a map, so the first one of a name stays.
Given(line) ==
    LET words == ParameterWords(line)
        Named == {words[i][1] : i \in DOMAIN words}
        first(n) == words[SelectInSeq(words, LAMBDA word : word[1] = n)]
    IN [n \in Named |-> IF Len(first(n)) = 1 THEN "" ELSE first(n)[2]]

Init == /\ validate \in BOOLEAN
        /\ given \in IF validate THEN {Given(line) : line \in CommandLines}
                     ELSE {<<>>}
        /\ calls = <<>>
        /\ counters = <<>>
        /\ failed = FALSE
        /\ outcome = "open"

\* StringUtils::to<T>
Parses(type, value) ==
    CASE type = "int" -> value = "number"
      [] type = "none" -> value = ""
      [] type = "string" -> TRUE

Params(cs) == {i \in DOMAIN cs : cs[i].call = "param"}
Limits(cs) == {i \in DOMAIN cs : cs[i].call = "key"}

Count(key) == IF key \in DOMAIN counters THEN counters[key] ELSE 0

Open(call) == /\ outcome = "open"
              /\ Len(calls) < MaxCalls
              /\ calls' = Append(calls, call)
              /\ UNCHANGED <<given, validate>>

Throw == outcome' = "thrown" /\ UNCHANGED <<counters, failed>>

Param(p) ==
    /\ p.call = "param" /\ Open(p)
    /\ IF \E i \in Params(calls) : calls[i].name = p.name
       THEN Throw
       ELSE LET exists == validate /\ p.name \in DOMAIN given
                parsed == exists /\ Parses(p.type, given[p.name])
                counted == IF parsed THEN p.keys ELSE {}
            IN /\ counters' = [k \in DOMAIN counters \cup counted |->
                       IF k \in counted THEN Count(k) + 1 ELSE counters[k]]
               /\ failed' = (failed \/ (exists /\ ~parsed))
               /\ UNCHANGED outcome

\* Variant of OutOfLimits: a maximum of -1 is a number like others.
OutOfLimitsNoNone(l, n) == n < l.min \/ n > l.max

\* A maximum of -1 is none.
OutOfLimits(l, n) == n < l.min \/ (n > l.max /\ l.max # -1)

Key(l) ==
    /\ l.call = "key" /\ Open(l)
    /\ IF l.min < 0 \/ (l.max # -1 /\ l.max < l.min)
       THEN Throw
       ELSE /\ failed' = (failed \/
                             (validate /\ OutOfLimits(l, Count(l.key))))
            /\ UNCHANGED <<counters, outcome>>

\* failReason() of a request; the help text does not ask for it.
FailReason ==
    /\ outcome = "open"
    /\ LET declared == {calls[i].name : i \in Params(calls)}
           fails == failed \/ ~(DOMAIN given \subseteq declared)
       IN /\ failed' = (failed \/ (validate /\ fails))
          /\ outcome' = IF ~validate THEN "help"
                        ELSE IF fails THEN "rejected" ELSE "accepted"
    /\ UNCHANGED <<given, validate, calls, counters>>

Next == \/ \E c \in Declarations : Param(c) \/ Key(c)
        \/ FailReason

-----------------------------------------------------------------------------
\* Every key is limited after all the parameters that count for it.
LimitsLast ==
    \A i \in Limits(calls), j \in Params(calls) :
        calls[i].key \in calls[j].keys => j < i

IllFormed ==
    \/ \E i, j \in Params(calls) : i # j /\ calls[i].name = calls[j].name
    \/ \E i \in Limits(calls) :
          calls[i].min < 0 \/ (calls[i].max # -1 /\ calls[i].max < calls[i].min)

\* What a reader of a spec() takes it to say.
Fits ==
    /\ \A n \in DOMAIN given : \E i \in Params(calls) :
          calls[i].name = n /\ Parses(calls[i].type, given[n])
    /\ \A i \in Limits(calls) :
          LET present == {j \in Params(calls) :
                             /\ calls[i].key \in calls[j].keys
                             /\ calls[j].name \in DOMAIN given}
          IN /\ Cardinality(present) >= calls[i].min
             /\ calls[i].max # -1 => Cardinality(present) <= calls[i].max

\* A request is accepted exactly when its parameters are what the whole spec
\* says, if every limit comes after the parameters it counts, as it does in
\* all the actions; and a spec throws exactly when it is ill-formed, for the
\* help text as for a request (request.h:122, 147, 155, 166).
AcceptedIffFits ==
    /\ outcome = "thrown" <=> IllFormed
    /\ outcome \in {"accepted", "rejected"} /\ LimitsLast =>
          (outcome = "accepted" <=> Fits)
=============================================================================
