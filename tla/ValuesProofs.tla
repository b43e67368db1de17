---------------------------- MODULE ValuesProofs ----------------------------
(***************************************************************************)
(* Proofs about the parts of Values: for any declarations and any number   *)
(* of calls, the chain of calls of a spec() accepts what the whole spec    *)
(* says; for any classes, limits and lengths, a password keeps them; for   *)
(* any threads, lines and size of the ring, the targets of the logger keep *)
(* their lines; and in any tree that was validated names reach commands.   *)
(*                                                                         *)
(* The last three rest on definitions that recur: the sum of a function,   *)
(* the path of a command and the walk of its tokens.  What they are for    *)
(* any input is proved by induction over sets, which takes no operator as  *)
(* a parameter: NatSets and SubsetSets.                                    *)
(***************************************************************************)
EXTENDS Values, FiniteSetTheorems, TLAPS

(* Induction                                                               *)

\* A set that has 0 and with each number the next one has all of them: else
\* there would be an injection from the numbers it has up to n into themselves
\* that misses 0.
LEMMA NatSets ==
    ASSUME NEW Q, 0 \in Q, \A n \in Nat : n \in Q => n + 1 \in Q
    PROVE  \A n \in Nat : n \in Q
<1> SUFFICES ASSUME NEW n \in Nat, n \notin Q PROVE FALSE
  OBVIOUS
<1> DEFINE Lower == {k \in 0..n : k \in Q}
           next == [k \in Lower |-> k + 1]
<1>1. IsFiniteSet(Lower)
  <2>1. Lower \in SUBSET (0..n) /\ IsFiniteSet(0..n)
    BY FS_Interval
  <2> QED BY <2>1, FS_Subset
<1>2. next \in Injection(Lower, Lower)
  BY DEF Injection, IsInjective
<1>3. next \in Surjection(Lower, Lower)
  BY ONLY <1>1, <1>2, FS_Injection
<1>4. \A t \in Lower : \E k \in Lower : next[k] = t
  BY <1>3 DEF Surjection
<1>5. 0 \in Lower
  OBVIOUS
<1>6. PICK k \in Lower : next[k] = 0
  BY <1>4, <1>5
<1> QED BY <1>6

\* A set of subsets that has the empty one, and each one that it has without any
\* one of its elements.
LEMMA SubsetSets ==
    ASSUME NEW S, IsFiniteSet(S), NEW Q,
           \A s \in SUBSET S : (\A x \in s : s \ {x} \in Q) => s \in Q
    PROVE  \A s \in SUBSET S : s \in Q
<1> DEFINE Sized(n) == {s \in SUBSET S : Cardinality(s) = n}
           N == {n \in Nat : Sized(n) \subseteq Q}
<1>1. \A s \in SUBSET S : IsFiniteSet(s) /\ Cardinality(s) \in Nat
  BY FS_Subset, FS_CardinalityType
<1>2. 0 \in N
  BY <1>1, FS_EmptySet
<1>3. ASSUME NEW n \in Nat, n \in N PROVE n + 1 \in N
  <2>1. ASSUME NEW s \in Sized(n + 1), NEW x \in s PROVE s \ {x} \in Q
    <3>1. IsFiniteSet(s) /\ Cardinality(s) = n + 1 /\ s \ {x} \in SUBSET S
      BY <1>1
    <3>2. Cardinality(s \ {x}) = n
      BY <3>1, FS_RemoveElement
    <3>3. s \ {x} \in Sized(n)
      BY <3>1, <3>2
    <3> QED BY <1>3, <3>3
  <2> QED BY <2>1
<1>4. \A n \in Nat : n \in N
  <2> HIDE DEF N
  <2> QED BY <1>2, <1>3, NatSets
<1> QED BY <1>1, <1>4

-----------------------------------------------------------------------------
(* Chains of calls                                                         *)

Params == {i \in DOMAIN calls : calls[i].call = "param"}
Limits == {i \in DOMAIN calls : calls[i].call = "key"}

\* The parameters that are there, that parse, and that count for a key.
There(i) == validate /\ calls[i].name \in DOMAIN pGiven
Fine(i) == There(i) /\ P!Parses(calls[i].type, pGiven[calls[i].name])
Counted(key) == {i \in Params : Fine(i) /\ key \in calls[i].keys}

\* Those of them that the limit at i has seen.
Seen(i) == {j \in Counted(calls[i].key) : j < i}

Clash == \E i, j \in Params : i # j /\ calls[i].name = calls[j].name
Wrong(l) == l.min < 0 \/ (l.max # -1 /\ l.max < l.min)

\* Why a chain has failed so far.
Reasons == \/ \E i \in Params : There(i) /\ ~Fine(i)
           \/ validate /\ \E i \in Limits :
                 P!OutOfLimits(calls[i], Cardinality(Seen(i)))

SpecTypes ==
    /\ calls \in Seq(Declarations)
    /\ counters \in [DOMAIN counters -> Nat]
    /\ failed \in BOOLEAN /\ validate \in BOOLEAN

WhileOpen ==
    /\ \A key : P!Count(key) = Cardinality(Counted(key))
    /\ failed <=> Reasons

SpecInv ==
    /\ SpecTypes
    /\ ~validate => outcome \notin {"accepted", "rejected"}
    /\ outcome = "thrown" <=> Clash \/ \E i \in Limits : Wrong(calls[i])
    /\ outcome = "open" => WhileOpen
    /\ P!AcceptedIffFits

-----------------------------------------------------------------------------
\* No call is made yet.
LEMMA SpecInit == P!Init => SpecInv
<1> SUFFICES ASSUME P!Init PROVE SpecInv
  OBVIOUS
<1>1. /\ calls = <<>> /\ counters = <<>> /\ outcome = "open" /\ failed = FALSE
      /\ validate \in BOOLEAN
  BY DEF P!Init
<1>2. DOMAIN calls = {} /\ DOMAIN counters = {}
  BY <1>1
<1>3. SpecTypes
  <2>1. counters \in [DOMAIN counters -> Nat]
    BY <1>1, <1>2
  <2>2. calls \in Seq(Declarations)
    BY <1>1
  <2>3. failed \in BOOLEAN /\ validate \in BOOLEAN
    BY ONLY <1>1, Zenon
  <2> QED BY <2>1, <2>2, <2>3 DEF SpecTypes
<1>4. WhileOpen
  <2>1. ASSUME NEW key PROVE P!Count(key) = Cardinality(Counted(key))
    <3>1. Counted(key) = {} /\ P!Count(key) = 0
      BY <1>2 DEF Counted, Params, P!Count
    <3> QED BY <3>1, FS_EmptySet
  <2>2. ~Reasons
    BY <1>2 DEF Reasons, Params, Limits
  <2> QED BY <1>1, <2>1, <2>2 DEF WhileOpen
<1> QED BY <1>1, <1>2, <1>3, <1>4 DEF SpecInv, Clash, Params, Limits,
           P!AcceptedIffFits, P!IllFormed, P!Params, P!Limits

-----------------------------------------------------------------------------
(* A call is added                                                         *)

\* The parameters that count are finitely many.
LEMMA CountedFinite ==
    ASSUME calls \in Seq(Declarations), NEW key
    PROVE  IsFiniteSet(Counted(key)) /\ Cardinality(Counted(key)) \in Nat
<1>1. IsFiniteSet(1..Len(calls)) /\ Counted(key) \in SUBSET (1..Len(calls))
  BY FS_Interval DEF Counted, Params
<1> QED BY <1>1, FS_Subset, FS_CardinalityType

\* What was called before stays where it is, and so does what it has counted.
LEMMA Called ==
    ASSUME SpecTypes, NEW c \in Declarations, calls' = Append(calls, c),
           UNCHANGED <<pGiven, validate>>,
           NEW m, m = Len(calls) + 1
    PROVE  /\ calls' \in Seq(Declarations)
           /\ m \notin DOMAIN calls /\ DOMAIN calls' = DOMAIN calls \cup {m}
           /\ calls'[m] = c /\ \A i \in DOMAIN calls : i < m /\ calls'[i] = calls[i]
           /\ \A i \in DOMAIN calls : /\ There(i)' <=> There(i)
                                      /\ Fine(i)' <=> Fine(i)
           /\ Params' = IF c.call = "param" THEN Params \cup {m} ELSE Params
           /\ Limits' = IF c.call = "key" THEN Limits \cup {m} ELSE Limits
<1>1. /\ calls' \in Seq(Declarations)
      /\ m \notin DOMAIN calls /\ DOMAIN calls' = DOMAIN calls \cup {m}
      /\ calls'[m] = c /\ \A i \in DOMAIN calls : i < m /\ calls'[i] = calls[i]
  BY DEF SpecTypes
<1>2. \A i \in DOMAIN calls : (There(i)' <=> There(i)) /\ (Fine(i)' <=> Fine(i))
  BY <1>1 DEF There, Fine, P!Parses
<1> QED BY <1>1, <1>2 DEF Params, Limits

\* A call adds at most itself to what counts for a key.
LEMMA CountedNext ==
    ASSUME SpecTypes, NEW c \in Declarations, calls' = Append(calls, c),
           UNCHANGED <<pGiven, validate>>,
           NEW m, m = Len(calls) + 1, NEW key
    PROVE  /\ IF c.call = "param" /\ Fine(m)' /\ key \in c.keys
              THEN m \notin Counted(key) /\ Counted(key)' = Counted(key) \cup {m}
              ELSE Counted(key)' = Counted(key)
           /\ \A i \in DOMAIN calls : {j \in Counted(key)' : j < i}
                                      = {j \in Counted(key) : j < i}
<1>2. /\ m \notin DOMAIN calls /\ DOMAIN calls' = DOMAIN calls \cup {m}
      /\ calls'[m] = c
      /\ \A i \in DOMAIN calls : i < m /\ calls'[i] = calls[i]
                                 /\ (Fine(i)' <=> Fine(i))
      /\ Params' = IF c.call = "param" THEN Params \cup {m} ELSE Params
  BY Called
<1>3. DOMAIN calls \in SUBSET Nat /\ m \in Nat
  BY DEF SpecTypes
<1>4. Counted(key)' = {i \in Params' : Fine(i)' /\ key \in calls'[i].keys}
  BY DEF Counted
<1>5. IF c.call = "param" /\ Fine(m)' /\ key \in c.keys
      THEN m \notin Counted(key) /\ Counted(key)' = Counted(key) \cup {m}
      ELSE Counted(key)' = Counted(key)
  BY <1>2, <1>4 DEF Counted, Params
<1>6. ASSUME NEW i \in DOMAIN calls
      PROVE  {j \in Counted(key)' : j < i} = {j \in Counted(key) : j < i}
  BY <1>2, <1>3, <1>5
<1> QED BY <1>5, <1>6

Broken == Clash \/ \E i \in Limits : Wrong(calls[i])

\* What makes a spec throw is that it is ill-formed.
LEMMA BrokenIsIllFormed ==
    (P!IllFormed <=> Broken) /\ (P!IllFormed' <=> Broken')
BY DEF P!IllFormed, P!Params, P!Limits, Broken, Clash, Wrong, Params, Limits

\* A chain that is not closed has only to throw when it is ill-formed.
LEMMA NotClosed ==
    ASSUME SpecTypes', outcome' \notin {"accepted", "rejected"},
           outcome' = "thrown" <=> Broken',
           outcome' = "open" => WhileOpen'
    PROVE  SpecInv'
BY BrokenIsIllFormed DEF SpecInv, Broken, P!AcceptedIffFits

\* param() counts a parameter that is there and fits.
LEMMA ParamKeeps ==
    ASSUME SpecInv, NEW c \in Declarations, P!Param(c)
    PROVE  SpecInv'
<1>0. /\ SpecTypes /\ WhileOpen /\ ~Broken
  BY DEF SpecInv, P!Param, P!Open, Broken
<1>1. PICK m : m = Len(calls) + 1
  OBVIOUS
<1>2. /\ outcome = "open" /\ c.call = "param"
      /\ calls' = Append(calls, c) /\ UNCHANGED <<pGiven, validate>>
  BY DEF P!Param, P!Open
<1>3. /\ calls' \in Seq(Declarations)
      /\ m \notin DOMAIN calls /\ DOMAIN calls' = DOMAIN calls \cup {m}
      /\ calls'[m] = c /\ \A i \in DOMAIN calls : i < m /\ calls'[i] = calls[i]
      /\ \A i \in DOMAIN calls : /\ There(i)' <=> There(i)
                                 /\ Fine(i)' <=> Fine(i)
      /\ Params' = Params \cup {m} /\ Limits' = Limits
  BY <1>0, <1>1, <1>2, Called
<1>4. CASE \E i \in Params : calls[i].name = c.name
  <2>1. outcome' = "thrown" /\ UNCHANGED <<counters, failed>>
    BY <1>4 DEF P!Param, P!Throw, P!Params, Params
  <2>2. SpecTypes'
    BY <1>0, <1>2, <1>3, <2>1 DEF SpecTypes
  <2>3. Broken'
    BY <1>3, <1>4 DEF Broken, Clash, Params
  <2> QED BY <2>1, <2>2, <2>3, NotClosed
<1>5. CASE ~\E i \in Params : calls[i].name = c.name
  <2>1. PICK counted :
           /\ counted = IF Fine(m)' THEN c.keys ELSE {}
           /\ counters' = [k \in DOMAIN counters \cup counted |->
                             IF k \in counted THEN P!Count(k) + 1 ELSE counters[k]]
           /\ failed' = (failed \/ (There(m)' /\ ~Fine(m)'))
           /\ outcome' = "open"
    <3>1. /\ There(m)' <=> validate /\ c.name \in DOMAIN pGiven
          /\ Fine(m)' <=> There(m)' /\ P!Parses(c.type, pGiven[c.name])
      BY <1>2, <1>3 DEF There, Fine, P!Parses
    <3>2. ~\E i \in P!Params(calls) : calls[i].name = c.name
      BY <1>5 DEF P!Params, Params
    <3> DEFINE counted == IF Fine(m)' THEN c.keys ELSE {}
    <3>3. /\ counters' = [k \in DOMAIN counters \cup counted |->
                             IF k \in counted THEN P!Count(k) + 1 ELSE counters[k]]
          /\ failed' = (failed \/ (There(m)' /\ ~Fine(m)'))
      BY <3>1, <3>2 DEF P!Param
    <3>4. outcome' = "open"
      BY <1>2, <3>2 DEF P!Param
    <3> QED BY <3>3, <3>4
  <2>2. \A key : P!Count(key) \in Nat
    BY <1>0, CountedFinite DEF WhileOpen, SpecTypes
  <2>3. SpecTypes'
    <3>1. counters' \in [DOMAIN counters' -> Nat]
      BY <1>0, <2>1, <2>2 DEF SpecTypes
    <3>2. failed' \in BOOLEAN
      BY <2>1
    <3> QED BY <1>0, <1>2, <1>3, <3>1, <3>2 DEF SpecTypes
  <2>4. ~Broken'
    <3>1. ~Clash'
      BY <1>0, <1>3, <1>5 DEF Broken, Clash, Params
    <3>2. ~\E i \in Limits : Wrong(calls'[i])
      BY <1>0, <1>3 DEF Broken, Limits
    <3> QED BY <1>3, <3>1, <3>2 DEF Broken, Wrong
  <2>5. WhileOpen'
    <3>1. ASSUME NEW key PROVE P!Count(key)' = Cardinality(Counted(key)')
      <4>1. P!Count(key)' = IF key \in counted THEN P!Count(key) + 1 ELSE P!Count(key)
        BY <2>1 DEF P!Count
      <4>2. P!Count(key) = Cardinality(Counted(key))
        BY <1>0 DEF WhileOpen
      <4>3. IF key \in counted
            THEN m \notin Counted(key) /\ Counted(key)' = Counted(key) \cup {m}
            ELSE Counted(key)' = Counted(key)
        BY <1>0, <1>1, <1>2, <2>1, CountedNext
      <4> QED BY <1>0, <4>1, <4>2, <4>3, CountedFinite, FS_AddElement DEF SpecTypes
    <3>2. \A i \in Limits : Seen(i)' = Seen(i) /\ calls'[i] = calls[i]
      <4> TAKE i \in Limits
      <4>1. i \in DOMAIN calls /\ calls'[i] = calls[i]
        BY <1>3 DEF Limits
      <4>2. {j \in Counted(calls[i].key)' : j < i} = {j \in Counted(calls[i].key) : j < i}
        BY <1>0, <1>1, <1>2, <1>3, <4>1, CountedNext
      <4> QED BY <4>1, <4>2 DEF Seen
    <3>3. Reasons' <=> Reasons \/ (There(m)' /\ ~Fine(m)')
      BY <1>2, <1>3, <3>2 DEF Reasons, Params, P!OutOfLimits
    <3> QED BY <1>0, <2>1, <3>1, <3>3 DEF WhileOpen
  <2> QED BY <2>1, <2>3, <2>4, <2>5, NotClosed
<1> QED BY <1>4, <1>5

\* key() compares its limits with what was counted before it.
LEMMA KeyKeeps ==
    ASSUME SpecInv, NEW c \in Declarations, P!Key(c)
    PROVE  SpecInv'
<1>0. /\ SpecTypes /\ WhileOpen /\ ~Broken
  BY DEF SpecInv, P!Key, P!Open, Broken
<1>1. PICK m : m = Len(calls) + 1
  OBVIOUS
<1>2. /\ outcome = "open" /\ c.call = "key"
      /\ calls' = Append(calls, c) /\ UNCHANGED <<pGiven, validate, counters>>
  BY DEF P!Key, P!Open, P!Throw
<1>3. /\ calls' \in Seq(Declarations)
      /\ m \notin DOMAIN calls /\ DOMAIN calls' = DOMAIN calls \cup {m}
      /\ calls'[m] = c /\ \A i \in DOMAIN calls : i < m /\ calls'[i] = calls[i]
      /\ \A i \in DOMAIN calls : /\ There(i)' <=> There(i)
                                 /\ Fine(i)' <=> Fine(i)
      /\ Params' = Params /\ Limits' = Limits \cup {m}
  BY <1>0, <1>1, <1>2, Called
<1>4. CASE Wrong(c)
  <2>1. outcome' = "thrown" /\ failed' = failed
    BY <1>4 DEF P!Key, P!Throw, Wrong
  <2>2. SpecTypes'
    BY <1>0, <1>2, <1>3, <2>1 DEF SpecTypes
  <2>3. Broken'
    BY <1>3, <1>4 DEF Broken, Wrong
  <2> QED BY <2>1, <2>2, <2>3, NotClosed
<1>5. CASE ~Wrong(c)
  <2>1. /\ failed' = (failed \/ (validate /\ P!OutOfLimits(c, P!Count(c.key))))
        /\ outcome' = "open"
    BY <1>2, <1>5 DEF P!Key, Wrong
  <2>2. SpecTypes'
    <3>1. failed' \in BOOLEAN
      BY <2>1
    <3> QED BY <1>0, <1>2, <1>3, <3>1 DEF SpecTypes
  <2>3. ~Broken'
    <3>1. ~Clash'
      BY <1>0, <1>3 DEF Broken, Clash, Params
    <3>2. ~\E i \in Limits' : Wrong(calls'[i])
      BY <1>0, <1>3, <1>5 DEF Broken, Limits
    <3> QED BY <3>1, <3>2 DEF Broken, Wrong
  <2>4. \A key : Counted(key)' = Counted(key)
    BY <1>0, <1>1, <1>2, CountedNext
  <2>5. Seen(m)' = Counted(c.key)
    <3>1. Seen(m)' = {j \in Counted(c.key) : j < m}
      BY <1>3, <2>4 DEF Seen
    <3>2. \A j \in Counted(c.key) : j < m
      BY <1>3 DEF Counted, Params
    <3> QED BY <3>1, <3>2
  <2>6. \A i \in Limits : Seen(i)' = Seen(i) /\ calls'[i] = calls[i]
    BY <1>3, <2>4 DEF Seen, Limits
  <2>7. P!Count(c.key) = Cardinality(Counted(c.key))
    BY <1>0 DEF WhileOpen
  <2>8. Reasons' <=> Reasons \/ (validate /\ P!OutOfLimits(c, P!Count(c.key)))
    <3>1. \A i \in Limits : P!OutOfLimits(calls[i], Cardinality(Seen(i)))'
                            <=> P!OutOfLimits(calls[i], Cardinality(Seen(i)))
      BY <2>6 DEF P!OutOfLimits
    <3>2. P!OutOfLimits(calls[m], Cardinality(Seen(m)))'
          <=> P!OutOfLimits(c, P!Count(c.key))
      BY <1>3, <2>5, <2>7 DEF P!OutOfLimits
    <3>3. (\E i \in Params' : There(i)' /\ ~Fine(i)')
          <=> \E i \in Params : There(i) /\ ~Fine(i)
      BY <1>3 DEF Params
    <3> QED BY <1>2, <1>3, <3>1, <3>2, <3>3 DEF Reasons
  <2>9. \A key : P!Count(key)' = P!Count(key)
    BY <1>2 DEF P!Count
  <2>10. WhileOpen'
    BY <1>0, <2>1, <2>4, <2>8, <2>9 DEF WhileOpen
  <2> QED BY <2>1, <2>2, <2>3, <2>10, NotClosed
<1> QED BY <1>4, <1>5

-----------------------------------------------------------------------------
(* The chain is closed                                                     *)

\* What is accepted is what fits, when the limits come last.
LEMMA AcceptsWhatFits ==
    ASSUME SpecTypes, validate, ~Clash, P!LimitsLast
    PROVE  ~Reasons /\ DOMAIN pGiven \subseteq {calls[i].name : i \in Params}
           <=> P!Fits
<1> DEFINE Present(i) == {j \in Params : /\ calls[i].key \in calls[j].keys
                                         /\ calls[j].name \in DOMAIN pGiven}
<1>1. \A i \in Limits : Seen(i) = Counted(calls[i].key)
  BY DEF P!LimitsLast, P!Limits, P!Params, Limits, Params, Seen, Counted
<1>2. \A i \in Limits : /\ calls[i].min \in Int /\ calls[i].max \in Int
                        /\ Cardinality(Counted(calls[i].key)) \in Nat
  BY DeclarationsOK, CountedFinite DEF SpecTypes, Limits
<1>3. \A i \in Limits :
         P!OutOfLimits(calls[i], Cardinality(Seen(i))) <=>
            ~(/\ Cardinality(Counted(calls[i].key)) >= calls[i].min
              /\ calls[i].max # -1 =>
                    Cardinality(Counted(calls[i].key)) <= calls[i].max)
  BY <1>1, <1>2 DEF P!OutOfLimits
<1>4. (\A i \in Params : There(i) => Fine(i)) =>
         \A i \in Limits : Counted(calls[i].key) = Present(i)
  BY DEF Counted, There, Fine
<1>5. P!Fits <=>
         /\ \A n \in DOMAIN pGiven : \E i \in Params :
               calls[i].name = n /\ P!Parses(calls[i].type, pGiven[n])
         /\ \A i \in Limits :
               /\ Cardinality(Present(i)) >= calls[i].min
               /\ calls[i].max # -1 => Cardinality(Present(i)) <= calls[i].max
  <2>1. P!Params(calls) = Params /\ P!Limits(calls) = Limits
    BY DEF P!Params, P!Limits, Params, Limits
  <2>2. \A i : Present(i) = {j \in P!Params(calls) :
                               /\ calls[i].key \in calls[j].keys
                               /\ calls[j].name \in DOMAIN pGiven}
    BY <2>1
  <2>c. \A S : P!Cardinality(S) = Cardinality(S)
    BY DEF P!Cardinality, Cardinality
  <2> HIDE DEF Present
  <2>3. P!Fits <=>
           /\ \A n \in DOMAIN pGiven : \E i \in P!Params(calls) :
                 calls[i].name = n /\ P!Parses(calls[i].type, pGiven[n])
           /\ \A i \in P!Limits(calls) :
                 /\ Cardinality(Present(i)) >= calls[i].min
                 /\ calls[i].max # -1 => Cardinality(Present(i)) <= calls[i].max
    BY ONLY <2>2, <2>c DEF P!Fits
  <2> QED BY <2>1, <2>3
<1>6. /\ \A i \in Params : There(i) => Fine(i)
      /\ DOMAIN pGiven \subseteq {calls[i].name : i \in Params}
      <=> \A n \in DOMAIN pGiven : \E i \in Params :
             calls[i].name = n /\ P!Parses(calls[i].type, pGiven[n])
  BY DEF Clash, There, Fine
<1>7. Reasons <=> ~(/\ \A i \in Params : There(i) => Fine(i)
                    /\ \A i \in Limits :
                          ~P!OutOfLimits(calls[i], Cardinality(Seen(i))))
  BY DEF Reasons
<1> HIDE DEF Present
<1>8. CASE \A i \in Params : There(i) => Fine(i)
  <2>1. (\A i \in Limits : ~P!OutOfLimits(calls[i], Cardinality(Seen(i)))) <=>
           \A i \in Limits :
              /\ Cardinality(Present(i)) >= calls[i].min
              /\ calls[i].max # -1 => Cardinality(Present(i)) <= calls[i].max
    BY <1>3, <1>4, <1>8
  <2>2. ~Reasons <=>
           \A i \in Limits :
              /\ Cardinality(Present(i)) >= calls[i].min
              /\ calls[i].max # -1 => Cardinality(Present(i)) <= calls[i].max
    BY ONLY <1>7, <1>8, <2>1
  <2>3. DOMAIN pGiven \subseteq {calls[i].name : i \in Params} <=>
           \A n \in DOMAIN pGiven : \E i \in Params :
              calls[i].name = n /\ P!Parses(calls[i].type, pGiven[n])
    BY ONLY <1>6, <1>8
  <2> QED BY ONLY <1>5, <2>2, <2>3
<1>9. CASE ~\A i \in Params : There(i) => Fine(i)
  <2>1. ~P!Fits
    BY ONLY <1>5, <1>6, <1>9
  <2>2. Reasons
    BY ONLY <1>7, <1>9
  <2> QED BY <2>1, <2>2
<1> QED BY <1>8, <1>9

\* The end of a chain decides as the whole spec says.
LEMMA FailReasonKeeps ==
    ASSUME SpecInv, P!FailReason
    PROVE  SpecInv'
<1>0. /\ SpecTypes /\ WhileOpen /\ ~Broken /\ outcome = "open"
      /\ UNCHANGED <<pGiven, validate, calls, counters>>
  BY DEF SpecInv, P!FailReason, Broken
<1> DEFINE Fails == failed \/ ~(DOMAIN pGiven \subseteq {calls[i].name : i \in Params})
<1>1. /\ failed' = (failed \/ (validate /\ Fails))
      /\ outcome' = IF ~validate THEN "help"
                    ELSE IF Fails THEN "rejected" ELSE "accepted"
  BY DEF P!FailReason, P!Params, Params
<1>2. SpecTypes'
  <2>1. failed' \in BOOLEAN
    BY <1>1
  <2> QED BY <1>0, <2>1 DEF SpecTypes
<1>3. ~Broken'
  BY <1>0 DEF Broken, Clash, Wrong, Params, Limits
<1>4. validate /\ P!LimitsLast => (outcome' = "accepted" <=> P!Fits)
  BY <1>0, <1>1, AcceptsWhatFits DEF WhileOpen, Broken
<1>5. (P!LimitsLast' <=> P!LimitsLast) /\ (P!Fits' <=> P!Fits)
  BY <1>0 DEF P!LimitsLast, P!Fits, P!Params, P!Limits, P!Parses
<1>6. P!AcceptedIffFits'
  BY <1>0, <1>1, <1>3, <1>4, <1>5, BrokenIsIllFormed DEF P!AcceptedIffFits
<1> QED BY <1>0, <1>1, <1>2, <1>3, <1>6 DEF SpecInv, Broken

\* Every step of a chain keeps its invariant.
LEMMA SpecStep ==
    ASSUME SpecInv, P!Next \/ UNCHANGED spec
    PROVE  SpecInv'
<1>1. CASE UNCHANGED spec
  <2>1. UNCHANGED <<pGiven, validate, calls, counters, failed, outcome>>
    BY <1>1 DEF spec
  <2>2. P!AcceptedIffFits'
    <3>1. P!IllFormed' <=> P!IllFormed
      BY <2>1 DEF P!IllFormed, P!Params, P!Limits
    <3>2. P!LimitsLast' <=> P!LimitsLast
      BY <2>1 DEF P!LimitsLast, P!Params, P!Limits
    <3>3. P!Fits' <=> P!Fits
      BY <2>1 DEF P!Fits, P!Params, P!Limits, P!Parses
    <3> QED BY <2>1, <3>1, <3>2, <3>3 DEF SpecInv, P!AcceptedIffFits
  <2>3. WhileOpen' <=> WhileOpen
    BY <2>1 DEF WhileOpen, P!Count, Counted, Params, Limits, Fine, There, P!Parses,
                Reasons, Seen, P!OutOfLimits
  <2> QED BY <2>1, <2>2, <2>3
          DEF SpecInv, SpecTypes, Clash, Wrong, Params, Limits
<1>2. CASE P!Next
  BY <1>2, ParamKeeps, KeyKeeps, FailReasonKeeps DEF P!Next
<1> QED BY <1>1, <1>2

-----------------------------------------------------------------------------
(* The whole                                                               *)

\* The inductive invariant of a chain of calls: the counters count, and the
\* chain has failed exactly for the reasons it has met so far.
THEOREM ChainInvariant == Safety => []SpecInv
<1>1. Init => SpecInv
  BY SpecInit DEF Init
<1>2. SpecInv /\ [Next]_vars => SpecInv'
  BY SpecStep DEF Next, vars
<1> QED BY <1>1, <1>2, PTL DEF Safety

\* A request is accepted exactly when its parameters are what the whole spec
\* says, and a spec throws exactly when it is ill-formed (request.h:119-179).
THEOREM AcceptsExactlyWhatFits == Safety => []AcceptedIffFits
<1>1. SpecInv => AcceptedIffFits
  BY DEF SpecInv, AcceptedIffFits
<1> QED BY <1>1, ChainInvariant, PTL

-----------------------------------------------------------------------------
(* Sums                                                                    *)

OneAndRest(f, g, s) == f[CHOOSE x \in s : TRUE] + g[s \ {CHOOSE x \in s : TRUE}]
IsPartial(f, g) ==
    g = [s \in SUBSET DOMAIN f |-> IF s = {} THEN 0 ELSE OneAndRest(f, g, s)]
Partial(f) == CHOOSE g : IsPartial(f, g)

\* Total is the sum that FoldFunction builds from one element and the rest.
LEMMA TotalIs == \A f : W!Total(f) = Partial(f)[DOMAIN f]
BY DEF W!Total, W!FoldFunction, W!FoldFunctionOnSet, W!MapThenFoldSet,
       Partial, IsPartial, OneAndRest

\* There is such a function: by induction on the size of the subsets it is of.
LEMMA PartialIs ==
    ASSUME NEW f, IsFiniteSet(DOMAIN f)
    PROVE  IsPartial(f, Partial(f))
<1> DEFINE S == DOMAIN f
           Upto(n) == {s \in SUBSET S : Cardinality(s) <= n}
           Is(n, g) == g = [s \in Upto(n) |-> IF s = {} THEN 0 ELSE OneAndRest(f, g, s)]
           N == {n \in Nat : \E g : Is(n, g)}
<1>1. \A s \in SUBSET S : IsFiniteSet(s) /\ Cardinality(s) \in Nat
  BY FS_Subset, FS_CardinalityType
<1>2. 0 \in N
  <2>1. Upto(0) = {{}}
    BY <1>1, FS_EmptySet
  <2>2. Is(0, [s \in Upto(0) |-> 0])
    BY <2>1
  <2> QED BY <2>2
<1>3. ASSUME NEW n \in Nat, n \in N PROVE n + 1 \in N
  <2>1. PICK g : Is(n, g)
    BY <1>3
  <2> DEFINE h == [s \in Upto(n + 1) |->
                      IF s \in Upto(n) THEN g[s] ELSE OneAndRest(f, g, s)]
  <2>2. ASSUME NEW s \in Upto(n + 1), s # {}
        PROVE  LET t == s \ {CHOOSE x \in s : TRUE} IN t \in Upto(n) /\ h[t] = g[t]
    <3> DEFINE x == CHOOSE x \in s : TRUE
    <3>1. x \in s
      BY <2>2
    <3>2. s \ {x} \in SUBSET S /\ Cardinality(s \ {x}) = Cardinality(s) - 1
      BY <1>1, <3>1, FS_RemoveElement
    <3>3. s \ {x} \in Upto(n) /\ s \ {x} \in Upto(n + 1)
      BY <1>1, <3>2
    <3> QED BY <3>3
  <2>3. \A s \in Upto(n + 1) : s # {} => OneAndRest(f, h, s) = OneAndRest(f, g, s)
    BY <2>2 DEF OneAndRest
  <2>4. \A s \in Upto(n) : g[s] = IF s = {} THEN 0 ELSE OneAndRest(f, g, s)
    BY <2>1
  <2>5. {} \in Upto(n)
    BY FS_EmptySet
  <2>6. \A s \in Upto(n + 1) : h[s] = IF s = {} THEN 0 ELSE OneAndRest(f, h, s)
    BY <2>3, <2>4, <2>5
  <2>7. Is(n + 1, h)
    BY <2>6
  <2>8. \E k : Is(n + 1, k)
    <3> HIDE DEF Is
    <3> QED BY <2>7
  <2> HIDE DEF Is
  <2> QED BY <2>8
<1>4. \A n \in Nat : n \in N
  <2> HIDE DEF N
  <2> QED BY <1>2, <1>3, NatSets
<1>5. PICK g : Is(Cardinality(S), g)
  BY <1>1, <1>4
<1>6. Upto(Cardinality(S)) = SUBSET S
  BY <1>1, FS_Subset
<1>7. IsPartial(f, g)
  BY <1>5, <1>6 DEF IsPartial
<1> QED BY <1>7 DEF Partial

\* A function of integers on a finite set.
Ints(f, S) == IsFiniteSet(S) /\ DOMAIN f = S /\ \A x \in S : f[x] \in Int

\* p is the sum over any subset of S, whatever is taken first.
Sums(f, p, S) ==
    /\ p[{}] = 0
    /\ \A s \in SUBSET S : p[s] \in Int
    /\ \A s \in SUBSET S : \A y \in s : p[s] = f[y] + p[s \ {y}]

\* The sum does not depend on the element that CHOOSE takes first: by induction
\* on the subset, for two elements are taken in either order.
LEMMA PartialSums ==
    ASSUME NEW S, NEW f, Ints(f, S)
    PROVE  Sums(f, Partial(f), S)
<1> DEFINE p == Partial(f)
           Q == {s \in SUBSET S :
                    /\ p[s] \in Int
                    /\ \A y \in s : p[s \ {y}] \in Int /\ p[s] = f[y] + p[s \ {y}]}
<1>1. \A s \in SUBSET S : p[s] = IF s = {} THEN 0 ELSE OneAndRest(f, p, s)
  BY PartialIs DEF IsPartial, Ints
<1> HIDE DEF p
<1>2. ASSUME NEW s \in SUBSET S, \A x \in s : s \ {x} \in Q
      PROVE  s \in Q
  <2>1. CASE s = {}
    BY <1>1, <2>1
  <2>2. CASE s # {}
    <3> DEFINE x == CHOOSE x \in s : TRUE
    <3>1. x \in s
      BY <2>2
    <3>2. p[s] = f[x] + p[s \ {x}]
      BY <1>1, <2>2 DEF OneAndRest
    <3> HIDE DEF x
    <3>3. \A z \in s : p[s \ {z}] \in Int /\ f[z] \in Int
      BY <1>2 DEF Ints
    <3>4. p[s] \in Int
      <4>1. p[s \ {x}] \in Int /\ f[x] \in Int
        BY <3>1, <3>3
      <4> QED BY ONLY <3>2, <4>1
    <3>5. ASSUME NEW y \in s, y # x PROVE p[s] = f[y] + p[s \ {y}]
      <4>1. (s \ {x}) \ {y} = (s \ {y}) \ {x} /\ y \in s \ {x} /\ x \in s \ {y}
        BY <3>1, <3>5
      <4>2. p[s \ {x}] = f[y] + p[(s \ {x}) \ {y}] /\ p[(s \ {x}) \ {y}] \in Int
        BY <1>2, <3>1, <4>1
      <4>3. p[s \ {y}] = f[x] + p[(s \ {y}) \ {x}]
        BY <1>2, <3>1, <4>1
      <4>4. p[s \ {y}] = f[x] + p[(s \ {x}) \ {y}]
        BY <4>1, <4>3
      <4>5. f[x] \in Int /\ f[y] \in Int
        BY <3>1, <3>3
      <4> QED BY ONLY <3>2, <4>2, <4>4, <4>5
    <3> QED BY <3>2, <3>3, <3>4, <3>5
  <2> QED BY <2>1, <2>2
<1>3. \A s \in SUBSET S : s \in Q
  <2> HIDE DEF Q
  <2> QED BY <1>2, SubsetSets DEF Ints
<1>4. p[{}] = 0
  BY <1>1
<1> QED BY <1>3, <1>4 DEF p, Sums
-----------------------------------------------------------------------------
\* What sums have to do with one element.
StepOf(f, p, s, y) == /\ p[s] = f[y] + p[s \ {y}]
                      /\ p[s \ {y}] \in Int /\ f[y] \in Int

\* A sum is the sum without an element, and the element.
LEMMA SumsStep ==
    ASSUME NEW S, NEW f, NEW p, Ints(f, S), Sums(f, p, S),
           NEW s \in SUBSET S, NEW y \in s
    PROVE  StepOf(f, p, s, y)
<1>1. s \ {y} \in SUBSET S /\ y \in S
  OBVIOUS
<1> QED BY <1>1 DEF Sums, Ints, StepOf

\* Sums of sums.
LEMMA SumsAdd ==
    ASSUME NEW S, NEW f, NEW g, NEW h, NEW p, NEW q, NEW r,
           Ints(f, S), Ints(g, S), Ints(h, S),
           Sums(f, p, S), Sums(g, q, S), Sums(h, r, S),
           \A x \in S : h[x] = f[x] + g[x]
    PROVE  \A s \in SUBSET S : r[s] = p[s] + q[s]
<1> DEFINE Q == {s \in SUBSET S : r[s] = p[s] + q[s]}
<1>1. ASSUME NEW s \in SUBSET S, \A x \in s : s \ {x} \in Q
      PROVE  s \in Q
  <2>1. CASE s = {}
    BY <2>1 DEF Sums
  <2>2. CASE s # {}
    <3>1. PICK x \in s : TRUE
      BY <2>2
    <3>2. StepOf(f, p, s, x) /\ StepOf(g, q, s, x) /\ StepOf(h, r, s, x)
      <4>1. x \in s
        BY <3>1
      <4> QED BY <4>1, SumsStep
    <3>3. r[s \ {x}] = p[s \ {x}] + q[s \ {x}] /\ h[x] = f[x] + g[x]
      BY <1>1, <3>1
    <3> QED BY <3>2, <3>3 DEF StepOf
  <2> QED BY <2>1, <2>2
<1>2. \A s \in SUBSET S : s \in Q
  <2> HIDE DEF Q
  <2> QED BY <1>1, SubsetSets DEF Ints
<1> QED BY <1>2

\* A sum of numbers that are not negative is not, and is 0 when they all are.
LEMMA SumsNat ==
    ASSUME NEW S, NEW f, NEW p, Ints(f, S), Sums(f, p, S),
           \A x \in S : f[x] >= 0
    PROVE  \A s \in SUBSET S :
              p[s] >= 0 /\ (p[s] = 0 <=> \A x \in s : f[x] = 0)
<1> DEFINE Q == {s \in SUBSET S :
                    p[s] >= 0 /\ (p[s] = 0 <=> \A x \in s : f[x] = 0)}
<1>1. ASSUME NEW s \in SUBSET S, \A x \in s : s \ {x} \in Q
      PROVE  s \in Q
  <2>1. CASE s = {}
    BY <2>1 DEF Sums
  <2>2. CASE s # {}
    <3>1. PICK x \in s : TRUE
      BY <2>2
    <3>2. p[s] = f[x] + p[s \ {x}] /\ p[s \ {x}] \in Int /\ f[x] \in Int
      <4>1. x \in s
        BY <3>1
      <4>2. StepOf(f, p, s, x)
        BY <4>1, SumsStep
      <4> QED BY <4>2 DEF StepOf
    <3>3. /\ f[x] >= 0 /\ p[s \ {x}] >= 0
          /\ p[s \ {x}] = 0 <=> \A y \in s \ {x} : f[y] = 0
      BY <1>1
    <3>4. p[s] >= 0 /\ (p[s] = 0 <=> f[x] = 0 /\ p[s \ {x}] = 0)
      BY <3>2, <3>3
    <3> QED BY <3>3, <3>4
  <2> QED BY <2>1, <2>2
<1>2. \A s \in SUBSET S : s \in Q
  <2> HIDE DEF Q
  <2> QED BY <1>1, SubsetSets DEF Ints
<1> QED BY <1>2

\* Functions that agree but on c have the same sums without c.
LEMMA SumsAgree ==
    ASSUME NEW S, NEW f, NEW g, NEW p, NEW q, NEW c,
           Ints(f, S), Ints(g, S), Sums(f, p, S), Sums(g, q, S),
           \A x \in S \ {c} : f[x] = g[x]
    PROVE  \A s \in SUBSET S : c \notin s => p[s] = q[s]
<1> DEFINE Q == {s \in SUBSET S : c \notin s => p[s] = q[s]}
<1>1. ASSUME NEW s \in SUBSET S, \A x \in s : s \ {x} \in Q
      PROVE  s \in Q
  <2>1. CASE s = {}
    BY <2>1 DEF Sums
  <2>2. CASE s # {} /\ c \notin s
    <3>1. PICK x \in s : TRUE
      BY <2>2
    <3>2. StepOf(f, p, s, x) /\ StepOf(g, q, s, x)
      <4>1. x \in s
        BY <3>1
      <4> QED BY <4>1, SumsStep
    <3>3. p[s \ {x}] = q[s \ {x}] /\ f[x] = g[x]
      BY <1>1, <2>2, <3>1
    <3> QED BY <3>2, <3>3 DEF StepOf
  <2> QED BY <2>1, <2>2
<1>2. \A s \in SUBSET S : s \in Q
  <2> HIDE DEF Q
  <2> QED BY <1>1, SubsetSets DEF Ints
<1> QED BY <1>2

-----------------------------------------------------------------------------
\* The same of Total.
LEMMA TotalInt ==
    ASSUME NEW S, NEW f, Ints(f, S)
    PROVE  W!Total(f) = Partial(f)[S] /\ W!Total(f) \in Int
<1>1. Sums(f, Partial(f), S) /\ S \in SUBSET S /\ DOMAIN f = S
  BY PartialSums DEF Ints
<1> QED BY <1>1, TotalIs DEF Sums

\* The total of sums is the sum of the totals.
LEMMA TotalAdd ==
    ASSUME NEW S, NEW f, NEW g, NEW h, Ints(f, S), Ints(g, S), Ints(h, S),
           \A x \in S : h[x] = f[x] + g[x]
    PROVE  W!Total(h) = W!Total(f) + W!Total(g)
<1>1. Sums(f, Partial(f), S) /\ Sums(g, Partial(g), S) /\ Sums(h, Partial(h), S)
  BY PartialSums
<1>2. Partial(h)[S] = Partial(f)[S] + Partial(g)[S]
  BY <1>1, SumsAdd
<1> QED BY <1>2, TotalInt

\* The total of what is not negative is not, and is 0 when it all is.
LEMMA TotalNat ==
    ASSUME NEW S, NEW f, Ints(f, S), \A x \in S : f[x] >= 0
    PROVE  /\ W!Total(f) >= 0
           /\ W!Total(f) = 0 <=> \A x \in S : f[x] = 0
<1>1. Sums(f, Partial(f), S) /\ S \in SUBSET S
  BY PartialSums
<1> QED BY <1>1, SumsNat, TotalInt

\* What changes at c changes the total by as much.
LEMMA TotalUpdate ==
    ASSUME NEW S, NEW f, NEW g, Ints(f, S), Ints(g, S), NEW c \in S,
           \A x \in S \ {c} : f[x] = g[x]
    PROVE  W!Total(g) = W!Total(f) + (g[c] - f[c])
<1>1. Sums(f, Partial(f), S) /\ Sums(g, Partial(g), S)
  BY PartialSums
<1>2. S \ {c} \in SUBSET S /\ S \in SUBSET S
  OBVIOUS
<1>3. Partial(f)[S \ {c}] = Partial(g)[S \ {c}]
  BY <1>1, <1>2, SumsAgree
<1>4. StepOf(f, Partial(f), S, c) /\ StepOf(g, Partial(g), S, c)
  BY <1>1, <1>2, SumsStep
<1>5. W!Total(f) = Partial(f)[S] /\ W!Total(g) = Partial(g)[S]
  BY TotalInt
<1> QED BY <1>3, <1>4, <1>5 DEF StepOf

-----------------------------------------------------------------------------
(* Passwords                                                               *)

Uppers == [c \in Classes |-> W!Upper(c)]
Lowers == [c \in Classes |-> W!Lower(c)]
AreZero(f) == \A c \in Classes : f[c] = 0

PasswordTypes ==
    /\ wGiven \in [Classes -> W!Limits] /\ length \in Int
    /\ min \in [Classes -> Int] /\ max \in [Classes -> Int]
    /\ pool \in [Classes -> Nat] /\ password \in [Classes -> Nat]

\* What is drawn, placed and left of the limits of a class is its maximum; a
\* limit that was not negative does not become so.
LimitsCount ==
    \A c \in Classes :
        /\ pool[c] + password[c] + min[c] + max[c] = Uppers[c]
        /\ max[c] <= Uppers[c] - Lowers[c]
        /\ W!NoNegative => min[c] >= 0 /\ max[c] >= 0

\* The minimums are all drawn when as many characters are drawn as they ask for.
MinimumsFirst ==
    /\ W!FromMin => \A c \in Classes : pool[c] + min[c] = Lowers[c]
    /\ ~W!FromMin /\ W!NoNegative => AreZero(min)

PasswordInv ==
    /\ PasswordTypes
    /\ wStage = "limits" => AreZero(pool) /\ AreZero(password)
    /\ wStage # "limits" => LimitsCount
    /\ wStage \notin {"limits", "failed"} => length >= 0
    /\ wStage = "drawing" =>
          AreZero(password) /\ W!Total(pool) <= length /\ MinimumsFirst
    /\ wStage \in {"shuffling", "done"} =>
          /\ W!Total(pool) + W!Total(password) = length
          /\ W!NoNegative /\ W!Minlens <= length => AreZero(min)
    /\ wStage = "done" => W!Total(pool) = 0
    /\ wStage = "killed" /\ W!NoNegative => W!Total(Uppers) < length

\* Limits are integers, and a minimum is not above its maximum.
LEMMA LimitsAre ==
    ASSUME PasswordTypes, NEW c \in Classes
    PROVE  /\ Uppers[c] \in Int /\ Lowers[c] \in Int /\ Lowers[c] <= Uppers[c]
           /\ W!Upper(c) = Uppers[c] /\ W!Lower(c) = Lowers[c]
<1>1. W!Upper(c) \in Int
  BY PasswordOK DEF PasswordTypes, W!Limits, W!Upper, W!Default
<1> DEFINE d == W!Default(wGiven[c].min, 1)
<1>2. d \in Int
  <2>1. wGiven[c].min \in Bounds \cup {Absent}
    BY DEF PasswordTypes, W!Limits
  <2>2. d = 1 \/ (d = wGiven[c].min /\ wGiven[c].min # Absent)
    BY DEF W!Default
  <2>3. wGiven[c].min # Absent => wGiven[c].min \in Int
    BY <2>1, PasswordOK
  <2>4. 1 \in Int
    OBVIOUS
  <2> HIDE DEF d
  <2> QED BY ONLY <2>2, <2>3, <2>4, Zenon
<1>3. W!Lower(c) = W!Min({d, W!Upper(c)})
  BY DEF W!Lower
<1> HIDE DEF d
<1>4. \A a, b \in Int : W!Min({a, b}) \in Int /\ W!Min({a, b}) <= b
  BY DEF W!Min
<1> QED BY <1>1, <1>2, <1>3, <1>4 DEF Uppers, Lowers

\* The lemmas about Total apply to all that the generator counts.
LEMMA AllInts ==
    ASSUME PasswordTypes
    PROVE  /\ Ints(min, Classes) /\ Ints(max, Classes)
           /\ Ints(pool, Classes) /\ Ints(password, Classes)
           /\ Ints(Uppers, Classes) /\ Ints(Lowers, Classes)
BY PasswordOK, LimitsAre DEF PasswordTypes, Ints, Uppers, Lowers

\* The same after a step.
LEMMA AllIntsNext ==
    ASSUME PasswordTypes'
    PROVE  /\ Ints(min', Classes) /\ Ints(max', Classes)
           /\ Ints(pool', Classes) /\ Ints(password', Classes)
BY PasswordOK DEF PasswordTypes, Ints

\* Total is the same function after a step.
LEMMA TotalsNext ==
    /\ W!Total(pool)' = W!Total(pool') /\ W!Total(password)' = W!Total(password')
BY DEF W!Total, W!FoldFunction, W!FoldFunctionOnSet, W!MapThenFoldSet

\* The parameters of the request do not change, and what depends on them only.
LEMMA ParametersStay ==
    ASSUME UNCHANGED <<wGiven, length>>
    PROVE  /\ Uppers' = Uppers /\ Lowers' = Lowers /\ W!Minlens' = W!Minlens
           /\ W!NoNegative' <=> W!NoNegative
<1>1. \A c : W!Upper(c)' = W!Upper(c) /\ W!Lower(c)' = W!Lower(c)
  BY DEF W!Upper, W!Lower
<1> QED BY <1>1 DEF Uppers, Lowers, W!Minlens, W!NoNegative

\* Minlens is the total of the minimums.
LEMMA MinlensIs == W!Minlens = W!Total(Lowers)
BY DEF W!Minlens, Lowers

-----------------------------------------------------------------------------
\* Nothing is drawn yet.
LEMMA PasswordInit == W!Init => PasswordInv
<1> SUFFICES ASSUME W!Init PROVE PasswordInv
  OBVIOUS
<1>1. wGiven \in [Classes -> W!Limits] /\ length \in Int /\ wStage = "limits"
  BY PasswordOK DEF W!Init
<1>2. /\ min = [c \in Classes |-> 0] /\ max = [c \in Classes |-> 0]
      /\ pool = [c \in Classes |-> 0] /\ password = [c \in Classes |-> 0]
  BY DEF W!Init, W!Zero
<1>3. PasswordTypes
  BY <1>1, <1>2 DEF PasswordTypes
<1> QED BY <1>1, <1>2, <1>3 DEF PasswordInv, AreZero

\* With nothing drawn the minimums are what they were; they are all drawn only
\* when they are all 0.
LEMMA GetLimitsKeeps ==
    ASSUME PasswordInv, W!GetLimits
    PROVE  PasswordInv'
<1>0. /\ wStage = "limits" /\ PasswordTypes /\ AreZero(pool) /\ AreZero(password)
      /\ UNCHANGED <<wGiven, length, pool, password>>
      /\ wStage' = IF length < 0 THEN "failed" ELSE "drawing"
  BY DEF W!GetLimits, PasswordInv
<1>1. \A c \in Classes :
         /\ Uppers[c] \in Int /\ Lowers[c] \in Int /\ Lowers[c] <= Uppers[c]
         /\ W!Upper(c) = Uppers[c] /\ W!Lower(c) = Lowers[c]
  BY <1>0, LimitsAre
<1>2. /\ min' = [c \in Classes |-> Lowers[c]]
      /\ max' = [c \in Classes |-> Uppers[c] - Lowers[c]]
  BY <1>1 DEF W!GetLimits
<1>3. PasswordTypes'
  BY <1>0, <1>1, <1>2 DEF PasswordTypes
<1>4. /\ Uppers' = Uppers /\ Lowers' = Lowers /\ W!Minlens' = W!Minlens
      /\ W!NoNegative' <=> W!NoNegative
  BY <1>0, ParametersStay
<1>5. LimitsCount'
  <2> SUFFICES ASSUME NEW c \in Classes
               PROVE  /\ pool'[c] + password'[c] + min'[c] + max'[c] = Uppers[c]
                      /\ max'[c] <= Uppers[c] - Lowers[c]
                      /\ W!NoNegative => min'[c] >= 0 /\ max'[c] >= 0
    BY <1>4 DEF LimitsCount
  <2>1. pool'[c] = 0 /\ password'[c] = 0
    BY <1>0 DEF AreZero
  <2>2. W!NoNegative => Lowers[c] >= 0
    BY <1>1 DEF W!NoNegative
  <2>3. min'[c] = Lowers[c] /\ max'[c] = Uppers[c] - Lowers[c]
    BY <1>2
  <2> QED BY <1>1, <2>1, <2>2, <2>3
<1>6. ASSUME length >= 0
      PROVE  W!Total(pool') <= length /\ MinimumsFirst'
  <2>1. W!Total(pool) = 0
    <3>1. \A c \in Classes : pool[c] >= 0 /\ pool[c] = 0
      BY <1>0 DEF AreZero
    <3> QED BY <1>0, <3>1, AllInts, TotalNat
  <2>2. \A c \in Classes : pool'[c] + min'[c] = Lowers[c]
    BY <1>0, <1>1, <1>2 DEF AreZero
  <2>3. ASSUME ~W!FromMin', W!NoNegative PROVE AreZero(min')
    <3>1. ~(0 < W!Total(Lowers))
      BY <1>0, <1>4, <2>1, <2>3, TotalsNext, MinlensIs DEF W!FromMin
    <3>2. \A c \in Classes : Lowers[c] >= 0
      BY <1>1, <2>3 DEF W!NoNegative
    <3>3. W!Total(Lowers) \in Int /\ W!Total(Lowers) >= 0
      BY <1>0, <3>2, AllInts, TotalInt, TotalNat
    <3>4. \A c \in Classes : Lowers[c] = 0
      BY <1>0, <3>1, <3>2, <3>3, AllInts, TotalNat
    <3> QED BY <1>2, <3>4 DEF AreZero
  <2>4. W!Total(pool') = 0
    BY <1>0, <2>1
  <2>5. MinimumsFirst'
    BY <1>4, <2>2, <2>3 DEF MinimumsFirst, AreZero
  <2> QED BY <1>6, <2>4, <2>5, <1>0 DEF PasswordTypes
<1>7. AreZero(password')
  BY <1>0
<1> QED BY <1>0, <1>3, <1>5, <1>6, <1>7, TotalsNext
        DEF PasswordInv, AreZero, PasswordTypes

-----------------------------------------------------------------------------
\* The draw that makes the minimums full leaves 0 of each of them, for what is
\* drawn and what is left add up to the minimums.
LEMMA IterateKeeps ==
    ASSUME PasswordInv, NEW c \in Classes, W!Iterate(c)
    PROVE  PasswordInv'
<1> DEFINE limit == IF W!FromMin THEN min ELSE max
<1>0. /\ wStage = "drawing" /\ wStage' = wStage /\ PasswordTypes /\ LimitsCount
      /\ AreZero(password) /\ MinimumsFirst /\ W!Total(pool) < length
      /\ length >= 0 /\ length \in Int
      /\ UNCHANGED <<wGiven, length, password>>
      /\ limit[c] # 0
      /\ pool' = [pool EXCEPT ![c] = @ + 1]
      /\ IF W!FromMin
         THEN min' = [min EXCEPT ![c] = @ - 1] /\ max' = max
         ELSE max' = [max EXCEPT ![c] = @ - 1] /\ min' = min
  BY DEF W!Iterate, PasswordInv, W!Drawable, PasswordTypes
<1>1. /\ \A k \in Classes : pool'[k] = IF k = c THEN pool[k] + 1 ELSE pool[k]
      /\ \A k \in Classes : min'[k] = IF k = c /\ W!FromMin
                                      THEN min[k] - 1 ELSE min[k]
      /\ \A k \in Classes : max'[k] = IF k = c /\ ~W!FromMin
                                      THEN max[k] - 1 ELSE max[k]
  BY <1>0 DEF PasswordTypes
<1>2. /\ \A k \in Classes : /\ pool[k] \in Nat /\ password[k] \in Nat
                            /\ min[k] \in Int /\ max[k] \in Int
                            /\ Uppers[k] \in Int /\ Lowers[k] \in Int
                            /\ Lowers[k] <= Uppers[k]
  BY <1>0, LimitsAre DEF PasswordTypes
<1>3. PasswordTypes'
  BY <1>0 DEF PasswordTypes
<1>4. /\ Uppers' = Uppers /\ Lowers' = Lowers /\ W!Minlens' = W!Minlens
      /\ W!NoNegative' <=> W!NoNegative
  BY <1>0, ParametersStay
<1>5. LimitsCount'
  <2> SUFFICES ASSUME NEW k \in Classes
               PROVE  /\ pool'[k] + password'[k] + min'[k] + max'[k] = Uppers[k]
                      /\ max'[k] <= Uppers[k] - Lowers[k]
                      /\ W!NoNegative => min'[k] >= 0 /\ max'[k] >= 0
    BY <1>4 DEF LimitsCount
  <2>1. /\ pool[k] + password[k] + min[k] + max[k] = Uppers[k]
        /\ max[k] <= Uppers[k] - Lowers[k]
        /\ W!NoNegative => min[k] >= 0 /\ max[k] >= 0
    BY <1>0 DEF LimitsCount
  <2>2. password'[k] = password[k]
    BY <1>0
  <2>3. k = c => IF W!FromMin THEN min[k] # 0 ELSE max[k] # 0
    BY <1>0
  <2> HIDE DEF limit
  <2> QED BY <1>1, <1>2, <2>1, <2>2, <2>3
<1>6. W!Total(pool') = W!Total(pool) + 1 /\ W!Total(pool) \in Int
  <2>1. Ints(pool, Classes) /\ Ints(pool', Classes)
    BY <1>0, <1>3, AllInts, AllIntsNext
  <2>2. \A k \in Classes \ {c} : pool[k] = pool'[k]
    BY <1>1
  <2>3. W!Total(pool') = W!Total(pool) + (pool'[c] - pool[c])
    BY <2>1, <2>2, TotalUpdate
  <2>4. W!Total(pool) \in Int
    BY <2>1, TotalInt
  <2> QED BY <1>1, <1>2, <2>3, <2>4
<1>7. W!Minlens = W!Total(Lowers) /\ W!Total(Lowers) \in Int
  BY <1>0, MinlensIs, AllInts, TotalInt
<1>8. /\ W!FromMin <=> W!Total(pool) < W!Minlens
      /\ W!FromMin' <=> W!Total(pool') < W!Minlens
  BY <1>4, TotalsNext DEF W!FromMin
<1>9. W!FromMin => \A k \in Classes : pool'[k] + min'[k] = Lowers[k]
  BY <1>0, <1>1, <1>2 DEF MinimumsFirst
<1>10. W!FromMin' => W!FromMin
  BY <1>6, <1>7, <1>8
<1>11. ASSUME ~W!FromMin', W!NoNegative PROVE AreZero(min')
  <2>1. CASE ~W!FromMin
    BY <1>0, <1>11, <2>1 DEF MinimumsFirst
  <2>2. CASE W!FromMin
    <3>1. W!Total(pool') = W!Total(Lowers)
      BY <1>6, <1>7, <1>8, <1>11, <2>2
    <3>2. Ints(min', Classes) /\ Ints(pool', Classes) /\ Ints(Lowers, Classes)
      BY <1>0, <1>3, AllInts, AllIntsNext
    <3>3. \A k \in Classes : Lowers[k] = pool'[k] + min'[k]
      BY <1>9, <2>2
    <3>4. W!Total(Lowers) = W!Total(pool') + W!Total(min')
      BY <3>2, <3>3, TotalAdd
    <3>5. W!Total(min') \in Int /\ W!Total(pool') \in Int
      BY <3>2, TotalInt
    <3>6. W!Total(min') = 0
      BY <3>1, <3>4, <3>5
    <3>7. \A k \in Classes : min'[k] >= 0
      BY <1>4, <1>5, <1>11 DEF LimitsCount
    <3> QED BY <3>2, <3>6, <3>7, TotalNat DEF AreZero
  <2> QED BY <2>1, <2>2
<1>12. MinimumsFirst'
  BY <1>4, <1>9, <1>10, <1>11 DEF MinimumsFirst, AreZero
<1>13. W!Total(pool') <= length
  BY <1>0, <1>6
<1> QED BY <1>0, <1>3, <1>5, <1>12, <1>13, TotalsNext DEF PasswordInv, AreZero

-----------------------------------------------------------------------------
\* A turn that changes the stage only.
LEMMA SameLimits ==
    ASSUME PasswordTypes, UNCHANGED <<wGiven, length, min, max, pool, password>>
    PROVE  /\ PasswordTypes' /\ (LimitsCount' <=> LimitsCount)
           /\ W!Total(pool)' = W!Total(pool)
           /\ W!Total(password)' = W!Total(password)
           /\ W!Minlens' = W!Minlens /\ (W!NoNegative' <=> W!NoNegative)
           /\ Uppers' = Uppers /\ Lowers' = Lowers
<1>1. /\ Uppers' = Uppers /\ Lowers' = Lowers /\ W!Minlens' = W!Minlens
      /\ W!NoNegative' <=> W!NoNegative
  BY ParametersStay
<1>2. W!Total(pool)' = W!Total(pool) /\ W!Total(password)' = W!Total(password)
  BY TotalsNext
<1>3. PasswordTypes' /\ (LimitsCount' <=> LimitsCount)
  BY <1>1 DEF PasswordTypes, LimitsCount
<1> QED BY <1>1, <1>2, <1>3

\* No class can be drawn: then all the minimums are drawn, and all the maximums
\* too, and they were less than the length.
LEMMA IterateNothingKeeps ==
    ASSUME PasswordInv, W!IterateNothing
    PROVE  PasswordInv'
<1>0. /\ wStage = "drawing" /\ wStage' = "killed" /\ PasswordTypes /\ LimitsCount
      /\ AreZero(password) /\ MinimumsFirst /\ W!Total(pool) < length
      /\ length >= 0
      /\ UNCHANGED <<wGiven, length, min, max, pool, password>>
      /\ W!Drawable = {}
  BY DEF W!IterateNothing, PasswordInv
<1>1. /\ PasswordTypes' /\ (LimitsCount' <=> LimitsCount)
      /\ (W!NoNegative' <=> W!NoNegative) /\ Uppers' = Uppers
  BY <1>0, SameLimits
<1>2. ASSUME W!NoNegative PROVE W!Total(Uppers) < length
  <2>1. \A c \in Classes : /\ pool[c] \in Nat /\ min[c] \in Int /\ max[c] \in Int
                           /\ Uppers[c] \in Int /\ Lowers[c] \in Int
    BY <1>0, LimitsAre DEF PasswordTypes
  <2>2. ~W!FromMin
    <3> SUFFICES ASSUME W!FromMin PROVE FALSE
      OBVIOUS
    <3>1. \A c \in Classes : min[c] = 0 /\ pool[c] + min[c] = Lowers[c]
      BY <1>0 DEF W!Drawable, MinimumsFirst
    <3>2. Lowers = pool
      <4>1. \A c \in Classes : Lowers[c] = pool[c]
        BY <2>1, <3>1
      <4>2. Lowers = [c \in Classes |-> Lowers[c]] /\ pool = [c \in Classes |-> pool[c]]
        BY <1>0 DEF Lowers, PasswordTypes
      <4> QED BY <4>1, <4>2
    <3>3. W!Total(pool) < W!Total(pool)
      BY <3>2, MinlensIs DEF W!FromMin
    <3>4. W!Total(pool) \in Int
      BY <1>0, AllInts, TotalInt
    <3> QED BY <3>3, <3>4
  <2>3. \A c \in Classes : min[c] = 0 /\ max[c] = 0 /\ password[c] = 0
    BY <1>0, <1>2, <2>2 DEF W!Drawable, MinimumsFirst, AreZero
  <2>4. \A c \in Classes : pool[c] + password[c] + min[c] + max[c] = Uppers[c]
    BY <1>0 DEF LimitsCount
  <2>5. \A c \in Classes : Uppers[c] = pool[c]
    BY <2>1, <2>3, <2>4
  <2>6. Uppers = [c \in Classes |-> Uppers[c]] /\ pool = [c \in Classes |-> pool[c]]
    BY <1>0 DEF Uppers, PasswordTypes
  <2>7. Uppers = pool
    BY <2>5, <2>6
  <2> QED BY <1>0, <2>7
<1> QED BY <1>0, <1>1, <1>2 DEF PasswordInv

\* The characters drawn are as many as the length.
LEMMA DrawnKeeps ==
    ASSUME PasswordInv, W!Drawn
    PROVE  PasswordInv'
<1>0. /\ wStage = "drawing" /\ wStage' = "shuffling" /\ PasswordTypes /\ LimitsCount
      /\ AreZero(password) /\ MinimumsFirst
      /\ W!Total(pool) <= length /\ W!Total(pool) >= length
      /\ length >= 0 /\ length \in Int
      /\ UNCHANGED <<wGiven, length, min, max, pool, password>>
  BY DEF W!Drawn, PasswordInv, PasswordTypes
<1>1. /\ PasswordTypes' /\ (LimitsCount' <=> LimitsCount)
      /\ W!Total(pool)' = W!Total(pool)
      /\ W!Total(password)' = W!Total(password)
      /\ W!Minlens' = W!Minlens /\ (W!NoNegative' <=> W!NoNegative)
  BY <1>0, SameLimits
<1>2. Ints(pool, Classes) /\ Ints(password, Classes)
  BY <1>0, AllInts
<1>3. W!Total(password) = 0
  <2>1. \A c \in Classes : password[c] = 0 /\ password[c] >= 0
    BY <1>0 DEF AreZero
  <2> QED BY <1>2, <2>1, TotalNat
<1>4. W!Total(pool) \in Int /\ W!Minlens \in Int
  BY <1>0, <1>2, TotalInt, AllInts, MinlensIs
<1>5. W!Total(pool) + W!Total(password) = length
  BY <1>0, <1>3, <1>4
<1>6. W!NoNegative /\ W!Minlens <= length => AreZero(min)
  BY <1>0, <1>4 DEF MinimumsFirst, W!FromMin
<1>7. AreZero(min)' <=> AreZero(min)
  BY <1>0 DEF AreZero
<1> QED BY <1>0, <1>1, <1>5, <1>6, <1>7 DEF PasswordInv

\* All of them are placed, so none is left.
LEMMA FinishKeeps ==
    ASSUME PasswordInv, W!Finish
    PROVE  PasswordInv'
<1>0. /\ wStage = "shuffling" /\ wStage' = "done" /\ PasswordTypes /\ LimitsCount
      /\ W!Total(pool) + W!Total(password) = length
      /\ W!NoNegative /\ W!Minlens <= length => AreZero(min)
      /\ W!Total(password) >= length
      /\ length >= 0 /\ length \in Int
      /\ UNCHANGED <<wGiven, length, min, max, pool, password>>
  BY DEF W!Finish, PasswordInv, PasswordTypes
<1>1. /\ PasswordTypes' /\ (LimitsCount' <=> LimitsCount)
      /\ W!Total(pool)' = W!Total(pool)
      /\ W!Total(password)' = W!Total(password)
      /\ W!Minlens' = W!Minlens /\ (W!NoNegative' <=> W!NoNegative)
  BY <1>0, SameLimits
<1>2. Ints(pool, Classes) /\ Ints(password, Classes)
  BY <1>0, AllInts
<1>3. W!Total(pool) \in Int /\ W!Total(password) \in Int
  BY <1>2, TotalInt
<1>4. W!Total(pool) >= 0
  <2>1. \A c \in Classes : pool[c] >= 0
    BY <1>0 DEF PasswordTypes
  <2> QED BY <1>2, <2>1, TotalNat
<1>5. W!Total(pool) = 0
  BY <1>0, <1>3, <1>4
<1>6. AreZero(min)' <=> AreZero(min)
  BY <1>0 DEF AreZero
<1> QED BY <1>0, <1>1, <1>5, <1>6 DEF PasswordInv

\* A character moves from the pool to the password.
LEMMA ShuffleKeeps ==
    ASSUME PasswordInv, NEW c \in Classes, W!Shuffle(c)
    PROVE  PasswordInv'
<1>0. /\ wStage = "shuffling" /\ wStage' = wStage /\ PasswordTypes /\ LimitsCount
      /\ W!Total(pool) + W!Total(password) = length
      /\ W!NoNegative /\ W!Minlens <= length => AreZero(min)
      /\ length >= 0 /\ length \in Int /\ pool[c] > 0
      /\ UNCHANGED <<wGiven, length, min, max>>
      /\ pool' = [pool EXCEPT ![c] = @ - 1]
      /\ password' = [password EXCEPT ![c] = @ + 1]
  BY DEF W!Shuffle, PasswordInv, PasswordTypes
<1>1. /\ \A k \in Classes : /\ pool[k] \in Nat /\ password[k] \in Nat
                            /\ min[k] \in Int /\ max[k] \in Int
                            /\ Uppers[k] \in Int
      /\ \A k \in Classes : pool'[k] = IF k = c THEN pool[k] - 1 ELSE pool[k]
      /\ \A k \in Classes :
            password'[k] = IF k = c THEN password[k] + 1 ELSE password[k]
  BY <1>0, LimitsAre DEF PasswordTypes
<1>2. PasswordTypes'
  <2>1. pool' \in [Classes -> Nat] /\ password' \in [Classes -> Nat]
    BY <1>0, <1>1 DEF PasswordTypes
  <2> QED BY <1>0, <2>1 DEF PasswordTypes
<1>3. /\ Uppers' = Uppers /\ Lowers' = Lowers /\ W!Minlens' = W!Minlens
      /\ W!NoNegative' <=> W!NoNegative
  BY <1>0, ParametersStay
<1>4. LimitsCount'
  <2> SUFFICES ASSUME NEW k \in Classes
               PROVE  pool'[k] + password'[k] + min'[k] + max'[k] = Uppers[k]
    BY <1>0, <1>3 DEF LimitsCount
  <2>1. pool[k] + password[k] + min[k] + max[k] = Uppers[k]
    BY <1>0 DEF LimitsCount
  <2>2. min'[k] = min[k] /\ max'[k] = max[k]
    BY <1>0
  <2> QED BY <1>1, <2>1, <2>2
<1>5. /\ Ints(pool, Classes) /\ Ints(pool', Classes)
      /\ Ints(password, Classes) /\ Ints(password', Classes)
  BY <1>0, <1>2, AllInts, AllIntsNext
<1>6. W!Total(pool') = W!Total(pool) + (pool'[c] - pool[c])
  <2>1. \A k \in Classes \ {c} : pool[k] = pool'[k]
    BY <1>1
  <2> QED BY <1>5, <2>1, TotalUpdate
<1>7. W!Total(password') = W!Total(password) + (password'[c] - password[c])
  <2>1. \A k \in Classes \ {c} : password[k] = password'[k]
    BY <1>1
  <2> QED BY <1>5, <2>1, TotalUpdate
<1>8. W!Total(pool) \in Int /\ W!Total(password) \in Int
  BY <1>5, TotalInt
<1>9. W!Total(pool') + W!Total(password') = length
  BY <1>0, <1>1, <1>6, <1>7, <1>8
<1>10. AreZero(min)' <=> AreZero(min)
  BY <1>0 DEF AreZero
<1> QED BY <1>0, <1>2, <1>3, <1>4, <1>9, <1>10, TotalsNext DEF PasswordInv

\* Every step of the generator keeps its invariant.
LEMMA PasswordStep ==
    ASSUME PasswordInv, W!Next \/ UNCHANGED generator
    PROVE  PasswordInv'
<1>1. CASE UNCHANGED generator
  <2>0. /\ UNCHANGED <<wGiven, length, min, max, pool, password>>
        /\ wStage' = wStage
    BY <1>1 DEF generator
  <2>1. PasswordTypes
    BY DEF PasswordInv
  <2>2. /\ PasswordTypes' /\ (LimitsCount' <=> LimitsCount)
        /\ W!Total(pool)' = W!Total(pool)
        /\ W!Total(password)' = W!Total(password)
        /\ W!Minlens' = W!Minlens /\ (W!NoNegative' <=> W!NoNegative)
        /\ Uppers' = Uppers /\ Lowers' = Lowers
    BY <2>0, <2>1, SameLimits
  <2>3. /\ AreZero(min)' <=> AreZero(min)
        /\ AreZero(pool)' <=> AreZero(pool)
        /\ AreZero(password)' <=> AreZero(password)
    BY <2>0 DEF AreZero
  <2>4. MinimumsFirst' <=> MinimumsFirst
    BY <2>0, <2>2, <2>3 DEF MinimumsFirst, W!FromMin
  <2> QED BY <2>0, <2>2, <2>3, <2>4 DEF PasswordInv
<1>2. CASE W!Next
  BY <1>2, GetLimitsKeeps, IterateKeeps, IterateNothingKeeps, DrawnKeeps,
     ShuffleKeeps, FinishKeeps DEF W!Next
<1> QED BY <1>1, <1>2

\* The inductive invariant of a password: what is drawn, placed and left of each
\* class is its maximum, and minimums are drawn before anything else.
THEOREM PasswordInvariant == Safety => []PasswordInv
<1>1. Init => PasswordInv
  BY PasswordInit DEF Init
<1>2. PasswordInv /\ [Next]_vars => PasswordInv'
  BY PasswordStep DEF Next, vars
<1> QED BY <1>1, <1>2, PTL DEF Safety

\* A password has its length and keeps its limits, and only limits that leave
\* no password kill the daemon (clipboard.cpp:39-126).
THEOREM PasswordsKeepLimits == Safety => []LimitsKept
<1>1. PasswordInv => LimitsKept
  <2> SUFFICES ASSUME PasswordInv PROVE W!LimitsKept
    BY DEF LimitsKept
  <2>0. PasswordTypes
    BY DEF PasswordInv
  <2>1. ASSUME wStage = "done"
        PROVE  /\ W!Total(password) = length
               /\ W!NoNegative => \A c \in Classes :
                     /\ password[c] <= W!Upper(c)
                     /\ W!Minlens <= length => password[c] >= W!Lower(c)
    <3>1. /\ W!Total(pool) + W!Total(password) = length /\ W!Total(pool) = 0
          /\ W!NoNegative /\ W!Minlens <= length => AreZero(min)
          /\ LimitsCount
      BY <2>1 DEF PasswordInv
    <3>2. Ints(pool, Classes) /\ Ints(password, Classes)
      BY <2>0, AllInts
    <3>3. W!Total(password) \in Int
      BY <3>2, TotalInt
    <3>4. \A c \in Classes : pool[c] >= 0
      BY <2>0 DEF PasswordTypes
    <3>5. \A c \in Classes : pool[c] = 0
      BY <3>1, <3>2, <3>4, TotalNat
    <3>6. ASSUME W!NoNegative, NEW c \in Classes
          PROVE  /\ password[c] <= W!Upper(c)
                 /\ W!Minlens <= length => password[c] >= W!Lower(c)
      <4>1. /\ pool[c] \in Nat /\ password[c] \in Nat
            /\ min[c] \in Int /\ max[c] \in Int
            /\ Uppers[c] \in Int /\ Lowers[c] \in Int
            /\ W!Upper(c) = Uppers[c] /\ W!Lower(c) = Lowers[c]
        BY <2>0, LimitsAre DEF PasswordTypes
      <4>2. /\ pool[c] + password[c] + min[c] + max[c] = Uppers[c]
            /\ max[c] <= Uppers[c] - Lowers[c]
            /\ min[c] >= 0 /\ max[c] >= 0
        BY <3>1, <3>6 DEF LimitsCount
      <4>3. W!Minlens <= length => min[c] = 0
        BY <3>1, <3>6 DEF AreZero
      <4> QED BY <3>5, <4>1, <4>2, <4>3
    <3> QED BY <3>1, <3>3, <3>6
  <2>2. W!Total([c \in Classes |-> W!Upper(c)]) = W!Total(Uppers)
    BY DEF Uppers
  <2>3. wStage = "killed" /\ W!NoNegative => W!Total(Uppers) < length
    BY DEF PasswordInv
  <2>4. wStage = "shuffling" => W!Total(pool) + W!Total(password) = length
    BY DEF PasswordInv
  <2> QED BY <2>1, <2>2, <2>3, <2>4 DEF W!LimitsKept
<1> QED BY <1>1, PasswordInvariant, PTL

-----------------------------------------------------------------------------
(* The logger                                                              *)

LoggerTypes ==
    /\ memory \in BOOLEAN /\ verbosity \in L!Levels
    /\ said \in [Threads -> Seq(L!Levels)]
    /\ at \in [Threads -> 0..2]
    /\ DOMAIN content = L!Targets
    /\ \A k \in L!Targets : content[k] \in Seq(L!Logged)
    /\ DOMAIN logs = 0..LogSize - 1
    /\ index \in 0..LogSize - 1 /\ logCount \in Nat

\* A thread that has a line to write logged it last; what failed is over; the
\* client has one thread.
Writing ==
    /\ \A t \in Threads :
          at[t] # 0 => said[t] # <<>> /\ said[t][Len(said[t])] >= verbosity
    /\ \A t \in Threads, k \in L!Targets, n \in Nat :
          <<k, <<t, n>>>> \in failures =>
             n <= Len(said[t]) /\ (n < Len(said[t]) \/ at[t] = 0 \/ at[t] > k)
    /\ memory => \A t \in Threads : t # Main => said[t] = <<>>

FilesKeep ==
    \A k \in L!Targets : ~L!InMemory(k) =>
        L!Range(content[k]) = L!Due(k) /\ L!InOrder(content[k])

\* The slots that are written, and how they follow each other.
Written == {i \in 0..LogSize - 1 : logCount >= LogSize \/ i < index}
Place(i) == IF i < index THEN i + LogSize ELSE i

RingKeeps ==
    memory =>
        /\ IsFiniteSet(L!Due(2)) /\ logCount = Cardinality(L!Due(2))
        /\ logCount < LogSize => index = logCount
        /\ \A i \in Written : logs[i] \in L!Due(2)
        /\ \A i, j \in Written : Place(i) < Place(j) => logs[i][2] < logs[j][2]
        /\ \A old \in L!Due(2) : \/ \E i \in Written : logs[i] = old
                                 \/ \A i \in Written : old[2] < logs[i][2]

LoggerInv == LoggerTypes /\ Writing /\ FilesKeep /\ RingKeeps

\* A line is due to a target.
IsDue(k, t, n) ==
    /\ n \in DOMAIN said[t] /\ said[t][n] >= verbosity
    /\ n < Len(said[t]) \/ at[t] = 0 \/ at[t] > k
    /\ <<k, <<t, n>>>> \notin failures

\* The targets, the levels and the ring.
LEMMA LoggerConstants ==
    /\ L!Targets = {1, 2} /\ L!Levels = {0, 3} /\ LogSize \in Nat \ {0}
    /\ L!Max(L!Targets) = 2
<1>1. L!Targets = {1, 2}
  BY DEF L!Targets
<1>2. L!Max({1, 2}) = 2
  BY DEF L!Max
<1> QED BY <1>1, <1>2, RingOK DEF L!Levels, L!DEBUG, L!MUSTFIX

\* What a thread has logged.
LEMMA LoggedAre ==
    \A line : line \in L!Logged <=>
        \E t \in Threads : \E n \in DOMAIN said[t] : line = <<t, n>>
BY DEF L!Logged

\* What is due to a target, thread by thread.
LEMMA DueAre ==
    ASSUME LoggerTypes, NEW k
    PROVE  \A line : line \in L!Due(k) <=>
              \E t \in Threads : \E n \in Nat : IsDue(k, t, n) /\ line = <<t, n>>
<1>1. \A t \in Threads : DOMAIN said[t] \in SUBSET Nat
  BY DEF LoggerTypes
<1>2. \A t \in Threads : \A n : <<t, n>> \in L!Due(k) <=> IsDue(k, t, n)
  BY LoggedAre DEF L!Due, IsDue
<1>3. \A line \in L!Due(k) : \E t \in Threads : \E n \in DOMAIN said[t] : line = <<t, n>>
  BY LoggedAre DEF L!Due
<1> QED BY <1>1, <1>2, <1>3 DEF IsDue

\* The same after a step.
LEMMA DueAreNext ==
    ASSUME said' \in [Threads -> Seq(L!Levels)], NEW k
    PROVE  \A line : line \in L!Due(k)' <=>
              \E t \in Threads : \E n \in Nat : IsDue(k, t, n)' /\ line = <<t, n>>
<1>1. \A t \in Threads : DOMAIN said'[t] \in SUBSET Nat
  OBVIOUS
<1>2. \A line : line \in L!Logged' <=>
         \E t \in Threads : \E n \in DOMAIN said'[t] : line = <<t, n>>
  BY DEF L!Logged
<1>3. \A t \in Threads : \A n : <<t, n>> \in L!Due(k)' <=> IsDue(k, t, n)'
  BY <1>2 DEF L!Due, IsDue
<1>4. \A line \in L!Due(k)' :
         \E t \in Threads : \E n \in DOMAIN said'[t] : line = <<t, n>>
  BY <1>2 DEF L!Due
<1> QED BY <1>1, <1>3, <1>4 DEF IsDue

\* A line later than those of its thread goes to the end of a file.
LEMMA Appended ==
    ASSUME NEW S, NEW s \in Seq(S), NEW x \in S,
           L!InOrder(s), \A y \in L!Range(s) : y[1] = x[1] => y[2] < x[2]
    PROVE  /\ L!Range(Append(s, x)) = L!Range(s) \cup {x}
           /\ L!InOrder(Append(s, x))
<1> DEFINE r == Append(s, x)
<1>1. /\ DOMAIN r = DOMAIN s \cup {Len(s) + 1} /\ DOMAIN s = 1..Len(s)
      /\ Len(s) \in Nat
      /\ \A i \in DOMAIN s : r[i] = s[i]
      /\ r[Len(s) + 1] = x
  OBVIOUS
<1> HIDE DEF r
<1>2. L!Range(r) = L!Range(s) \cup {x}
  BY <1>1 DEF L!Range
<1>3. L!InOrder(r)
  <2> SUFFICES ASSUME NEW i \in DOMAIN r, NEW j \in DOMAIN r, i < j, r[i][1] = r[j][1]
               PROVE  r[i][2] < r[j][2]
    BY DEF L!InOrder
  <2>1. CASE j \in DOMAIN s
    <3>1. i \in DOMAIN s
      BY <1>1, <2>1
    <3> QED BY <1>1, <2>1, <3>1 DEF L!InOrder
  <2>2. CASE j = Len(s) + 1
    <3>1. i \in DOMAIN s /\ s[i] \in L!Range(s)
      BY <1>1, <2>2 DEF L!Range
    <3> QED BY <1>1, <2>2, <3>1
  <2> QED BY <1>1, <2>1, <2>2
<1> QED BY <1>2, <1>3 DEF r

-----------------------------------------------------------------------------
\* A call of log makes no line due: its own has all targets to go to.
LEMMA LogDue ==
    ASSUME LoggerTypes, Writing, NEW t \in Threads, NEW level \in L!Levels,
           L!Log(t, level)
    PROVE  /\ \A k \in L!Targets : L!Due(k)' = L!Due(k)
           /\ L!Logged \subseteq L!Logged'
           /\ said' \in [Threads -> Seq(L!Levels)] /\ at' \in [Threads -> 0..2]
           /\ Writing'
<1>0. /\ at[t] = 0
      /\ memory => t = Main
      /\ said' = [said EXCEPT ![t] = Append(@, level)]
      /\ at' = [at EXCEPT ![t] = IF level < verbosity THEN 0 ELSE 1]
      /\ UNCHANGED <<memory, verbosity, failures>>
  BY DEF L!Log
<1>1. /\ said' \in [Threads -> Seq(L!Levels)] /\ at' \in [Threads -> 0..2]
      /\ \A u \in Threads : said[u] \in Seq(L!Levels) /\ at[u] \in 0..2
      /\ verbosity \in {0, 3} /\ level \in {0, 3}
  BY <1>0, LoggerConstants DEF LoggerTypes
<1>2. /\ \A u \in Threads : u # t => said'[u] = said[u] /\ at'[u] = at[u]
      /\ said'[t] = Append(said[t], level)
      /\ at'[t] = IF level < verbosity THEN 0 ELSE 1
  BY <1>0, <1>1
<1>3. /\ Len(said'[t]) = Len(said[t]) + 1 /\ Len(said[t]) \in Nat
      /\ DOMAIN said[t] = 1..Len(said[t])
      /\ DOMAIN said'[t] = DOMAIN said[t] \cup {Len(said[t]) + 1}
      /\ \A n \in DOMAIN said[t] : said'[t][n] = said[t][n]
      /\ said'[t][Len(said[t]) + 1] = level
  BY <1>1, <1>2
<1>4. \A u \in Threads : DOMAIN said[u] \subseteq DOMAIN said'[u]
  BY <1>2, <1>3
<1>5. L!Logged \subseteq L!Logged'
  BY <1>4 DEF L!Logged
<1>6. Writing'
  <2>1. ASSUME NEW u \in Threads, at'[u] # 0
        PROVE  said'[u] # <<>> /\ said'[u][Len(said'[u])] >= verbosity
    BY <1>1, <1>2, <1>3, <2>1 DEF Writing
  <2>2. ASSUME NEW u \in Threads, NEW k \in L!Targets, NEW n \in Nat,
               <<k, <<u, n>>>> \in failures
        PROVE  n <= Len(said'[u]) /\ (n < Len(said'[u]) \/ at'[u] = 0 \/ at'[u] > k)
    <3>1. n <= Len(said[u]) /\ (n < Len(said[u]) \/ at[u] = 0 \/ at[u] > k)
      BY <2>2 DEF Writing
    <3> QED BY <1>2, <1>3, <3>1
  <2>3. ASSUME memory, NEW u \in Threads, u # Main PROVE said'[u] = <<>>
    BY <1>0, <1>2, <2>3 DEF Writing
  <2> QED BY <1>0, <2>1, <2>2, <2>3 DEF Writing
<1>7. ASSUME NEW k \in L!Targets PROVE L!Due(k)' = L!Due(k)
  <2>0. k \in {1, 2}
    BY LoggerConstants
  <2>1. ASSUME NEW u \in Threads, NEW n \in Nat
        PROVE  IsDue(k, u, n)' <=> IsDue(k, u, n)
    <3>1. CASE u # t
      <4>1. said'[u] = said[u] /\ at'[u] = at[u]
        BY <1>2, <3>1
      <4> QED BY <1>0, <4>1 DEF IsDue
    <3>2. CASE u = t /\ n \in DOMAIN said[t]
      <4>1. n < Len(said'[t]) /\ n \in DOMAIN said'[t] /\ said'[t][n] = said[t][n]
        BY <1>3, <3>2
      <4>2. verbosity' = verbosity /\ failures' = failures /\ at[t] = 0
        BY <1>0
      <4>3. IsDue(k, t, n)' <=> IsDue(k, t, n)
        BY ONLY <3>2, <4>1, <4>2 DEF IsDue
      <4> QED BY <3>2, <4>3
    <3>3. CASE u = t /\ n \notin DOMAIN said[t]
      <4>1. ASSUME n = Len(said[t]) + 1, said'[t][n] >= verbosity PROVE at'[t] = 1
        BY <1>1, <1>2, <1>3, <4>1
      <4>2. ~IsDue(k, u, n)'
        BY <1>0, <1>3, <2>0, <3>3, <4>1 DEF IsDue
      <4>3. ~IsDue(k, u, n)
        BY <3>3 DEF IsDue
      <4> QED BY <4>2, <4>3
    <3> QED BY <3>1, <3>2, <3>3
  <2>2. \A line : line \in L!Due(k)' <=>
           \E u \in Threads : \E n \in Nat : IsDue(k, u, n)' /\ line = <<u, n>>
    BY <1>1, DueAreNext
  <2>3. \A line : line \in L!Due(k) <=>
           \E u \in Threads : \E n \in Nat : IsDue(k, u, n) /\ line = <<u, n>>
    BY DueAre
  <2> QED BY <2>1, <2>2, <2>3
<1> QED BY <1>1, <1>5, <1>6, <1>7

-----------------------------------------------------------------------------
\* _logToTargets goes on: the line is due to the target it was written to.
LEMMA Passed ==
    ASSUME LoggerTypes, Writing, NEW t \in Threads, NEW k \in L!Targets, at[t] = k,
           L!NextTarget(t), UNCHANGED <<memory, verbosity, said>>,
           failures' \in {failures, failures \cup {<<k, L!Line(t)>>}}
    PROVE  /\ at' \in [Threads -> 0..2] /\ L!Logged' = L!Logged
           /\ \A j \in L!Targets :
                 L!Due(j)' = IF j = k /\ failures' = failures
                             THEN L!Due(j) \cup {L!Line(t)} ELSE L!Due(j)
           /\ L!Line(t) \in L!Logged /\ L!Line(t) \notin L!Due(k)
           /\ \A line \in L!Due(k) : line[1] = t => line[2] < L!Line(t)[2]
           /\ <<k, L!Line(t)>> \notin failures
           /\ Writing'
<1> DEFINE m == Len(said[t])
<1>0. /\ k \in {1, 2} /\ at' = [at EXCEPT ![t] = IF @ = 2 THEN 0 ELSE @ + 1]
      /\ L!Line(t) = <<t, m>>
      /\ UNCHANGED <<memory, verbosity, said>>
  BY LoggerConstants DEF L!NextTarget, L!Line
<1>1. /\ at' \in [Threads -> 0..2]
      /\ \A u \in Threads : said[u] \in Seq(L!Levels) /\ at[u] \in 0..2
      /\ \A u \in Threads : u # t => at'[u] = at[u]
      /\ at'[t] = IF k = 2 THEN 0 ELSE 2
  BY <1>0 DEF LoggerTypes
<1>2. /\ m \in Nat /\ m \in DOMAIN said[t] /\ said[t][m] >= verbosity
      /\ \A n \in DOMAIN said[t] : n \in 1..m
  <2>1. said[t] # <<>> /\ said[t][m] >= verbosity
    BY <1>0 DEF Writing
  <2> QED BY <1>1, <2>1
<1>3. <<k, <<t, m>>>> \notin failures
  <2> SUFFICES ASSUME <<k, <<t, m>>>> \in failures PROVE FALSE
    OBVIOUS
  <2>1. m < Len(said[t]) \/ at[t] = 0 \/ at[t] > k
    BY <1>2 DEF Writing
  <2> QED BY <1>0, <1>2, <2>1
<1>4. \A u \in Threads, n \in Nat, j \in {1, 2} :
         <<j, <<u, n>>>> \in failures' <=>
            \/ <<j, <<u, n>>>> \in failures
            \/ failures' # failures /\ j = k /\ u = t /\ n = m
  <2>1. CASE failures' = failures
    BY <2>1
  <2>2. CASE failures' = failures \cup {<<k, <<t, m>>>>}
    <3>1. failures' # failures
      BY <1>3, <2>2
    <3> QED BY <2>2, <3>1
  <2> QED BY <1>0, <2>1, <2>2
<1>5. L!Logged' = L!Logged
  BY <1>0 DEF L!Logged
<1>6. Writing'
  <2>1. ASSUME NEW u \in Threads, at'[u] # 0
        PROVE  said[u] # <<>> /\ said[u][Len(said[u])] >= verbosity
    BY <1>0, <1>1, <2>1 DEF Writing
  <2>2. ASSUME NEW u \in Threads, NEW j \in L!Targets, NEW n \in Nat,
               <<j, <<u, n>>>> \in failures'
        PROVE  n <= Len(said[u]) /\ (n < Len(said[u]) \/ at'[u] = 0 \/ at'[u] > j)
    <3>0. j \in {1, 2}
      BY LoggerConstants
    <3>1. CASE <<j, <<u, n>>>> \in failures
      <4>1. n <= Len(said[u]) /\ (n < Len(said[u]) \/ at[u] = 0 \/ at[u] > j)
        BY <3>1 DEF Writing
      <4>2. CASE u # t
        BY <1>1, <4>1, <4>2
      <4>3. CASE u = t
        BY <1>0, <1>1, <3>0, <4>1, <4>3
      <4> QED BY <4>2, <4>3
    <3>2. CASE j = k /\ u = t /\ n = m
      BY <1>0, <1>1, <1>2, <3>2
    <3> QED BY <1>4, <2>2, <3>0, <3>1, <3>2
  <2>3. memory => \A u \in Threads : u # Main => said[u] = <<>>
    BY DEF Writing
  <2> QED BY <1>0, <2>1, <2>2, <2>3 DEF Writing
<1>7. ASSUME NEW j \in {1, 2}, NEW u \in Threads, NEW n \in Nat
      PROVE  IsDue(j, u, n)' <=> \/ IsDue(j, u, n)
                                 \/ j = k /\ failures' = failures /\ u = t /\ n = m
  <2> DEFINE Kept == n \in DOMAIN said[u] /\ said[u][n] >= verbosity
  <2>1. /\ IsDue(j, u, n)' <=> /\ Kept /\ <<j, <<u, n>>>> \notin failures'
                               /\ n < Len(said[u]) \/ at'[u] = 0 \/ at'[u] > j
        /\ IsDue(j, u, n) <=> /\ Kept /\ <<j, <<u, n>>>> \notin failures
                              /\ n < Len(said[u]) \/ at[u] = 0 \/ at[u] > j
    BY <1>0 DEF IsDue
  <2>2. CASE u # t
    BY <1>1, <1>4, <2>1, <2>2
  <2>3. CASE u = t /\ n # m
    <3>1. Kept => n < m
      BY <1>2, <2>3
    <3> HIDE DEF Kept
    <3> QED BY <1>4, <2>1, <2>3, <3>1
  <2>4. CASE u = t /\ n = m
    <3>1. Kept
      BY <1>2, <2>4
    <3>2. /\ ~(n < Len(said[u])) /\ at[u] = k
          /\ at'[u] = IF k = 2 THEN 0 ELSE 2
      BY <1>1, <1>2, <2>4
    <3>3. <<j, <<u, n>>>> \in failures' <=>
            \/ <<j, <<u, n>>>> \in failures
            \/ failures' # failures /\ j = k
      BY <1>4, <2>4
    <3>4. j = k => <<j, <<u, n>>>> \notin failures
      BY <1>3, <2>4
    <3> HIDE DEF Kept, m
    <3>5. CASE j = k
      BY <1>0, <2>1, <2>4, <3>1, <3>2, <3>3, <3>4, <3>5
    <3>6. CASE j # k
      BY <1>0, <2>1, <2>4, <3>2, <3>3, <3>6
    <3> QED BY <3>5, <3>6
  <2> QED BY <2>2, <2>3, <2>4
<1>8. ASSUME NEW j \in L!Targets
      PROVE  L!Due(j)' = IF j = k /\ failures' = failures
                         THEN L!Due(j) \cup {<<t, m>>} ELSE L!Due(j)
  <2>1. \A line : line \in L!Due(j)' <=>
           \E u \in Threads : \E n \in Nat : IsDue(j, u, n)' /\ line = <<u, n>>
    <3>1. said' \in [Threads -> Seq(L!Levels)]
      BY <1>0 DEF LoggerTypes
    <3> QED BY <3>1, DueAreNext
  <2>2. \A line : line \in L!Due(j) <=>
           \E u \in Threads : \E n \in Nat : IsDue(j, u, n) /\ line = <<u, n>>
    BY DueAre
  <2>3. \A u \in Threads, n \in Nat :
           IsDue(j, u, n)' <=> \/ IsDue(j, u, n)
                               \/ j = k /\ failures' = failures /\ u = t /\ n = m
    BY <1>7, LoggerConstants
  <2>4. m \in Nat
    BY <1>2
  <2> HIDE DEF m
  <2>5. CASE j = k /\ failures' = failures
    BY ONLY <2>1, <2>2, <2>3, <2>4, <2>5
  <2>6. CASE ~(j = k /\ failures' = failures)
    <3>1. \A line : line \in L!Due(j)' <=> line \in L!Due(j)
      BY ONLY <2>1, <2>2, <2>3, <2>6
    <3> QED BY <2>6, <3>1
  <2> QED BY <2>5, <2>6
<1>9. \A n \in Nat : IsDue(k, t, n) => n < m
  BY <1>0, <1>2, LoggerConstants DEF IsDue
<1>10. /\ <<t, m>> \in L!Logged /\ <<t, m>> \notin L!Due(k)
       /\ \A line \in L!Due(k) : line[1] = t => line[2] < m
  <2>1. \A line : line \in L!Due(k) <=>
           \E u \in Threads : \E n \in Nat : IsDue(k, u, n) /\ line = <<u, n>>
    BY DueAre
  <2>2. <<t, m>> \in L!Logged
    BY <1>2, LoggedAre
  <2> HIDE DEF m
  <2> QED BY <1>2, <1>9, <2>1, <2>2
<1> QED BY <1>0, <1>1, <1>3, <1>5, <1>6, <1>8, <1>10

-----------------------------------------------------------------------------
\* A sequence of some elements is one of more elements.
LEMMA SeqGrows ==
    ASSUME NEW S, NEW R, S \subseteq R
    PROVE  \A s \in Seq(S) : s \in Seq(R)
OBVIOUS

\* A step that leaves the ring alone.
LEMMA RingStays ==
    ASSUME RingKeeps, UNCHANGED <<memory, logs, index, logCount>>,
           memory => L!Due(2)' = L!Due(2)
    PROVE  RingKeeps'
<1>1. /\ Written' = Written
      /\ \A i : Place(i)' = Place(i)
  BY DEF Written, Place
<1> QED BY <1>1 DEF RingKeeps

\* A call of log writes nothing yet.
LEMMA LogKeeps ==
    ASSUME LoggerInv, NEW t \in Threads, NEW level \in L!Levels, L!Log(t, level)
    PROVE  LoggerInv'
<1>0. LoggerTypes /\ Writing /\ FilesKeep /\ RingKeeps
  BY DEF LoggerInv
<1>1. UNCHANGED <<memory, verbosity, content, logs, index, logCount, failures>>
  BY DEF L!Log, L!ring
<1>2. /\ \A k \in L!Targets : L!Due(k)' = L!Due(k)
      /\ L!Logged \subseteq L!Logged'
      /\ said' \in [Threads -> Seq(L!Levels)] /\ at' \in [Threads -> 0..2]
      /\ Writing'
  BY <1>0, LogDue
<1>3. LoggerTypes'
  <2>1. \A k \in L!Targets : content'[k] \in Seq(L!Logged')
    BY <1>0, <1>1, <1>2, SeqGrows DEF LoggerTypes
  <2> QED BY <1>0, <1>1, <1>2, <2>1 DEF LoggerTypes
<1>4. FilesKeep'
  BY <1>0, <1>1, <1>2 DEF FilesKeep, L!InMemory
<1>5. RingKeeps'
  BY <1>0, <1>1, <1>2, RingStays, LoggerConstants
<1> QED BY <1>2, <1>3, <1>4, <1>5 DEF LoggerInv

\* The line that becomes due to a descriptor is the one at the end of its file.
LEMMA WriteFDKeeps ==
    ASSUME LoggerInv, NEW t \in Threads, L!WriteFD(t)
    PROVE  LoggerInv'
<1>0. LoggerTypes /\ Writing /\ FilesKeep /\ RingKeeps
  BY DEF LoggerInv
<1>1. PICK k \in L!Targets : at[t] = k
  BY <1>0, LoggerConstants DEF L!WriteFD, LoggerTypes
<1>2. /\ ~L!InMemory(k) /\ L!NextTarget(t)
      /\ content' = [content EXCEPT ![k] = Append(@, L!Line(t))]
      /\ UNCHANGED <<memory, verbosity, logs, index, logCount, said, failures>>
  BY <1>1 DEF L!WriteFD, L!ring
<1> DEFINE line == L!Line(t)
<1>3. /\ at' \in [Threads -> 0..2] /\ L!Logged' = L!Logged
      /\ \A j \in L!Targets :
            L!Due(j)' = IF j = k THEN L!Due(j) \cup {line} ELSE L!Due(j)
      /\ line \in L!Logged /\ line[1] = t
      /\ \A old \in L!Due(k) : old[1] = t => old[2] < line[2]
      /\ Writing'
  <2>1. line[1] = t
    BY DEF L!Line
  <2> HIDE DEF line
  <2> QED BY <1>0, <1>1, <1>2, <2>1, Passed DEF line
<1> HIDE DEF line
<1>4. /\ content[k] \in Seq(L!Logged)
      /\ L!Range(content[k]) = L!Due(k) /\ L!InOrder(content[k])
  BY <1>0, <1>2 DEF FilesKeep, LoggerTypes
<1>5. /\ content'[k] = Append(content[k], line)
      /\ DOMAIN content' = L!Targets
      /\ \A j \in L!Targets : j # k => content'[j] = content[j]
  BY <1>0, <1>2 DEF LoggerTypes, line
<1>6. /\ L!Range(content'[k]) = L!Due(k) \cup {line} /\ L!InOrder(content'[k])
      /\ content'[k] \in Seq(L!Logged)
  <2>1. \A y \in L!Range(content[k]) : y[1] = line[1] => y[2] < line[2]
    BY <1>3, <1>4
  <2>2. /\ L!Range(Append(content[k], line)) = L!Range(content[k]) \cup {line}
        /\ L!InOrder(Append(content[k], line))
    BY <1>3, <1>4, <2>1, Appended
  <2> QED BY <1>3, <1>4, <1>5, <2>2
<1>7. FilesKeep'
  <2> SUFFICES ASSUME NEW j \in L!Targets, ~L!InMemory(j)'
               PROVE  L!Range(content'[j]) = L!Due(j)' /\ L!InOrder(content'[j])
    BY DEF FilesKeep, L!InOrder, L!Range
  <2>1. CASE j = k
    BY <1>3, <1>6, <2>1
  <2>2. CASE j # k
    BY <1>0, <1>2, <1>3, <1>5, <2>2 DEF FilesKeep, L!InMemory
  <2> QED BY <2>1, <2>2
<1>8. RingKeeps'
  <2>1. memory => L!Due(2)' = L!Due(2)
    BY <1>2, <1>3, LoggerConstants DEF L!InMemory
  <2> QED BY <1>0, <1>2, <2>1, RingStays
<1>9. LoggerTypes'
  BY <1>0, <1>2, <1>3, <1>5, <1>6 DEF LoggerTypes
<1> QED BY <1>3, <1>7, <1>8, <1>9 DEF LoggerInv

\* A line that failed does not become due.
LEMMA WriteFailsKeeps ==
    ASSUME LoggerInv, NEW t \in Threads, L!WriteFails(t)
    PROVE  LoggerInv'
<1>0. LoggerTypes /\ Writing /\ FilesKeep /\ RingKeeps
  BY DEF LoggerInv
<1>1. PICK k \in L!Targets : at[t] = k
  BY <1>0, LoggerConstants DEF L!WriteFails, LoggerTypes
<1>2. /\ L!NextTarget(t) /\ failures' = failures \cup {<<k, L!Line(t)>>}
      /\ UNCHANGED <<memory, verbosity, content, logs, index, logCount, said>>
  BY <1>1 DEF L!WriteFails, L!ring
<1>3. /\ at' \in [Threads -> 0..2] /\ L!Logged' = L!Logged
      /\ \A j \in L!Targets :
            L!Due(j)' = IF j = k /\ failures' = failures
                        THEN L!Due(j) \cup {L!Line(t)} ELSE L!Due(j)
      /\ <<k, L!Line(t)>> \notin failures
      /\ Writing'
  BY <1>0, <1>1, <1>2, Passed
<1>4. failures' # failures
  BY <1>2, <1>3
<1>5. \A j \in L!Targets : L!Due(j)' = L!Due(j)
  BY <1>3, <1>4
<1>6. FilesKeep'
  BY <1>0, <1>2, <1>5 DEF FilesKeep, L!InMemory
<1>7. RingKeeps'
  BY <1>0, <1>2, <1>5, RingStays, LoggerConstants
<1>8. LoggerTypes'
  BY <1>0, <1>2, <1>3 DEF LoggerTypes
<1> QED BY <1>3, <1>6, <1>7, <1>8 DEF LoggerInv

-----------------------------------------------------------------------------
\* The slots that are written are the same and one more.
LEMMA SlotWritten ==
    ASSUME NEW slot, slot = index, index \in 0..LogSize - 1, logCount \in Nat,
           logCount < LogSize => index = logCount,
           index' = (index + 1) % LogSize, logCount' = logCount + 1
    PROVE  /\ index' \in 0..LogSize - 1 /\ logCount' \in Nat
           /\ logCount' < LogSize => index' = logCount'
           /\ slot \in Written' /\ Written' = Written \cup {slot}
           /\ \A i \in Written' : i # slot => Place(i)' < Place(slot)'
           /\ \A i, j \in Written' : i # slot /\ j # slot =>
                 (Place(i)' < Place(j)' <=> Place(i) < Place(j))
           /\ slot \in Written => \A i \in Written : i # slot => Place(slot) < Place(i)
<1>1. LogSize \in Nat \ {0}
  BY RingOK
<1>2. index' = IF index + 1 = LogSize THEN 0 ELSE index + 1
  BY <1>1
<1>3. index' \in 0..LogSize - 1 /\ logCount' \in Nat
  BY <1>1, <1>2
<1>4. logCount' < LogSize => index' = logCount'
  BY <1>1, <1>2
<1>5. slot \in Written' /\ Written' = Written \cup {slot}
  <2>1. \A i \in 0..LogSize - 1 :
           (logCount' >= LogSize \/ i < index') <=>
              (logCount >= LogSize \/ i < index \/ i = index)
    BY <1>1, <1>2
  <2> QED BY <2>1 DEF Written
<1>6. \A i \in Written' : i \in 0..LogSize - 1
  BY DEF Written
<1>7. \A i \in 0..LogSize - 1 :
         /\ Place(i)' = IF i < index' THEN i + LogSize ELSE i
         /\ Place(i) = IF i < index THEN i + LogSize ELSE i
  BY DEF Place
<1>8. ASSUME NEW i \in 0..LogSize - 1, i # slot PROVE Place(i)' < Place(slot)'
  <2>1. CASE index + 1 = LogSize
    BY <1>1, <1>2, <1>8, <2>1 DEF Place
  <2>2. CASE index + 1 # LogSize
    BY <1>1, <1>2, <1>8, <2>2 DEF Place
  <2> QED BY <2>1, <2>2
<1>9. \A i, j \in 0..LogSize - 1 : i # slot /\ j # slot =>
         (Place(i)' < Place(j)' <=> Place(i) < Place(j))
  <2>1. CASE index + 1 = LogSize
    <3>1. \A i \in 0..LogSize - 1 :
             Place(i)' = i /\ (i # slot => Place(i) = i + LogSize)
      BY <1>1, <1>2, <1>7, <2>1
    <3> QED BY <1>1, <3>1
  <2>2. CASE index + 1 # LogSize
    <3>1. \A i \in 0..LogSize - 1 : i # slot => Place(i)' = Place(i)
      BY <1>1, <1>2, <1>7, <2>2
    <3> QED BY <3>1
  <2> QED BY <2>1, <2>2
<1>10. \A i \in 0..LogSize - 1 : i # slot => Place(slot) < Place(i)
  BY <1>1, <1>7
<1> QED BY <1>3, <1>4, <1>5, <1>6, <1>8, <1>9, <1>10

\* The line that becomes due to the ring takes the slot of the oldest, which is
\* older than all that are left.
LEMMA WriteMemoryKeeps ==
    ASSUME LoggerInv, NEW t \in Threads, L!WriteMemory(t)
    PROVE  LoggerInv'
<1> DEFINE line == L!Line(t)
<1>0. LoggerTypes /\ Writing /\ FilesKeep /\ RingKeeps
  BY DEF LoggerInv
<1>1. /\ at[t] = 2 /\ memory /\ 2 \in L!Targets /\ L!NextTarget(t)
      /\ logs' = [logs EXCEPT ![index] = line]
      /\ index' = (index + 1) % LogSize /\ logCount' = logCount + 1
      /\ UNCHANGED <<memory, verbosity, content, said, failures>>
  BY LoggerConstants DEF L!WriteMemory, L!InMemory
<1>2. /\ at' \in [Threads -> 0..2] /\ L!Logged' = L!Logged
      /\ \A j \in L!Targets :
            L!Due(j)' = IF j = 2 THEN L!Due(j) \cup {line} ELSE L!Due(j)
      /\ line \notin L!Due(2) /\ line[1] = t
      /\ \A old \in L!Due(2) : old[1] = t => old[2] < line[2]
      /\ Writing'
  <2>1. line[1] = t
    BY DEF L!Line
  <2> HIDE DEF line
  <2> QED BY <1>0, <1>1, <2>1, Passed DEF line
<1> HIDE DEF line
<1> DEFINE D == L!Due(2)
<1>3. \A old \in D : old[2] < line[2]
  <2>1. said[t] # <<>> /\ t = Main
    BY <1>0, <1>1 DEF Writing
  <2>2. \A u \in Threads : \A n \in Nat : IsDue(2, u, n) => u = t
    <3>1. \A u \in Threads : u # t => DOMAIN said[u] = {}
      BY <1>0, <1>1, <2>1 DEF Writing
    <3> QED BY <3>1 DEF IsDue
  <2>3. \A old \in D : old[1] = t
    BY <1>0, <2>2, DueAre
  <2> QED BY <1>2, <2>3
<1>4. L!Due(2)' = D \cup {line} /\ line \notin D
  BY <1>1, <1>2
<1>5. /\ IsFiniteSet(D) /\ logCount = Cardinality(D)
      /\ logCount < LogSize => index = logCount
      /\ \A i \in Written : logs[i] \in D
      /\ \A i, j \in Written : Place(i) < Place(j) => logs[i][2] < logs[j][2]
      /\ \A old \in D : \/ \E i \in Written : logs[i] = old
                        \/ \A i \in Written : old[2] < logs[i][2]
  BY <1>0, <1>1 DEF RingKeeps
<1>slot. PICK slot : slot = index
  OBVIOUS
<1>6. index \in 0..LogSize - 1 /\ logCount \in Nat /\ DOMAIN logs = 0..LogSize - 1
  BY <1>0 DEF LoggerTypes
<1>7. /\ index' \in 0..LogSize - 1 /\ logCount' \in Nat
      /\ logCount' < LogSize => index' = logCount'
      /\ slot \in Written' /\ Written' = Written \cup {slot}
      /\ \A i \in Written' : i # slot => Place(i)' < Place(slot)'
      /\ \A i, j \in Written' : i # slot /\ j # slot =>
            (Place(i)' < Place(j)' <=> Place(i) < Place(j))
      /\ slot \in Written => \A i \in Written : i # slot => Place(slot) < Place(i)
  BY <1>1, <1>5, <1>6, <1>slot, SlotWritten
<1>8. /\ logs'[slot] = line /\ DOMAIN logs' = 0..LogSize - 1
      /\ \A i \in Written' : i # slot => logs'[i] = logs[i] /\ i \in Written
  BY <1>1, <1>6, <1>7, <1>slot
<1>9. IsFiniteSet(D \cup {line}) /\ logCount' = Cardinality(D \cup {line})
  BY <1>1, <1>4, <1>5, FS_AddElement
<1> HIDE DEF D
<1>10. \A i \in Written' : logs'[i] \in D \cup {line}
  BY <1>5, <1>8
<1>11. \A i \in Written' : i # slot => logs'[i][2] < line[2]
  BY <1>3, <1>5, <1>8
<1>12. \A i \in 0..LogSize - 1 : /\ Place(i)' \in Int
  BY <1>7, RingOK DEF Place
<1>13. ASSUME NEW i \in Written', NEW j \in Written', Place(i)' < Place(j)'
       PROVE  logs'[i][2] < logs'[j][2]
  <2>1. i \in 0..LogSize - 1 /\ j \in 0..LogSize - 1
    BY DEF Written
  <2>2. i # j
    BY <1>12, <1>13, <2>1
  <2>3. CASE j = slot
    BY <1>8, <1>11, <2>2, <2>3
  <2>4. CASE i = slot
    <3>1. Place(j)' < Place(i)'
      BY <1>7, <2>2, <2>4
    <3>2. Place(i)' \in Int /\ Place(j)' \in Int
      BY <1>12, <2>1
    <3> QED BY <1>13, <3>1, <3>2
  <2>5. CASE i # slot /\ j # slot
    BY <1>5, <1>7, <1>8, <1>13, <2>5
  <2> QED BY <2>3, <2>4, <2>5
<1>14. ASSUME NEW old \in D \cup {line}
       PROVE  \/ \E i \in Written' : logs'[i] = old
              \/ \A i \in Written' : old[2] < logs'[i][2]
  <2>1. CASE old = line
    BY <1>7, <1>8, <2>1
  <2>2. CASE old \in D /\ \E i \in Written : logs[i] = old
    <3>1. PICK i \in Written : logs[i] = old
      BY <2>2
    <3>2. CASE i # slot
      BY <1>7, <1>8, <3>1, <3>2
    <3>3. CASE i = slot
      <4>1. \A j \in Written' : j # slot => old[2] < logs'[j][2]
        BY <1>5, <1>7, <1>8, <3>1, <3>3
      <4>2. old[2] < logs'[slot][2]
        BY <1>3, <1>8, <2>2
      <4> QED BY <4>1, <4>2
    <3> QED BY <3>2, <3>3
  <2>3. CASE old \in D /\ \A i \in Written : old[2] < logs[i][2]
    BY <1>3, <1>8, <2>3
  <2> QED BY <1>5, <2>1, <2>2, <2>3
<1>15. RingKeeps'
  BY <1>4, <1>7, <1>9, <1>10, <1>13, <1>14 DEF RingKeeps, D
<1>16. FilesKeep'
  BY <1>0, <1>1, <1>2, LoggerConstants DEF FilesKeep, L!InMemory
<1>17. LoggerTypes'
  BY <1>0, <1>1, <1>2, <1>7, <1>8 DEF LoggerTypes
<1> QED BY <1>2, <1>15, <1>16, <1>17 DEF LoggerInv

\* Nothing is logged yet.
LEMMA LoggerInit == L!Init => LoggerInv
<1> SUFFICES ASSUME L!Init PROVE LoggerInv
  OBVIOUS
<1>1. /\ memory \in BOOLEAN /\ verbosity \in L!Levels
      /\ content = [k \in L!Targets |-> <<>>]
      /\ DOMAIN logs = 0..LogSize - 1 /\ index = 0 /\ logCount = 0
      /\ said = [t \in Threads |-> <<>>] /\ at = [t \in Threads |-> 0]
      /\ failures = {}
  BY DEF L!Init
<1>2. LoggerTypes
  <2>1. /\ said \in [Threads -> Seq(L!Levels)] /\ at \in [Threads -> 0..2]
        /\ \A k \in L!Targets : content[k] \in Seq(L!Logged)
    BY <1>1
  <2>2. index \in 0..LogSize - 1 /\ logCount \in Nat
    BY <1>1, RingOK
  <2> QED BY <1>1, <2>1, <2>2 DEF LoggerTypes
<1>3. Writing
  BY <1>1 DEF Writing
<1>4. \A k : L!Due(k) = {}
  <2>1. \A k, t, n : t \in Threads => ~IsDue(k, t, n)
    BY <1>1 DEF IsDue
  <2> QED BY <1>2, <2>1, DueAre
<1>5. FilesKeep
  <2>1. \A k \in L!Targets : content[k] = <<>>
    BY <1>1
  <2>2. L!Range(<<>>) = {} /\ L!InOrder(<<>>)
    BY DEF L!Range, L!InOrder
  <2> QED BY <1>4, <2>1, <2>2 DEF FilesKeep
<1>6. RingKeeps
  <2>1. Written = {}
    BY <1>1, RingOK DEF Written
  <2>2. IsFiniteSet(L!Due(2)) /\ Cardinality(L!Due(2)) = 0
    BY <1>4, FS_EmptySet
  <2> QED BY <1>1, <1>4, <2>1, <2>2 DEF RingKeeps
<1> QED BY <1>2, <1>3, <1>5, <1>6 DEF LoggerInv

\* Every step of the logger keeps its invariant.
LEMMA LoggerStep ==
    ASSUME LoggerInv, L!Next \/ UNCHANGED logger
    PROVE  LoggerInv'
<1>1. CASE UNCHANGED logger
  <2>0. UNCHANGED <<memory, verbosity, content, logs, index, logCount, said, at,
                    failures>>
    BY <1>1 DEF logger
  <2>1. L!Logged' = L!Logged /\ \A k : L!Due(k)' = L!Due(k)
    BY <2>0 DEF L!Logged, L!Due
  <2>2. FilesKeep'
    BY <2>0, <2>1 DEF LoggerInv, FilesKeep, L!InMemory
  <2>3. RingKeeps'
    BY <2>0, <2>1, RingStays DEF LoggerInv
  <2> QED BY <2>0, <2>1, <2>2, <2>3 DEF LoggerInv, LoggerTypes, Writing
<1>2. CASE L!Next
  BY <1>2, LogKeeps, WriteFDKeeps, WriteFailsKeeps, WriteMemoryKeeps DEF L!Next
<1> QED BY <1>1, <1>2

\* The inductive invariant of the logger: a target has the lines that are over
\* with it, and the slots of the ring follow each other from index on.
THEOREM LoggerInvariant == Safety => []LoggerInv
<1>1. Init => LoggerInv
  BY LoggerInit DEF Init
<1>2. LoggerInv /\ [Next]_vars => LoggerInv'
  BY LoggerStep DEF Next, vars
<1> QED BY <1>1, <1>2, PTL DEF Safety

-----------------------------------------------------------------------------
\* What one sequence after another holds.
LEMMA Joined ==
    ASSUME NEW S, NEW s \in Seq(S), NEW t \in Seq(S)
    PROVE  /\ s \o t \in Seq(S) /\ Len(s \o t) = Len(s) + Len(t)
           /\ \A n \in 1..Len(s) + Len(t) :
                 (s \o t)[n] = IF n <= Len(s) THEN s[n] ELSE t[n - Len(s)]
OBVIOUS

\* What getLogs returns is the slots that are written, in the order of Place.
LEMMA LogsAre ==
    ASSUME DOMAIN logs = 0..LogSize - 1, index \in 0..LogSize - 1, logCount \in Nat,
           logCount < LogSize => index = logCount,
           NEW first, first = IF logCount >= LogSize THEN index ELSE LogSize,
           NEW s, s = L!GetLogs
    PROVE  /\ Len(s) = (IF logCount >= LogSize THEN LogSize ELSE logCount)
           /\ DOMAIN s = 1..Len(s)
           /\ \A n \in DOMAIN s : \E i \in Written :
                 s[n] = logs[i] /\ Place(i) = n + first - 1
           /\ \A i \in Written : \E n \in DOMAIN s :
                 s[n] = logs[i] /\ Place(i) = n + first - 1
<1>0. LogSize \in Nat \ {0}
  BY RingOK
<1> DEFINE S == {logs[i] : i \in 0..LogSize - 1}
<1>1. ASSUME NEW i \in 0..LogSize, NEW j \in 0..LogSize, i <= j
      PROVE  /\ L!Lines(i, j) \in Seq(S) /\ Len(L!Lines(i, j)) = j - i
             /\ \A n \in 1..j - i : L!Lines(i, j)[n] = logs[i + n - 1]
  <2>1. j - i \in Nat
    BY <1>0, <1>1
  <2>2. ASSUME NEW n \in 1..j - i PROVE logs[i + n - 1] \in S
    <3>1. i + n - 1 \in 0..LogSize - 1
      BY <1>0, <1>1, <2>1
    <3> QED BY <3>1
  <2> HIDE DEF S
  <2> QED BY <2>1, <2>2 DEF L!Lines
<1> DEFINE new == L!Lines(0, index)
           old == L!Lines(index, LogSize)
<1>2. /\ new \in Seq(S) /\ Len(new) = index
      /\ \A n \in 1..index : new[n] = logs[n - 1]
  <2>1. 0 \in 0..LogSize /\ index \in 0..LogSize /\ 0 <= index /\ index - 0 = index
    BY <1>0
  <2>2. /\ new \in Seq(S) /\ Len(new) = index - 0
        /\ \A n \in 1..index - 0 : new[n] = logs[0 + n - 1]
    BY <1>1, <2>1
  <2>3. \A n \in 1..index : 0 + n - 1 = n - 1
    BY <1>0
  <2> QED BY <2>1, <2>2, <2>3
<1>3. /\ old \in Seq(S) /\ Len(old) = LogSize - index
      /\ \A n \in 1..LogSize - index : old[n] = logs[index + n - 1]
  <2>1. LogSize \in 0..LogSize /\ index \in 0..LogSize /\ index <= LogSize
    BY <1>0
  <2> QED BY <1>1, <2>1
<1>4. \A i \in 0..LogSize - 1 : Place(i) = IF i < index THEN i + LogSize ELSE i
  BY DEF Place
<1> HIDE DEF S
<1>5. CASE logCount >= LogSize
  <2>1. s = old \o new /\ first = index /\ Written = 0..LogSize - 1
    <3>1. logCount > index
      BY <1>0, <1>5
    <3>2. s = old \o new
      BY <3>1 DEF L!GetLogs
    <3>3. Written = 0..LogSize - 1
      BY <1>5 DEF Written
    <3> QED BY <1>5, <3>2, <3>3
  <2> HIDE DEF old, new
  <2>2. /\ Len(s) = LogSize /\ DOMAIN s = 1..LogSize
        /\ \A n \in 1..LogSize : s[n] = IF n <= LogSize - index THEN old[n]
                                        ELSE new[n - (LogSize - index)]
    <3>1. Len(old) + Len(new) = LogSize
      BY <1>0, <1>2, <1>3
    <3>2. /\ old \o new \in Seq(S) /\ Len(old \o new) = Len(old) + Len(new)
          /\ \A n \in 1..Len(old) + Len(new) :
                (old \o new)[n] = IF n <= Len(old) THEN old[n] ELSE new[n - Len(old)]
      BY <1>2, <1>3, Joined
    <3>3. DOMAIN (old \o new) = 1..LogSize
      BY <3>1, <3>2
    <3> QED BY <1>3, <2>1, <3>1, <3>2, <3>3
  <2>3. ASSUME NEW n \in 1..LogSize, n <= LogSize - index
        PROVE  s[n] = logs[index + n - 1] /\ index + n - 1 \in 0..LogSize - 1
    <3>1. n \in 1..LogSize - index /\ index + n - 1 \in 0..LogSize - 1
      BY <1>0, <2>3
    <3>2. s[n] = old[n]
      BY <2>2, <2>3
    <3> QED BY <1>3, <3>1, <3>2
  <2>4. ASSUME NEW n \in 1..LogSize, n > LogSize - index
        PROVE  s[n] = logs[n - (LogSize - index) - 1]
    <3>1. n - (LogSize - index) \in 1..index /\ ~(n <= LogSize - index)
      BY <1>0, <2>4
    <3>2. s[n] = new[n - (LogSize - index)]
      BY <2>2, <3>1
    <3> QED BY <1>2, <3>1, <3>2
  <2>5. ASSUME NEW n \in 1..LogSize
        PROVE  \E i \in Written : s[n] = logs[i] /\ Place(i) = n + first - 1
    <3>1. CASE n <= LogSize - index
      <4>1. index + n - 1 \in Written /\ s[n] = logs[index + n - 1]
        BY <2>1, <2>3, <3>1
      <4>2. Place(index + n - 1) = n + first - 1
        BY <1>0, <1>4, <2>1, <3>1
      <4> QED BY <4>1, <4>2
    <3>2. CASE n > LogSize - index
      <4> DEFINE i == n - (LogSize - index) - 1
      <4>1. i \in Written /\ i < index
        BY <1>0, <2>1, <3>2
      <4>3. s[n] = logs[i]
        BY <2>4, <3>2
      <4>2. Place(i) = n + first - 1
        BY <1>0, <1>4, <2>1, <4>1
      <4> QED BY <4>1, <4>2, <4>3
    <3> QED BY <1>0, <3>1, <3>2
  <2>6. ASSUME NEW i \in Written
        PROVE  \E n \in 1..LogSize : s[n] = logs[i] /\ Place(i) = n + first - 1
    <3>1. CASE i < index
      <4> DEFINE n == i + (LogSize - index) + 1
      <4>1. n \in 1..LogSize /\ n > LogSize - index /\ n - (LogSize - index) - 1 = i
        BY <1>0, <2>1, <3>1
      <4>2. s[n] = logs[i]
        <5> HIDE DEF n
        <5> QED BY <2>4, <4>1
      <4>3. Place(i) = n + first - 1
        <5>1. i \in 0..LogSize - 1 /\ Place(i) = i + LogSize
          BY <1>4, <2>1, <3>1
        <5> QED BY <1>0, <2>1, <5>1
      <4> HIDE DEF n
      <4> QED BY <4>1, <4>2, <4>3
    <3>2. CASE i >= index
      <4> DEFINE n == i - index + 1
      <4>1. n \in 1..LogSize /\ n <= LogSize - index /\ index + n - 1 = i
        BY <1>0, <2>1, <3>2
      <4>2. s[n] = logs[i]
        <5> HIDE DEF n
        <5> QED BY <2>3, <4>1
      <4>3. Place(i) = n + first - 1
        <5>1. i \in 0..LogSize - 1 /\ ~(i < index)
          BY <1>0, <2>1, <3>2
        <5>2. Place(i) = i
          BY <1>4, <5>1
        <5> QED BY <1>0, <2>1, <5>1, <5>2
      <4> HIDE DEF n
      <4> QED BY <4>1, <4>2, <4>3
    <3>3. i < index \/ i >= index
      BY <1>0, <2>1
    <3> QED BY <3>1, <3>2, <3>3
  <2>7. /\ Len(s) = (IF logCount >= LogSize THEN LogSize ELSE logCount)
        /\ DOMAIN s = 1..Len(s)
    BY <1>5, <2>2
  <2>8. DOMAIN s = 1..LogSize
    BY <2>2
  <2> QED BY <2>5, <2>6, <2>7, <2>8
<1>6. CASE logCount < LogSize
  <2>1. /\ s = <<>> \o new /\ first = LogSize /\ Written = 0..index - 1
        /\ index = logCount
    <3>1. index = logCount /\ ~(logCount > index) /\ ~(logCount >= LogSize)
      BY <1>0, <1>6
    <3>2. s = <<>> \o new
      BY <3>1 DEF L!GetLogs
    <3>3. Written = 0..index - 1
      BY <1>0, <3>1 DEF Written
    <3> QED BY <3>1, <3>2, <3>3
  <2>2. s = new
    BY <1>2, <2>1
  <2> HIDE DEF old, new
  <2>3. /\ Len(s) = logCount /\ DOMAIN s = 1..logCount
        /\ \A n \in 1..logCount : s[n] = logs[n - 1]
    BY <1>2, <2>1, <2>2
  <2>4. ASSUME NEW n \in 1..logCount
        PROVE  \E i \in Written : s[n] = logs[i] /\ Place(i) = n + first - 1
    <3>1. n - 1 \in Written /\ s[n] = logs[n - 1] /\ Place(n - 1) = n + first - 1
      BY <1>0, <1>4, <1>6, <2>1, <2>3
    <3> QED BY <3>1
  <2>5. ASSUME NEW i \in Written
        PROVE  \E n \in 1..logCount : s[n] = logs[i] /\ Place(i) = n + first - 1
    <3>1. /\ i + 1 \in 1..logCount /\ s[i + 1] = logs[i]
          /\ Place(i) = (i + 1) + first - 1
      BY <1>0, <1>4, <1>6, <2>1, <2>3
    <3> QED BY <3>1
  <2>6. /\ Len(s) = (IF logCount >= LogSize THEN LogSize ELSE logCount)
        /\ DOMAIN s = 1..Len(s)
    BY <1>0, <1>6, <2>3
  <2> QED BY <2>3, <2>4, <2>5, <2>6
<1> QED BY <1>0, <1>5, <1>6

\* However the threads interleave, no target loses, repeats or swaps a line of
\* a thread, and the ring returns the last ones (logger.cpp:14-31,
\* logger.h:46-69).
THEOREM TargetsHaveLines == Safety => []TargetsKeepLines
<1>1. LoggerInv => TargetsKeepLines
  <2> SUFFICES ASSUME LoggerInv PROVE L!TargetsKeepLines
    BY DEF TargetsKeepLines
  <2>0. LoggerTypes /\ FilesKeep /\ RingKeeps
    BY DEF LoggerInv
  <2> SUFFICES ASSUME memory
               PROVE  /\ Len(L!GetLogs) = L!Min({LogSize, L!Cardinality(L!Due(2))})
                      /\ L!Range(L!GetLogs) \subseteq L!Due(2)
                      /\ L!InOrder(L!GetLogs)
                      /\ \A old \in L!Due(2) \ L!Range(L!GetLogs),
                            i \in DOMAIN L!GetLogs : old[2] < L!GetLogs[i][2]
    BY <2>0 DEF FilesKeep, L!TargetsKeepLines
  <2> DEFINE s == L!GetLogs
             D == L!Due(2)
             first == IF logCount >= LogSize THEN index ELSE LogSize
  <2>1. /\ logCount = Cardinality(D) /\ logCount \in Nat
        /\ DOMAIN logs = 0..LogSize - 1 /\ index \in 0..LogSize - 1
        /\ logCount < LogSize => index = logCount
        /\ \A i \in Written : logs[i] \in D
        /\ \A i, j \in Written : Place(i) < Place(j) => logs[i][2] < logs[j][2]
        /\ \A old \in D : \/ \E i \in Written : logs[i] = old
                          \/ \A i \in Written : old[2] < logs[i][2]
    BY <2>0 DEF RingKeeps, LoggerTypes
  <2>2. /\ Len(s) = (IF logCount >= LogSize THEN LogSize ELSE logCount)
        /\ DOMAIN s = 1..Len(s)
        /\ \A n \in DOMAIN s : \E i \in Written :
              s[n] = logs[i] /\ Place(i) = n + first - 1
        /\ \A i \in Written : \E n \in DOMAIN s :
              s[n] = logs[i] /\ Place(i) = n + first - 1
    BY <2>1, LogsAre
  <2>3. first \in Nat /\ LogSize \in Nat
    BY <2>1, RingOK
  <2> HIDE DEF s, D, first
  <2>4. Len(s) = L!Min({LogSize, L!Cardinality(D)})
    <3>1. L!Cardinality(D) = logCount
      BY <2>1 DEF L!Cardinality, Cardinality
    <3>2. \A a, b \in Nat : L!Min({a, b}) = IF b >= a THEN a ELSE b
      BY DEF L!Min
    <3> QED BY <2>1, <2>2, <2>3, <3>1, <3>2
  <2>5. L!Range(s) = {logs[i] : i \in Written}
    BY <2>2 DEF L!Range
  <2>6. L!InOrder(s)
    <3> SUFFICES ASSUME NEW m \in DOMAIN s, NEW n \in DOMAIN s, m < n
                 PROVE  s[m][2] < s[n][2]
      BY DEF L!InOrder
    <3>1. PICK i \in Written : s[m] = logs[i] /\ Place(i) = m + first - 1
      BY <2>2
    <3>2. PICK j \in Written : s[n] = logs[j] /\ Place(j) = n + first - 1
      BY <2>2
    <3>3. Place(i) < Place(j)
      BY <2>2, <2>3, <3>1, <3>2
    <3> QED BY <2>1, <3>1, <3>2, <3>3
  <2>7. \A old \in D \ L!Range(s), n \in DOMAIN s : old[2] < s[n][2]
    BY <2>1, <2>2, <2>5
  <2> QED BY <2>1, <2>4, <2>5, <2>6, <2>7 DEF s, D
<1> QED BY <1>1, LoggerInvariant, PTL

-----------------------------------------------------------------------------
(* The tree of commands                                                    *)

TreeTypes ==
    /\ parent \in Seq(Nat) /\ \A d \in DOMAIN parent : parent[d] < d
    /\ names \in Seq(Seq(Names)) /\ Len(names) = Len(parent)
    /\ acts \in Seq(BOOLEAN) /\ Len(acts) = Len(parent)

Validated(c) == T!NamesDiffer(c) /\ (T!Children(c) = {}) = acts[c]

\* The group being initialised has the newest commands.
GroupIsNewest ==
    group # T!Root =>
        /\ group \in T!Commands /\ parent[group] = T!Root
        /\ \A d \in T!Commands : d > group => parent[d] >= group

\* What is validated stays as it was.
TreeInv ==
    /\ TreeTypes /\ GroupIsNewest
    /\ group = T!Root /\ stage # "ended" => \A c \in T!Commands : Validated(c)
    /\ group # T!Root => stage = "starting" /\ \A c \in 1..group - 1 : Validated(c)

\* A command whose children keep their names stays valid.
LEMMA ValidatedStays ==
    ASSUME NEW c, T!Children(c)' = T!Children(c), acts'[c] = acts[c],
           \A d \in T!Children(c) : names'[d] = names[d]
    PROVE  Validated(c) => Validated(c)'
<1>1. T!NamesDiffer(c)' <=>
         \A d, e \in T!Children(c)' : \A i \in DOMAIN names'[d], j \in DOMAIN names'[e] :
            names'[d][i] = names'[e][j] => d = e /\ i = j
  BY DEF T!NamesDiffer
<1>2. T!NamesDiffer(c) => T!NamesDiffer(c)'
  BY <1>1 DEF T!NamesDiffer
<1>3. Validated(c)' <=> T!NamesDiffer(c)' /\ (T!Children(c)' = {}) = acts'[c]
  BY DEF Validated
<1> QED BY <1>2, <1>3 DEF Validated

\* What Append leaves.
LEMMA AppendAt ==
    ASSUME NEW S, NEW s \in Seq(S), NEW x \in S
    PROVE  /\ Append(s, x) \in Seq(S) /\ Len(Append(s, x)) = Len(s) + 1
           /\ \A i \in 1..Len(s) : Append(s, x)[i] = s[i]
OBVIOUS

\* What the invariant says of the sequences and of what is validated.
LEMMA TreeFacts ==
    ASSUME TreeInv
    PROVE  /\ TreeTypes /\ Len(parent) \in Nat /\ DOMAIN parent = 1..Len(parent)
           /\ group = 0 /\ stage # "ended" => \A c \in 1..Len(parent) : Validated(c)
           /\ group # 0 =>
                 /\ stage = "starting" /\ \A c \in 1..group - 1 : Validated(c)
                 /\ group \in 1..Len(parent) /\ parent[group] = 0
                 /\ \A d \in 1..Len(parent) : d > group => parent[d] >= group
<1>1. TreeTypes
  BY DEF TreeInv
<1>2. Len(parent) \in Nat /\ DOMAIN parent = 1..Len(parent)
  BY <1>1 DEF TreeTypes
<1>3. T!Commands = 1..Len(parent) /\ T!Root = 0
  BY <1>2 DEF T!Commands, T!Root
<1> QED BY <1>1, <1>2, <1>3 DEF TreeInv, GroupIsNewest

\* What a new command is and what it leaves.
LEMMA InsertKeeps ==
    ASSUME TreeTypes, NEW c \in 0..Len(parent), T!Insert(c)
    PROVE  /\ TreeTypes' /\ Len(parent') = Len(parent) + 1
           /\ DOMAIN parent' = DOMAIN parent \cup {Len(parent) + 1}
           /\ parent'[Len(parent) + 1] = c
           /\ \A d \in DOMAIN parent : parent'[d] = parent[d]
           /\ \A d \in DOMAIN parent : d # c /\ Validated(d) => Validated(d)'
<1> DEFINE n == Len(parent)
<1>1. /\ parent' = Append(parent, c) /\ names' = Append(names, <<>>)
      /\ acts' = Append(acts, FALSE)
  BY DEF T!Insert
<1>2. /\ parent' \in Seq(Nat) /\ names' \in Seq(Seq(Names)) /\ acts' \in Seq(BOOLEAN)
      /\ Len(parent') = n + 1 /\ Len(names') = n + 1 /\ Len(acts') = n + 1
      /\ n \in Nat
  <2>1. <<>> \in Seq(Names)
    OBVIOUS
  <2>2. c \in Nat /\ n \in Nat
    BY DEF TreeTypes
  <2> QED BY <1>1, <2>1, <2>2 DEF TreeTypes
<1>3. /\ DOMAIN parent = 1..n /\ DOMAIN parent' = DOMAIN parent \cup {n + 1}
      /\ parent'[n + 1] = c
      /\ \A d \in 1..n : parent'[d] = parent[d]
  BY <1>1, <1>2 DEF TreeTypes
<1>4. \A d \in 1..n : names'[d] = names[d]
  BY <1>1 DEF TreeTypes
<1>5. \A d \in 1..n : acts'[d] = acts[d]
  <2>1. PICK f \in BOOLEAN : f = FALSE
    OBVIOUS
  <2>2. acts \in Seq(BOOLEAN) /\ Len(acts) = n /\ acts' = Append(acts, f)
    BY <1>1, <2>1 DEF TreeTypes
  <2> QED BY <2>2, AppendAt
<1>6. \A d \in DOMAIN parent' : parent'[d] < d
  BY <1>2, <1>3 DEF TreeTypes
<1>7. TreeTypes'
  BY <1>2, <1>6 DEF TreeTypes
<1>8. ASSUME NEW d \in DOMAIN parent, d # c, Validated(d) PROVE Validated(d)'
  <2>1. T!Children(d)' = {k \in DOMAIN parent' : parent'[k] = d}
    BY DEF T!Children, T!Commands
  <2>2. T!Children(d) = {k \in DOMAIN parent : parent[k] = d}
    BY DEF T!Children, T!Commands
  <2>3. T!Children(d)' = T!Children(d)
    BY <1>3, <1>8, <2>1, <2>2
  <2>4. \A k \in T!Children(d) : names'[k] = names[k]
    BY <1>3, <1>4, <2>2
  <2>5. acts'[d] = acts[d]
    BY <1>3, <1>5
  <2> QED BY <1>8, <2>3, <2>4, <2>5, ValidatedStays
<1> QED BY <1>2, <1>3, <1>7, <1>8

\* A new group is a child of the root, so what is validated has no new child.
LEMMA InitializeCommandKeeps ==
    ASSUME TreeInv, T!InitializeCommand
    PROVE  TreeInv'
<1> DEFINE n == Len(parent)
<1>0. /\ stage = "starting" /\ stage' = stage /\ group = 0 /\ group' = n + 1
      /\ T!Insert(0)
  BY DEF T!InitializeCommand, T!Newest, T!Root
<1>1. /\ TreeTypes /\ n \in Nat /\ DOMAIN parent = 1..n
      /\ \A c \in 1..n : Validated(c)
  BY <1>0, TreeFacts
<1>2. /\ TreeTypes' /\ Len(parent') = n + 1
      /\ DOMAIN parent' = DOMAIN parent \cup {n + 1}
      /\ parent'[n + 1] = 0
      /\ \A d \in DOMAIN parent : d # 0 /\ Validated(d) => Validated(d)'
  <2>1. 0 \in 0..Len(parent)
    BY <1>1
  <2> QED BY <1>0, <1>1, <2>1, InsertKeeps
<1>3. GroupIsNewest'
  BY <1>0, <1>1, <1>2 DEF GroupIsNewest, T!Commands, T!Root
<1>4. \A c \in 1..group' - 1 : Validated(c)'
  BY <1>0, <1>1, <1>2
<1>5. group' # 0
  BY <1>0, <1>1
<1> QED BY <1>0, <1>2, <1>3, <1>4, <1>5 DEF TreeInv, T!Root

\* A new command is a child of one of its group.
LEMMA AddChildKeeps ==
    ASSUME TreeInv, T!AddChild
    PROVE  TreeInv'
<1> DEFINE n == Len(parent)
<1>1. PICK c \in group..n : T!Insert(c)
  BY DEF T!AddChild, T!Newest
<1>0. stage = "starting" /\ stage' = stage /\ group' = group /\ group # 0
  BY DEF T!AddChild, T!Building, T!Root
<1>2. /\ TreeTypes /\ n \in Nat /\ DOMAIN parent = 1..n
      /\ group \in 1..n /\ parent[group] = 0
      /\ \A d \in 1..n : d > group => parent[d] >= group
      /\ \A d \in 1..group - 1 : Validated(d)
  BY <1>0, TreeFacts
<1>3. c \in 0..n
  BY <1>2
<1>4. /\ TreeTypes' /\ Len(parent') = n + 1
      /\ DOMAIN parent' = DOMAIN parent \cup {n + 1}
      /\ parent'[n + 1] = c
      /\ \A d \in DOMAIN parent : parent'[d] = parent[d]
      /\ \A d \in DOMAIN parent : d # c /\ Validated(d) => Validated(d)'
  BY <1>1, <1>2, <1>3, InsertKeeps
<1>5. GroupIsNewest'
  <2>1. group' \in DOMAIN parent' /\ parent'[group'] = 0
    BY <1>0, <1>2, <1>4
  <2>2. ASSUME NEW d \in DOMAIN parent', d > group' PROVE parent'[d] >= group'
    <3>1. CASE d \in DOMAIN parent
      BY <1>0, <1>2, <1>4, <2>2, <3>1
    <3>2. CASE d = n + 1
      BY <1>0, <1>1, <1>2, <1>4, <3>2
    <3> QED BY <1>4, <3>1, <3>2
  <2> QED BY <2>1, <2>2 DEF GroupIsNewest, T!Commands, T!Root
<1>6. \A d \in 1..group' - 1 : Validated(d)'
  BY <1>0, <1>1, <1>2, <1>4
<1> QED BY <1>0, <1>4, <1>5, <1>6 DEF TreeInv, T!Root

\* What is done to the newest command of a group does not reach the others.
LEMMA NewestChanges ==
    ASSUME TreeInv, T!Building, parent' = parent, group' = group, stage' = stage,
           TreeTypes',
           \A d \in 1..Len(parent) : d # Len(parent) => names'[d] = names[d]
                                                     /\ acts'[d] = acts[d]
    PROVE  TreeInv'
<1> DEFINE n == Len(parent)
<1>0. group # 0
  BY DEF T!Building, T!Root
<1>1. /\ n \in Nat /\ DOMAIN parent = 1..n /\ stage = "starting"
      /\ group \in 1..n /\ parent[group] = 0
      /\ \A d \in 1..n : d > group => parent[d] >= group
      /\ \A c \in 1..group - 1 : Validated(c)
  BY <1>0, TreeFacts
<1>2. ASSUME NEW c \in 1..group - 1 PROVE Validated(c)'
  <2>1. T!Children(c)' = T!Children(c)
    BY DEF T!Children, T!Commands
  <2>2. c \in 1..n /\ c # n /\ parent[n] # c
    <3>0. n \in Nat /\ group \in 1..n /\ c \in 1..group - 1
      BY <1>1
    <3>1. c \in 1..n /\ c # n /\ n \in 1..n /\ (n = group \/ n > group)
      <4> HIDE DEF n
      <4> QED BY ONLY <3>0
    <3>2. n > group => parent[n] >= group
      BY <1>1, <3>1
    <3>3. parent[n] \in Nat
      BY <3>1, TreeFacts DEF TreeTypes
    <3>4. n = group => parent[n] = 0
      BY <1>1
    <3> HIDE DEF n
    <3> QED BY ONLY <3>0, <3>1, <3>2, <3>3, <3>4
  <2>3. \A d \in T!Children(c) : d \in 1..n /\ d # n
    BY <1>1, <2>2 DEF T!Children, T!Commands
  <2>4. acts'[c] = acts[c] /\ \A d \in T!Children(c) : names'[d] = names[d]
    BY <2>2, <2>3
  <2>5. Validated(c)
    BY <1>1
  <2> QED BY <2>1, <2>4, <2>5, ValidatedStays
<1>3. GroupIsNewest'
  BY DEF TreeInv, GroupIsNewest, T!Commands
<1> QED BY <1>0, <1>1, <1>2, <1>3 DEF TreeInv, T!Root

\* A name is given to the newest command.
LEMMA SetNameKeeps ==
    ASSUME TreeInv, T!SetName
    PROVE  TreeInv'
<1> DEFINE n == Len(parent)
<1>1. PICK name \in Names : names' = [names EXCEPT ![n] = <<name>> \o @]
  BY DEF T!SetName, T!Newest
<1>2. T!Building /\ UNCHANGED <<parent, acts, group, stage>>
  BY DEF T!SetName
<1>3. TreeTypes /\ n \in Nat /\ n \in 1..n
  BY <1>2, TreeFacts DEF T!Building, T!Root
<1>4. names \in Seq(Seq(Names)) /\ Len(names) = n
  BY <1>3 DEF TreeTypes
<1>5. <<name>> \o names[n] \in Seq(Names)
  <2>1. names[n] \in Seq(Names)
    BY <1>3, <1>4
  <2> QED BY <2>1
<1>6. /\ names' \in Seq(Seq(Names)) /\ Len(names') = n
      /\ \A d \in 1..n : d # n => names'[d] = names[d]
  BY <1>1, <1>3, <1>4, <1>5
<1>7. TreeTypes'
  BY <1>2, <1>3, <1>6 DEF TreeTypes
<1> QED BY <1>2, <1>6, <1>7, NewestChanges

\* An action is given to the newest command.
LEMMA MakeActionKeeps ==
    ASSUME TreeInv, T!MakeAction
    PROVE  TreeInv'
<1> DEFINE n == Len(parent)
<1>1. PICK b \in BOOLEAN : acts' = [acts EXCEPT ![n] = b]
  BY DEF T!MakeAction, T!Newest
<1>2. T!Building /\ UNCHANGED <<parent, names, group, stage>>
  BY DEF T!MakeAction
<1>3. TreeTypes /\ n \in Nat /\ n \in 1..n
  BY <1>2, TreeFacts DEF T!Building, T!Root
<1>4. /\ acts' \in Seq(BOOLEAN) /\ Len(acts') = n
      /\ \A d \in 1..n : d # n => acts'[d] = acts[d]
  <2>1. acts \in Seq(BOOLEAN) /\ Len(acts) = n
    BY <1>3 DEF TreeTypes
  <2>2. ASSUME NEW S, NEW s \in Seq(S), NEW k \in 1..Len(s), NEW x \in S
        PROVE  /\ [s EXCEPT ![k] = x] \in Seq(S) /\ Len([s EXCEPT ![k] = x]) = Len(s)
               /\ \A d \in 1..Len(s) : d # k => [s EXCEPT ![k] = x][d] = s[d]
    OBVIOUS
  <2> QED BY <1>1, <1>3, <2>1, <2>2
<1>5. TreeTypes'
  BY <1>2, <1>3, <1>4 DEF TreeTypes
<1> QED BY <1>2, <1>4, <1>5, NewestChanges

\* A step that leaves the tree alone.
LEMMA SameTree ==
    ASSUME UNCHANGED <<parent, names, acts>>
    PROVE  /\ TreeTypes => TreeTypes' /\ T!Commands' = T!Commands
           /\ \A c : Validated(c) => Validated(c)'
<1>1. \A c : T!Children(c)' = T!Children(c)
  BY DEF T!Children, T!Commands
<1>2. \A c : Validated(c) => Validated(c)'
  BY <1>1, ValidatedStays
<1> QED BY <1>2 DEF TreeTypes, T!Commands

\* A group that is valid joins those before it; one that is not ends the start.
LEMMA ValidateKeeps ==
    ASSUME TreeInv, T!Validate
    PROVE  TreeInv'
<1> DEFINE n == Len(parent)
<1>1. /\ stage = "starting" /\ group # 0 /\ group' = 0
      /\ stage' = IF T!Valid(group) THEN stage ELSE "ended"
      /\ UNCHANGED <<parent, names, acts>>
  BY DEF T!Validate, T!Building, T!Root, T!tree
<1>2. /\ TreeTypes /\ n \in Nat /\ DOMAIN parent = 1..n
      /\ group \in 1..n /\ \A c \in 1..group - 1 : Validated(c)
  BY <1>1, TreeFacts
<1>3. TreeTypes' /\ T!Commands' = 1..n /\ \A c : Validated(c) => Validated(c)'
  BY <1>1, <1>2, SameTree DEF T!Commands
<1>4. T!Valid(group) => \A c \in group..n : Validated(c)
  BY DEF T!Valid, Validated, T!Newest
<1>5. ASSUME stage' # "ended" PROVE \A c \in 1..n : Validated(c)'
  BY <1>1, <1>2, <1>3, <1>4, <1>5
<1>6. GroupIsNewest'
  BY <1>1 DEF GroupIsNewest, T!Root
<1> QED BY <1>1, <1>3, <1>5, <1>6 DEF TreeInv, T!Root

\* The tree that serves is the one that was validated.
LEMMA ServeKeeps ==
    ASSUME TreeInv, T!Serve
    PROVE  TreeInv'
<1>1. /\ stage = "starting" /\ stage' = "serving" /\ group = 0 /\ group' = 0
      /\ UNCHANGED <<parent, names, acts>>
  BY DEF T!Serve, T!Root, T!tree
<1>2. TreeTypes /\ \A c \in T!Commands : Validated(c)
  BY <1>1 DEF TreeInv, T!Root
<1>3. TreeTypes' /\ T!Commands' = T!Commands /\ \A c : Validated(c) => Validated(c)'
  BY <1>1, <1>2, SameTree
<1>4. GroupIsNewest'
  BY <1>1 DEF GroupIsNewest, T!Root
<1> QED BY <1>1, <1>2, <1>3, <1>4 DEF TreeInv, T!Root

\* The root has no child.
LEMMA TreeInit == T!Init => TreeInv
<1> SUFFICES ASSUME T!Init PROVE TreeInv
  OBVIOUS
<1>1. parent = <<>> /\ names = <<>> /\ acts = <<>> /\ group = 0
  BY DEF T!Init, T!Root
<1>2. TreeTypes
  BY <1>1 DEF TreeTypes
<1>3. T!Commands = {} /\ GroupIsNewest
  BY <1>1 DEF T!Commands, GroupIsNewest, T!Root
<1> QED BY <1>1, <1>2, <1>3 DEF TreeInv, T!Root

\* Every step of the start keeps the invariant of the tree.
LEMMA TreeStep ==
    ASSUME TreeInv, T!Next \/ UNCHANGED commands
    PROVE  TreeInv'
<1>1. CASE UNCHANGED commands
  <2>1. UNCHANGED <<parent, names, acts, group, stage>>
    BY <1>1 DEF commands
  <2>2. TreeTypes' /\ T!Commands' = T!Commands /\ \A c : Validated(c) => Validated(c)'
    BY <2>1, SameTree DEF TreeInv
  <2>3. GroupIsNewest'
    BY <2>1, <2>2 DEF TreeInv, GroupIsNewest
  <2> QED BY <2>1, <2>2, <2>3 DEF TreeInv
<1>2. CASE T!Next
  BY <1>2, InitializeCommandKeeps, AddChildKeeps, SetNameKeeps, MakeActionKeeps,
     ValidateKeeps, ServeKeeps DEF T!Next
<1> QED BY <1>1, <1>2

\* The inductive invariant of the tree: what precedes the group that is being
\* initialised is validated and gets no new child.
THEOREM TreeInvariant == Safety => []TreeInv
<1>1. Init => TreeInv
  BY TreeInit DEF Init
<1>2. TreeInv /\ [Next]_vars => TreeInv'
  BY TreeStep DEF Next, vars
<1> QED BY <1>1, <1>2, PTL DEF Safety

-----------------------------------------------------------------------------
(* The paths                                                               *)

PathStep(f, d) == IF parent[d] = 0 THEN <<d>> ELSE Append(f[parent[d]], d)
IsPaths(f) == f = [d \in DOMAIN parent |-> PathStep(f, d)]

\* A command is made after its parent.
LEMMA ParentsAre ==
    ASSUME TreeTypes
    PROVE  /\ Len(parent) \in Nat /\ DOMAIN parent = 1..Len(parent)
           /\ \A d \in 1..Len(parent) : parent[d] \in Nat /\ parent[d] < d
<1>1. parent \in Seq(Nat) /\ \A d \in DOMAIN parent : parent[d] < d
  BY DEF TreeTypes
<1>2. /\ Len(parent) \in Nat /\ DOMAIN parent = 1..Len(parent)
      /\ \A d \in 1..Len(parent) : parent[d] \in Nat
  BY <1>1
<1> QED BY <1>1, <1>2

\* Path is what its equations say: parents come first, so the function exists.
LEMMA PathIs ==
    ASSUME TreeTypes
    PROVE  /\ T!Path(0) = <<>>
           /\ \A d \in DOMAIN parent :
                 T!Path(d) = IF parent[d] = 0 THEN <<d>>
                             ELSE Append(T!Path(parent[d]), d)
<1> DEFINE n == Len(parent)
           Is(m, f) == f = [d \in 1..m |-> PathStep(f, d)]
           N == {m \in Nat : m <= n => \E f : Is(m, f)}
<1>0. /\ n \in Nat /\ DOMAIN parent = 1..n
      /\ \A d \in 1..n : parent[d] \in Nat /\ parent[d] < d
  BY ParentsAre
<1>1. 0 \in N
  <2>1. Is(0, [d \in 1..0 |-> <<>>])
    OBVIOUS
  <2> HIDE DEF Is
  <2> QED BY <2>1
<1>2. ASSUME NEW m \in Nat, m \in N PROVE m + 1 \in N
  <2> SUFFICES ASSUME m + 1 <= n PROVE \E f : Is(m + 1, f)
    OBVIOUS
  <2>1. PICK f : Is(m, f)
    BY <1>0, <1>2
  <2> DEFINE g == [d \in 1..m + 1 |-> IF d <= m THEN f[d] ELSE PathStep(f, d)]
  <2>2. \A d \in 1..m + 1 : parent[d] # 0 => g[parent[d]] = f[parent[d]]
    BY <1>0
  <2>3. \A d \in 1..m + 1 : PathStep(g, d) = PathStep(f, d)
    <3> HIDE DEF g
    <3> QED BY <2>2 DEF PathStep
  <2>4. \A d \in 1..m : f[d] = PathStep(f, d)
    BY <2>1
  <2>5. \A d \in 1..m + 1 : g[d] = PathStep(g, d)
    BY <2>3, <2>4
  <2>6. Is(m + 1, g)
    BY <2>5
  <2> HIDE DEF Is
  <2> QED BY <2>6
<1>3. \A m \in Nat : m \in N
  <2> HIDE DEF N
  <2> QED BY <1>1, <1>2, NatSets
<1>4. \E f : IsPaths(f)
  <2>1. \E f : Is(n, f)
    BY <1>0, <1>3
  <2> QED BY <1>0, <2>1 DEF IsPaths
<1> DEFINE paths == CHOOSE f : IsPaths(f)
<1>5. IsPaths(paths)
  BY <1>4
<1>6. \A c : T!Path(c) = IF c = 0 THEN <<>> ELSE paths[c]
  BY DEF T!Path, IsPaths, PathStep, T!Root, T!Commands
<1> HIDE DEF paths
<1>7. \A d \in DOMAIN parent : paths[d] = PathStep(paths, d)
  BY <1>5 DEF IsPaths
<1>8. ASSUME NEW d \in DOMAIN parent
      PROVE  T!Path(d) = IF parent[d] = 0 THEN <<d>> ELSE Append(T!Path(parent[d]), d)
  <2>1. T!Path(d) = paths[d] /\ (parent[d] # 0 => T!Path(parent[d]) = paths[parent[d]])
    BY <1>0, <1>6
  <2> QED BY <1>7, <2>1 DEF PathStep
<1> QED BY <1>6, <1>8

\* The way from the root to d, and nothing else.
IsWay(p, d) ==
    /\ p \in Seq(DOMAIN parent) /\ Len(p) > 0 /\ p[Len(p)] = d
    /\ parent[p[1]] = 0
    /\ \A i \in 1..Len(p) - 1 : parent[p[i + 1]] = p[i]

\* A way goes on to a child.
LEMMA WayGrows ==
    ASSUME NEW p, NEW c, IsWay(p, c), NEW d \in DOMAIN parent, parent[d] = c
    PROVE  IsWay(Append(p, d), d)
<1> DEFINE q == Append(p, d)
<1>1. /\ p \in Seq(DOMAIN parent) /\ Len(p) > 0 /\ Len(p) \in Nat /\ p[Len(p)] = c
      /\ parent[p[1]] = 0 /\ \A i \in 1..Len(p) - 1 : parent[p[i + 1]] = p[i]
  BY DEF IsWay
<1>2. /\ q \in Seq(DOMAIN parent) /\ Len(q) = Len(p) + 1 /\ q[Len(p) + 1] = d
      /\ \A i \in 1..Len(p) : q[i] = p[i]
  BY <1>1
<1> HIDE DEF q
<1>3. ASSUME NEW i \in 1..Len(q) - 1 PROVE parent[q[i + 1]] = q[i]
  <2>1. CASE i = Len(p)
    BY <1>1, <1>2, <2>1
  <2>2. CASE i \in 1..Len(p) - 1
    BY <1>1, <1>2, <2>2
  <2> QED BY <1>1, <1>2, <2>1, <2>2
<1>4. parent[q[1]] = 0 /\ q[Len(q)] = d /\ Len(q) > 0
  BY <1>1, <1>2
<1>5. IsWay(q, d)
  BY <1>2, <1>3, <1>4 DEF IsWay
<1> QED BY <1>5 DEF q

\* The path of a command is the way from the root to it.
LEMMA PathsAreWays ==
    ASSUME TreeTypes
    PROVE  \A d \in DOMAIN parent : IsWay(T!Path(d), d)
<1> DEFINE n == Len(parent)
           N == {m \in Nat : \A d \in 1..n : d <= m => IsWay(T!Path(d), d)}
<1>0. /\ n \in Nat /\ DOMAIN parent = 1..n
      /\ \A d \in 1..n : parent[d] \in Nat /\ parent[d] < d
  BY ParentsAre
<1>1. 0 \in N
  BY <1>0
<1>2. ASSUME NEW m \in Nat, m \in N PROVE m + 1 \in N
  <2> SUFFICES ASSUME m + 1 \in 1..n PROVE IsWay(T!Path(m + 1), m + 1)
    BY <1>0, <1>2
  <2>1. CASE parent[m + 1] = 0
    <3>1. T!Path(m + 1) = <<m + 1>>
      BY <1>0, <2>1, PathIs
    <3>2. IsWay(<<m + 1>>, m + 1)
      BY <1>0, <2>1 DEF IsWay
    <3> QED BY <3>1, <3>2
  <2>2. CASE parent[m + 1] # 0
    <3>1. T!Path(m + 1) = Append(T!Path(parent[m + 1]), m + 1)
      BY <1>0, <2>2, PathIs
    <3>2. parent[m + 1] \in 1..n /\ parent[m + 1] <= m
      BY <1>0, <2>2
    <3>3. IsWay(T!Path(parent[m + 1]), parent[m + 1])
      BY <1>2, <3>2
    <3> QED BY <1>0, <3>1, <3>3, WayGrows
  <2> QED BY <2>1, <2>2
<1>3. \A m \in Nat : m \in N
  <2> HIDE DEF N
  <2> QED BY <1>1, <1>2, NatSets
<1> QED BY <1>0, <1>3

-----------------------------------------------------------------------------
(* The walk                                                                *)

\* A set of numbers has a least one.
LEMMA LeastIn ==
    ASSUME NEW S \in SUBSET Nat, S # {}
    PROVE  \E m \in S : \A k \in S : m <= k
<1> SUFFICES ASSUME \A m \in S : \E k \in S : k < m PROVE FALSE
  OBVIOUS
<1> DEFINE N == {n \in Nat : \A k \in 0..n : k \notin S}
<1>1. 0 \in N
  OBVIOUS
<1>2. ASSUME NEW n \in Nat, n \in N PROVE n + 1 \in N
  BY <1>2
<1>3. \A n \in Nat : n \in N
  <2> HIDE DEF N
  <2> QED BY <1>1, <1>2, NatSets
<1>4. PICK n \in Nat : n \in S
  OBVIOUS
<1>5. n \in 0..n /\ n \in N
  BY <1>3
<1> QED BY <1>4, <1>5

HasName(d, name) == T!Contains(names[d], name)

\* getChild finds the first child of the name, if there is one.
LEMMA GetChildIs ==
    ASSUME TreeTypes, NEW c, NEW name, NEW r, r = T!GetChild(c, name)
    PROVE  \/ r = -1 /\ \A d \in T!Children(c) : ~HasName(d, name)
           \/ /\ r \in DOMAIN parent /\ parent[r] = c /\ HasName(r, name)
              /\ \A d \in T!Children(c) : HasName(d, name) => r <= d
<1> DEFINE called == {d \in T!Children(c) : HasName(d, name)}
<1>1. r = IF called = {} THEN -1 ELSE T!Min(called)
  BY DEF T!GetChild, T!Nothing, HasName
<1>2. CASE called = {}
  BY <1>1, <1>2
<1>3. CASE called # {}
  <2>1. called \in SUBSET Nat
    BY ParentsAre DEF T!Children, T!Commands
  <2> HIDE DEF called
  <2>2. \E m \in called : \A k \in called : m <= k
    BY <1>3, <2>1, LeastIn
  <2>3. r \in called /\ \A k \in called : r <= k
    BY <1>1, <1>3, <2>2 DEF T!Min
  <2> QED BY <2>3 DEF called, T!Children, T!Commands
<1> QED BY <1>2, <1>3

WalkStep(tokens, f, i) ==
    IF i = 0 THEN 0
    ELSE IF f[i - 1] = -1 THEN -1 ELSE T!GetChild(f[i - 1], tokens[i])
IsWalk(tokens, f) == f = [i \in 0..Len(tokens) |-> WalkStep(tokens, f, i)]

\* Walk is what its equations say, for tokens of any length.
LEMMA WalkIs ==
    ASSUME NEW tokens \in Seq(Names)
    PROVE  IsWalk(tokens, T!Walk(tokens))
<1> DEFINE Is(m, f) == f = [i \in 0..m |-> WalkStep(tokens, f, i)]
           N == {m \in Nat : \E f : Is(m, f)}
<1>1. 0 \in N
  <2>1. Is(0, [i \in 0..0 |-> 0])
    BY DEF WalkStep
  <2> HIDE DEF Is
  <2> QED BY <2>1
<1>2. ASSUME NEW m \in Nat, m \in N PROVE m + 1 \in N
  <2>1. PICK f : Is(m, f)
    BY <1>2
  <2> DEFINE g == [i \in 0..m + 1 |-> IF i <= m THEN f[i] ELSE WalkStep(tokens, f, i)]
  <2>2. \A i \in 0..m + 1 : i # 0 => g[i - 1] = f[i - 1]
    OBVIOUS
  <2>3. \A i \in 0..m + 1 : WalkStep(tokens, g, i) = WalkStep(tokens, f, i)
    <3> HIDE DEF g
    <3> QED BY <2>2 DEF WalkStep
  <2>4. \A i \in 0..m : f[i] = WalkStep(tokens, f, i)
    BY <2>1
  <2>5. \A i \in 0..m + 1 : g[i] = WalkStep(tokens, g, i)
    BY <2>3, <2>4
  <2>6. Is(m + 1, g)
    BY <2>5
  <2>7. \E h : Is(m + 1, h)
    <3> HIDE DEF Is
    <3> QED BY <2>6
  <2> HIDE DEF Is
  <2> QED BY <2>7
<1>3. \A m \in Nat : m \in N
  <2> HIDE DEF N
  <2> QED BY <1>1, <1>2, NatSets
<1>4. \E f : IsWalk(tokens, f)
  <2>1. Len(tokens) \in Nat
    OBVIOUS
  <2>2. \E f : Is(Len(tokens), f)
    BY <1>3, <2>1
  <2> QED BY <2>2 DEF IsWalk
<1>5. T!Walk(tokens) = CHOOSE f : IsWalk(tokens, f)
  BY DEF T!Walk, IsWalk, WalkStep, T!Root, T!Nothing
<1> QED BY <1>4, <1>5

\* A node of the walk is spelled by the tokens so far.
Reaches(tokens, i, c) ==
    /\ c \in 0..Len(parent) /\ Len(T!Path(c)) = i
    /\ \A j \in 1..i : HasName(T!Path(c)[j], tokens[j])

\* The walk goes from a node to one of its children while it goes on.
LEMMA WalkReaches ==
    ASSUME TreeTypes, NEW tokens \in Seq(Names), NEW node, node = T!Walk(tokens)
    PROVE  /\ node[0] = 0
           /\ \A i \in 0..Len(tokens) : node[i] # -1 => Reaches(tokens, i, node[i])
           /\ \A i \in 1..Len(tokens) :
                 node[i] = IF node[i - 1] = -1 THEN -1
                           ELSE T!GetChild(node[i - 1], tokens[i])
<1> DEFINE n == Len(tokens)
           N == {i \in Nat : i <= n /\ node[i] # -1 => Reaches(tokens, i, node[i])}
<1>0. n \in Nat
  OBVIOUS
<1>1. \A i \in 0..n : node[i] = WalkStep(tokens, node, i)
  BY WalkIs DEF IsWalk
<1>2. node[0] = 0
  BY <1>0, <1>1 DEF WalkStep
<1>3. \A i \in 1..n : node[i] = IF node[i - 1] = -1 THEN -1
                                ELSE T!GetChild(node[i - 1], tokens[i])
  BY <1>1 DEF WalkStep
<1>4. 0 \in N
  <2>1. T!Path(0) = <<>> /\ Len(parent) \in Nat
    BY PathIs, ParentsAre
  <2>2. Reaches(tokens, 0, 0)
    BY <2>1 DEF Reaches
  <2> QED BY <1>2, <2>2
<1>5. ASSUME NEW i \in Nat, i \in N PROVE i + 1 \in N
  <2> SUFFICES ASSUME i + 1 <= n, node[i + 1] # -1
               PROVE  Reaches(tokens, i + 1, node[i + 1])
    OBVIOUS
  <2> DEFINE c == node[i]
             d == node[i + 1]
             p == T!Path(c)
  <2>1. i + 1 \in 1..n /\ (i + 1) - 1 = i
    BY <1>0
  <2>2. c # -1 /\ d = T!GetChild(c, tokens[i + 1])
    BY <1>3, <2>1
  <2>3. d \in DOMAIN parent /\ parent[d] = c /\ HasName(d, tokens[i + 1])
    <3> HIDE DEF c, d
    <3> QED BY <2>2, GetChildIs DEF d
  <2>4. Reaches(tokens, i, c)
    BY <1>5, <2>1, <2>2
  <2> HIDE DEF c, d
  <2>5. Len(p) = i /\ \A j \in 1..i : HasName(p[j], tokens[j])
    BY <2>4 DEF Reaches
  <2>6. T!Path(d) = Append(p, d) /\ p \in Seq(DOMAIN parent)
    <3>1. CASE c = 0
      <4>1. T!Path(d) = <<d>> /\ p = <<>>
        BY <2>3, <3>1, PathIs
      <4>2. <<d>> = Append(<<>>, d) /\ <<>> \in Seq(DOMAIN parent)
        OBVIOUS
      <4> QED BY <4>1, <4>2
    <3>2. CASE c # 0
      <4>1. T!Path(d) = Append(p, d)
        BY <2>3, <3>2, PathIs
      <4>2. c \in DOMAIN parent
        BY <2>4, <3>2, ParentsAre DEF Reaches
      <4> QED BY <4>1, <4>2, PathsAreWays DEF IsWay
    <3> QED BY <3>1, <3>2
  <2> HIDE DEF p
  <2>7. /\ Len(T!Path(d)) = i + 1 /\ T!Path(d)[i + 1] = d
        /\ \A j \in 1..i : T!Path(d)[j] = p[j]
    BY <2>5, <2>6
  <2>8. \A j \in 1..i + 1 : HasName(T!Path(d)[j], tokens[j])
    BY <2>3, <2>5, <2>7
  <2>9. Reaches(tokens, i + 1, d)
    BY <2>3, <2>7, <2>8, ParentsAre DEF Reaches
  <2> QED BY <2>9 DEF d
<1>6. \A i \in Nat : i \in N
  <2> HIDE DEF N
  <2> QED BY <1>4, <1>5, NatSets
<1> QED BY <1>0, <1>2, <1>3, <1>6

\* What resolveCommand returns: the last node, and it has no child of the
\* name that follows.
LEMMA ResolvesTo ==
    ASSUME TreeTypes, NEW tokens \in Seq(Names), NEW node, node = T!Walk(tokens)
    PROVE  \E m \in 0..Len(tokens) :
              /\ T!ResolveCommand(tokens) = node[m] /\ Reaches(tokens, m, node[m])
              /\ \A i \in 0..Len(tokens) : node[i] # -1 => i <= m
              /\ m < Len(tokens) => \A d \in T!Children(node[m]) :
                                       ~HasName(d, tokens[m + 1])
<1> DEFINE n == Len(tokens)
           S == {i \in 0..n : node[i] # -1}
<1>0. n \in Nat
  OBVIOUS
<1>1. /\ node[0] = 0
      /\ \A i \in 0..n : node[i] # -1 => Reaches(tokens, i, node[i])
      /\ \A i \in 1..n : node[i] = IF node[i - 1] = -1 THEN -1
                                   ELSE T!GetChild(node[i - 1], tokens[i])
  BY WalkReaches
<1>2. \E m \in S : \A i \in S : i <= m
  <2> DEFINE R == {k \in 0..n : n - k \in S}
  <2>1. n \in R /\ R \in SUBSET Nat
    BY <1>0, <1>1
  <2> HIDE DEF R
  <2>2. PICK k \in R : \A j \in R : k <= j
    BY <2>1, LeastIn
  <2> USE DEF R
  <2>3. k \in 0..n /\ n - k \in S
    OBVIOUS
  <2>4. ASSUME NEW i \in S PROVE i <= n - k
    <3>1. n - i \in R
      BY <1>0
    <3>2. k <= n - i
      BY <2>2, <3>1
    <3> QED BY <1>0, <2>3, <3>2
  <2> QED BY <2>3, <2>4
<1>3. DOMAIN node = 0..n
  BY WalkIs DEF IsWalk
<1>4. T!ResolveCommand(tokens) = node[T!Max(S)]
  BY <1>3 DEF T!ResolveCommand, T!Nothing
<1> DEFINE m == T!Max(S)
<1>5. m \in S /\ \A i \in S : i <= m
  <2> HIDE DEF S
  <2>1. \E k \in S : \A i \in S : i <= k
    BY <1>2
  <2>2. \A i, k : (k >= i) = (i <= k)
    OBVIOUS
  <2> QED BY <2>1, <2>2 DEF T!Max
<1> HIDE DEF m
<1>6. m \in 0..n /\ node[m] # -1 /\ \A i \in 0..n : node[i] # -1 => i <= m
  BY <1>5
<1>7. ASSUME m < n PROVE \A d \in T!Children(node[m]) : ~HasName(d, tokens[m + 1])
  <2>1. m + 1 \in 1..n /\ m + 1 \in 0..n /\ ~(m + 1 <= m) /\ (m + 1) - 1 = m
    BY <1>0, <1>6, <1>7
  <2>2. node[m + 1] = -1
    BY <1>6, <2>1
  <2>3. -1 = T!GetChild(node[m], tokens[m + 1])
    BY <1>1, <1>6, <2>1, <2>2
  <2>4. -1 \notin DOMAIN parent
    BY ParentsAre
  <2> QED BY <2>3, <2>4, GetChildIs
<1>8. T!ResolveCommand(tokens) = node[m] /\ Reaches(tokens, m, node[m])
  BY <1>1, <1>4, <1>6 DEF m
<1> QED BY <1>6, <1>7, <1>8

\* A spelling of d leads along the way to d, unless a group shadows it.
LEMMA SpellingLeads ==
    ASSUME TreeTypes, \A c \in DOMAIN parent : Validated(c),
           NEW tokens \in Seq(Names), NEW node, node = T!Walk(tokens),
           NEW d \in DOMAIN parent, T!Spells(tokens, d),
           ~T!Shadowed(d, tokens[1])
    PROVE  Len(tokens) > 0 /\ node[Len(tokens)] = d
<1> DEFINE p == T!Path(d)
           n == Len(tokens)
           N == {i \in Nat : i \in 1..n => node[i] = p[i]}
<1>1. IsWay(p, d)
  BY PathsAreWays
<1>2. n \in Nat /\ DOMAIN tokens = 1..n
  OBVIOUS
<1>3. n = Len(p) /\ \A i \in 1..n : HasName(p[i], tokens[i])
  BY <1>2 DEF T!Spells, HasName
<1> HIDE DEF p
<1>4. /\ n > 0 /\ p[n] = d /\ parent[p[1]] = 0
      /\ \A i \in 1..n : p[i] \in DOMAIN parent
      /\ \A i \in 1..n - 1 : parent[p[i + 1]] = p[i]
  BY <1>1, <1>2, <1>3 DEF IsWay
<1>5. /\ node[0] = 0
      /\ \A i \in 1..n : node[i] = IF node[i - 1] = -1 THEN -1
                                   ELSE T!GetChild(node[i - 1], tokens[i])
  BY WalkReaches
<1>6. -1 \notin DOMAIN parent
  BY ParentsAre
<1>7. 0 \in N
  BY <1>2
<1>8. ASSUME NEW i \in Nat, i \in N PROVE i + 1 \in N
  <2> SUFFICES ASSUME i + 1 \in 1..n PROVE node[i + 1] = p[i + 1]
    OBVIOUS
  <2> DEFINE e == p[i + 1]
             r == node[i + 1]
             c == node[i]
  <2>1. (i + 1) - 1 = i
    OBVIOUS
  <2>2. e \in DOMAIN parent /\ HasName(e, tokens[i + 1])
    BY <1>3, <1>4
  <2>3. CASE i = 0
    <3>1. r = T!GetChild(0, tokens[1]) /\ parent[e] = 0
      BY <1>2, <1>4, <1>5, <2>3
    <3>2. e \in T!Children(0) /\ HasName(e, tokens[1])
      BY <2>2, <2>3, <3>1 DEF T!Children, T!Commands
    <3> HIDE DEF r, e
    <3>3. /\ r \in DOMAIN parent /\ parent[r] = 0 /\ HasName(r, tokens[1]) /\ r <= e
      BY <3>1, <3>2, GetChildIs
    <3>4. ~(r < e)
      <4>1. r \in T!Children(0)
        BY <3>3 DEF T!Children, T!Commands
      <4>2. e = T!Path(d)[1]
        BY <2>3 DEF e, p
      <4> QED BY <3>3, <4>1, <4>2 DEF T!Shadowed, T!Root, HasName
    <3>5. r \in Nat /\ e \in Nat
      BY <2>2, <3>3, ParentsAre
    <3>6. r = e
      BY <3>3, <3>4, <3>5
    <3> QED BY <3>6 DEF r, e
  <2>4. CASE i # 0
    <3>0. i \in 1..n /\ i \in 1..n - 1
      BY <1>2, <2>4
    <3>1. c = p[i] /\ c \in DOMAIN parent /\ parent[e] = c
      BY <1>4, <1>8, <3>0
    <3>2. r = T!GetChild(c, tokens[i + 1])
      BY <1>5, <1>6, <2>1, <3>1
    <3>3. e \in T!Children(c) /\ T!NamesDiffer(c)
      BY <2>2, <3>1 DEF T!Children, T!Commands, Validated
    <3> HIDE DEF r, e, c
    <3>4. r \in T!Children(c) /\ HasName(r, tokens[i + 1])
      BY <2>2, <3>2, <3>3, GetChildIs DEF T!Children, T!Commands
    <3>5. \A k \in T!Children(c) : names[k] \in Seq(Names)
      BY ParentsAre DEF T!Children, T!Commands, TreeTypes
    <3>6. r = e
      BY <2>2, <3>3, <3>4, <3>5 DEF T!NamesDiffer, HasName, T!Contains
    <3> QED BY <3>6 DEF r, e
  <2> QED BY <2>3, <2>4
<1>9. \A i \in Nat : i \in N
  <2> HIDE DEF N
  <2> QED BY <1>7, <1>8, NatSets
<1> QED BY <1>2, <1>4, <1>9

\* Tokens of any length resolve, in a tree that is validated.
LEMMA TokensResolve ==
    ASSUME TreeTypes, \A c \in DOMAIN parent : Validated(c), NEW tokens \in Seq(Names)
    PROVE  T!Resolves(tokens)
<1> DEFINE n == Len(tokens)
           node == T!Walk(tokens)
           c == T!ResolveCommand(tokens)
           depth == Len(T!Path(c))
<1>1. PICK m \in 0..n :
         /\ c = node[m] /\ Reaches(tokens, m, node[m])
         /\ \A i \in 0..n : node[i] # -1 => i <= m
         /\ m < n => \A d \in T!Children(node[m]) : ~HasName(d, tokens[m + 1])
  BY ResolvesTo
<1> HIDE DEF c, node
<1>2. m = depth /\ n \in Nat /\ \A j \in 1..m : HasName(T!Path(c)[j], tokens[j])
  BY <1>1 DEF Reaches
<1>3. T!Spells(SubSeq(tokens, 1, depth), c)
  <2> DEFINE s == SubSeq(tokens, 1, m)
  <2>1. Len(s) = m /\ DOMAIN s = 1..m /\ \A j \in 1..m : s[j] = tokens[j]
    BY <1>1
  <2> HIDE DEF s
  <2>2. T!Spells(s, c)
    BY <1>2, <2>1 DEF T!Spells, HasName
  <2> QED BY <1>2, <2>2 DEF s
<1>4. depth < n => \A d \in T!Children(c) : ~T!Contains(names[d], tokens[depth + 1])
  BY <1>1, <1>2 DEF HasName
<1>5. ASSUME NEW d \in T!Commands, T!Spells(tokens, d), ~T!Shadowed(d, tokens[1])
      PROVE  c = d
  <2>1. n > 0 /\ node[n] = d
    BY <1>5, SpellingLeads DEF node, T!Commands
  <2>2. node[n] # -1
    BY <2>1, ParentsAre DEF T!Commands
  <2>3. m = n
    BY <1>1, <1>2, <2>2
  <2> QED BY <1>1, <2>1, <2>3
<1> QED BY <1>3, <1>4, <1>5 DEF c, T!Resolves

\* NamesReach for tokens of any length.
TokensReach ==
    stage = "serving" =>
        /\ \A tokens \in Seq(Names) : T!Resolves(tokens)
        /\ \A c \in T!Commands : acts[c] <=> T!Children(c) = {}

\* Once the daemon serves, tokens of any length reach the command that they
\* spell, unless a group of that name was registered before, and no other; and
\* actions are at the leaves (command.cpp:9, commandmanager.cpp:12, 26).
THEOREM AnyTokensReach == Safety => []TokensReach
<1>1. TreeInv => TokensReach
  <2> SUFFICES ASSUME TreeInv, stage = "serving" PROVE TokensReach
    BY DEF TokensReach
  <2>1. TreeTypes /\ \A c \in DOMAIN parent : Validated(c)
    BY DEF TreeInv, T!Commands
  <2>2. ASSUME NEW c \in T!Commands PROVE acts[c] <=> T!Children(c) = {}
    <3>1. (T!Children(c) = {}) = acts[c]
      BY <2>1 DEF Validated, T!Commands
    <3>2. acts[c] \in BOOLEAN
      BY <2>1 DEF TreeTypes, T!Commands
    <3> QED BY <3>1, <3>2
  <2> QED BY <2>1, <2>2, TokensResolve DEF TokensReach
<1> QED BY <1>1, TreeInvariant, PTL

\* The same of tokens up to the length that the run checks.
THEOREM NamesReachCommands == Safety => []NamesReach
<1>1. TokensReach => NamesReach
  <2>1. ASSUME NEW tokens \in T!BoundedSeq(Names, 3) PROVE tokens \in Seq(Names)
    <3>1. PICK k \in 0..3 : tokens \in [1..k -> Names]
      BY <2>1 DEF T!BoundedSeq, T!SeqOf
    <3>2. k \in Nat
      OBVIOUS
    <3> QED BY <3>1, <3>2
  <2> QED BY <2>1 DEF TokensReach, NamesReach, T!NamesReach
<1> QED BY <1>1, AnyTokensReach, PTL
=============================================================================
