---------------------------- MODULE QueueLemmas ----------------------------
(***************************************************************************)
(* Facts about sequences used as first-in first-out queues: what append    *)
(* and pop do to the set of elements and to a queue without duplicates, and *)
(* at how many places of such a queue an element stands.                   *)
(***************************************************************************)
EXTENDS Integers, Sequences, FiniteSetTheorems, SequenceTheorems, TLAPS

Elements(q) == {q[i] : i \in DOMAIN q}
Distinct(q) == \A i, j \in DOMAIN q : i # j => q[i] # q[j]
At(q, e) == {i \in DOMAIN q : q[i] = e}

-----------------------------------------------------------------------------
LEMMA AppendShape ==
    ASSUME NEW S, NEW q \in Seq(S), NEW e
    PROVE  /\ Len(q) \in Nat /\ DOMAIN q = 1 .. Len(q)
           /\ DOMAIN Append(q, e) = 1 .. Len(q) + 1
           /\ \A i \in 1 .. Len(q) : Append(q, e)[i] = q[i]
           /\ Append(q, e)[Len(q) + 1] = e
OBVIOUS

LEMMA TailShape ==
    ASSUME NEW S, NEW q \in Seq(S), q # <<>>
    PROVE  /\ Len(q) \in Nat \ {0} /\ DOMAIN q = 1 .. Len(q)
           /\ Head(q) = q[1] /\ q[1] \in S
           /\ Tail(q) \in Seq(S) /\ Len(Tail(q)) = Len(q) - 1
           /\ DOMAIN Tail(q) = 1 .. Len(q) - 1
           /\ \A i \in 1 .. Len(q) - 1 : Tail(q)[i] = q[i + 1]
OBVIOUS

-----------------------------------------------------------------------------
(* Elements                                                                *)

LEMMA ElementsInRange ==
    ASSUME NEW S, NEW q \in Seq(S)
    PROVE  Elements(q) \subseteq S
BY DEF Elements

LEMMA AppendElements ==
    ASSUME NEW S, NEW q \in Seq(S), NEW e
    PROVE  Elements(Append(q, e)) = Elements(q) \cup {e}
<1>1. /\ DOMAIN Append(q, e) = DOMAIN q \cup {Len(q) + 1}
      /\ \A i \in DOMAIN q : Append(q, e)[i] = q[i]
      /\ Append(q, e)[Len(q) + 1] = e
  BY AppendShape
<1> QED BY <1>1 DEF Elements

LEMMA AppendDistinct ==
    ASSUME NEW S, NEW q \in Seq(S), NEW e, Distinct(q), e \notin Elements(q)
    PROVE  Distinct(Append(q, e))
<1>1. /\ DOMAIN Append(q, e) = DOMAIN q \cup {Len(q) + 1}
      /\ \A i \in DOMAIN q : Append(q, e)[i] = q[i]
      /\ Append(q, e)[Len(q) + 1] = e
  BY AppendShape
<1> QED BY <1>1 DEF Elements, Distinct

\* An index of a queue is that of its front, or one above an index of its tail.
LEMMA TailIndices ==
    ASSUME NEW S, NEW q \in Seq(S), q # <<>>
    PROVE  /\ 1 \in DOMAIN q
           /\ \A i \in DOMAIN Tail(q) : i + 1 \in DOMAIN q \ {1}
           /\ \A i \in DOMAIN q \ {1} : \E k \in DOMAIN Tail(q) : k + 1 = i
<1>1. \A i \in DOMAIN q \ {1} : i - 1 \in DOMAIN Tail(q) /\ (i - 1) + 1 = i
  BY TailShape
<1> QED BY <1>1, TailShape

LEMMA PopElements ==
    ASSUME NEW S, NEW q \in Seq(S), q # <<>>
    PROVE  Elements(q) = {Head(q)} \cup Elements(Tail(q))
<1>1. /\ Head(q) = q[1] /\ \A i \in DOMAIN Tail(q) : Tail(q)[i] = q[i + 1]
  BY TailShape
<1>2. ASSUME NEW i \in DOMAIN q
      PROVE  q[i] \in {Head(q)} \cup Elements(Tail(q))
  BY <1>1, TailIndices DEF Elements
<1>3. ASSUME NEW i \in DOMAIN Tail(q)
      PROVE  Tail(q)[i] \in Elements(q)
  BY <1>1, TailIndices DEF Elements
<1>4. Head(q) \in Elements(q)
  BY <1>1, TailIndices DEF Elements
<1> QED BY <1>2, <1>3, <1>4 DEF Elements

\* Popping a queue without duplicates removes its front and nothing else.
LEMMA PopDistinct ==
    ASSUME NEW S, NEW q \in Seq(S), q # <<>>, Distinct(q)
    PROVE  /\ Distinct(Tail(q))
           /\ Head(q) \notin Elements(Tail(q))
           /\ Elements(Tail(q)) = Elements(q) \ {Head(q)}
<1>1. /\ Head(q) = q[1] /\ \A i \in DOMAIN Tail(q) : Tail(q)[i] = q[i + 1]
  BY TailShape
<1>2. \A i \in DOMAIN Tail(q) : Tail(q)[i] # Head(q)
  BY <1>1, TailIndices DEF Distinct
<1>3. Distinct(Tail(q))
  <2> SUFFICES ASSUME NEW i \in DOMAIN Tail(q), NEW j \in DOMAIN Tail(q), i # j
               PROVE  Tail(q)[i] # Tail(q)[j]
    BY DEF Distinct
  <2>1. i + 1 # j + 1
    BY TailShape
  <2> QED BY <1>1, <2>1, TailIndices DEF Distinct
<1> QED BY <1>2, <1>3, PopElements DEF Elements

-----------------------------------------------------------------------------
(* Places                                                                  *)

\* In a queue without duplicates an element stands at one place or at none.
LEMMA DistinctPlaces ==
    ASSUME NEW S, NEW q \in Seq(S), Distinct(q), NEW e
    PROVE  Cardinality(At(q, e)) = IF e \in Elements(q) THEN 1 ELSE 0
<1>1. CASE e \in Elements(q)
  <2>1. PICK i \in DOMAIN q : q[i] = e
    BY <1>1 DEF Elements
  <2>2. At(q, e) = {i}
    BY <2>1 DEF At, Distinct
  <2> QED BY <1>1, <2>2, FS_Singleton
<1>2. CASE e \notin Elements(q)
  <2>1. At(q, e) = {}
    BY <1>2 DEF At, Elements
  <2> QED BY <1>2, <2>1, FS_EmptySet
<1> QED BY <1>1, <1>2

-----------------------------------------------------------------------------
(* Queues in a row: an element that leaves the front of one for the end of   *)
(* the next does not change what the row holds, nor its order.               *)

LEMMA ConcatAppend ==
    ASSUME NEW S, NEW s \in Seq(S), NEW t \in Seq(S), NEW e \in S
    PROVE  s \o Append(t, e) = Append(s \o t, e)
<1>1. /\ Append(t, e) = t \o <<e>> /\ s \o t \in Seq(S) /\ <<e>> \in Seq(S)
  BY AppendIsConcat, ConcatProperties
<1>2. Append(s \o t, e) = (s \o t) \o <<e>>
  BY <1>1, AppendIsConcat
<1> QED BY <1>1, <1>2, ConcatAssociative

LEMMA FrontAndRest ==
    ASSUME NEW S, NEW s \in Seq(S), s # <<>>
    PROVE  /\ Head(s) \in S /\ Tail(s) \in Seq(S)
           /\ s = <<Head(s)>> \o Tail(s)
<1>1. Head(s) \in S /\ Tail(s) \in Seq(S)
  BY TailShape
<1>2. <<Head(s)>> \in Seq(S) /\ <<Head(s)>> \o Tail(s) \in Seq(S)
  BY <1>1, ConcatProperties
<1>3. /\ Len(<<Head(s)>> \o Tail(s)) = Len(s)
      /\ \A i \in 1 .. Len(s) : (<<Head(s)>> \o Tail(s))[i] = s[i]
  BY <1>1, <1>2, ConcatProperties, TailShape
<1> QED BY <1>1, <1>2, <1>3, SeqEqual

LEMMA ConcatTail ==
    ASSUME NEW S, NEW s \in Seq(S), NEW t \in Seq(S), s # <<>>
    PROVE  /\ s \o t # <<>>
           /\ Head(s \o t) = Head(s) /\ Tail(s \o t) = Tail(s) \o t
<1>1. /\ s \o t \in Seq(S) /\ Len(s \o t) = Len(s) + Len(t)
      /\ Len(s) \in Nat \ {0} /\ Len(t) \in Nat
  BY ConcatProperties, TailShape
<1>2. s \o t # <<>>
  BY <1>1
<1>3. Head(s \o t) = Head(s)
  BY <1>1, <1>2, ConcatProperties, TailShape
<1>4. /\ Tail(s \o t) \in Seq(S) /\ Tail(s) \o t \in Seq(S)
      /\ Len(Tail(s \o t)) = Len(s) + Len(t) - 1
      /\ Len(Tail(s) \o t) = Len(s) + Len(t) - 1
      /\ Len(Tail(s)) = Len(s) - 1
  BY <1>1, <1>2, ConcatProperties, TailShape
<1>5. ASSUME NEW i \in 1 .. Len(s) + Len(t) - 1
      PROVE  Tail(s \o t)[i] = (Tail(s) \o t)[i]
  <2>1. Tail(s \o t)[i] = (s \o t)[i + 1]
    BY <1>1, <1>2, TailShape
  <2>2. (s \o t)[i + 1] = IF i + 1 <= Len(s) THEN s[i + 1] ELSE t[i + 1 - Len(s)]
    BY <1>1, ConcatProperties
  <2>3. (Tail(s) \o t)[i] = IF i <= Len(s) - 1 THEN Tail(s)[i]
                                              ELSE t[i - (Len(s) - 1)]
    BY <1>1, <1>4, ConcatProperties, TailShape
  <2>4. i <= Len(s) - 1 => Tail(s)[i] = s[i + 1]
    BY <1>1, TailShape
  <2> QED BY <1>1, <2>1, <2>2, <2>3, <2>4
<1>6. Tail(s \o t) = Tail(s) \o t
  BY <1>4, <1>5, SeqEqual
<1> QED BY <1>2, <1>3, <1>6

LEMMA ShiftFront ==
    ASSUME NEW S, NEW s \in Seq(S), NEW t \in Seq(S), t # <<>>
    PROVE  Append(s, Head(t)) \o Tail(t) = s \o t
<1>1. /\ Head(t) \in S /\ Tail(t) \in Seq(S) /\ t = <<Head(t)>> \o Tail(t)
      /\ <<Head(t)>> \in Seq(S)
  BY FrontAndRest
<1>2. Append(s, Head(t)) = s \o <<Head(t)>>
  BY <1>1, AppendIsConcat
<1> QED BY <1>1, <1>2, ConcatAssociative

LEMMA ConcatElements ==
    ASSUME NEW S, NEW s \in Seq(S), NEW t \in Seq(S)
    PROVE  Elements(s \o t) = Elements(s) \cup Elements(t)
<1>1. /\ Len(s) \in Nat /\ Len(t) \in Nat
      /\ DOMAIN s = 1 .. Len(s) /\ DOMAIN t = 1 .. Len(t)
      /\ DOMAIN (s \o t) = 1 .. Len(s) + Len(t)
      /\ \A i \in 1 .. Len(s) + Len(t) :
            (s \o t)[i] = IF i <= Len(s) THEN s[i] ELSE t[i - Len(s)]
  BY ConcatProperties, LenProperties
<1>2. ASSUME NEW i \in DOMAIN (s \o t)
      PROVE  (s \o t)[i] \in Elements(s) \cup Elements(t)
  BY <1>1 DEF Elements
<1>3. ASSUME NEW i \in DOMAIN s
      PROVE  s[i] \in Elements(s \o t)
  BY <1>1 DEF Elements
<1>4. ASSUME NEW i \in DOMAIN t
      PROVE  t[i] \in Elements(s \o t)
  <2>1. i + Len(s) \in DOMAIN (s \o t) /\ (s \o t)[i + Len(s)] = t[i]
    BY <1>1
  <2> QED BY <2>1 DEF Elements
<1> QED BY <1>2, <1>3, <1>4 DEF Elements
=============================================================================
