-------------------------- MODULE SubprocessProofs --------------------------
(***************************************************************************)
(* Proofs about Subprocess for any number of workers and any finite set of *)
(* works: how often an action is begun, and what kills the daemon.         *)
(***************************************************************************)
EXTENDS Subprocess, QueueLemmas

\* In a process, a work waits, or is in the hand of one thread, or is done with.
Hands ==
    /\ \A p \in Processes : Distinct(works[p])
    /\ \A t \in Threads : hand[t] \notin Elements(works[t[1]])
    /\ \A t, u \in Threads :
          t # u /\ t[1] = u[1] /\ hand[t] # None => hand[u] # hand[t]

\* Which children there are: only of processes that exist, and one for a work
\* from the fork on.  Until execv has failed the thread of a child is where it was
\* copied.
Family ==
    /\ IsFiniteSet(Processes)
    /\ \A p \in Seq(Works) : \A k \in Works :
          Append(p, k) \in Processes => p \in Processes
    /\ \A p \in Processes : \A k \in Elements(works[p]) :
          k \notin Elements(p) /\ Append(p, k) \notin Processes
    /\ \A t \in Threads :
          /\ pc[t] \in {"pipe", "fork"} => Sub(t) \notin Processes
          /\ pc[t] \in {"parent", "write", "close", "wait"} => Sub(t) \in Processes
          /\ state[t[1]] = "forked" => pc[t] = "get"

\* A pipe is opened by the parent.  A child has the read end of its pipe until
\* it ends or lingers, and its parent has the write end until it closes it.
PipeEnds ==
    /\ \A e \in readers \cup writers : \A p \in Seq(Works) : \A k \in Works :
          e[2] = Append(p, k) => p \in Processes
    /\ \A c \in Children :
          /\ state[c] \in {"forked", "running", "worker"} => <<c, c>> \in readers
          /\ state[c] = "lingers" => Closed(writers, c)
    /\ \A t \in Threads : state[t[1]] = "worker" =>
          /\ pc[t] \in {"fork", "parent", "write", "close"} =>
                <<t[1], Sub(t)>> \in writers
          /\ pc[t] = "fork" => <<t[1], Sub(t)>> \in readers

\* Children whose execv failed and that have no copy of k left to run.
Ran(k) == {c \in Copies : k \notin Elements(c) /\ k \notin Elements(works[c])}

\* The daemon begins a work that no longer waits once, and so does each child
\* that lost its copy of the work.
Begun ==
    \A k \in Works :
       begun[k] <= (IF k \in Elements(works[Daemon]) THEN 0 ELSE 1)
                   + Cardinality(Ran(k))

IInv == TypeOK /\ Hands /\ Family /\ PipeEnds /\ Begun /\ DownNeedsEarlyExit

-----------------------------------------------------------------------------
(* Facts the steps share                                                   *)

\* The name of a child tells its parent and the work.
LEMMA ChildNames ==
    ASSUME NEW p \in Seq(Works), NEW k \in Works
    PROVE  /\ Append(p, k) \in Seq(Works) /\ Append(p, k) # p
           /\ Append(p, k) # Daemon
           /\ Elements(Append(p, k)) = Elements(p) \cup {k}
           /\ \A q \in Seq(Works) : \A j \in Works :
                 Append(q, j) = Append(p, k) => q = p /\ j = k
<1>1. /\ Append(p, k) \in Seq(Works) /\ Len(Append(p, k)) = Len(p) + 1
      /\ Len(p) \in Nat /\ Len(<<>>) = 0
      /\ \A i \in 1 .. Len(p) : Append(p, k)[i] = p[i]
      /\ Append(p, k)[Len(p) + 1] = k
  OBVIOUS
<1>2. ASSUME NEW q \in Seq(Works), NEW j \in Works, Append(q, j) = Append(p, k)
      PROVE  q = p /\ j = k
  <2>1. /\ Len(Append(q, j)) = Len(q) + 1 /\ Len(q) \in Nat
        /\ \A i \in 1 .. Len(q) : Append(q, j)[i] = q[i]
        /\ Append(q, j)[Len(q) + 1] = j
    OBVIOUS
  <2>2. Len(q) = Len(p) /\ j = k
    BY <1>1, <1>2, <2>1
  <2>3. \A i \in 1 .. Len(p) : q[i] = p[i]
    BY <1>1, <1>2, <2>1, <2>2
  <2> QED BY <2>2, <2>3
<1>3. Append(p, k) # p /\ Append(p, k) # Daemon
  BY <1>1 DEF Daemon
<1> QED BY <1>1, <1>2, <1>3, AppendElements

\* What is below a child is below its parent.
LEMMA Below ==
    ASSUME NEW p \in Seq(Works)
    PROVE  /\ IsPrefix(p, p)
           /\ \A k \in Works : \A q \in Seq(Works) :
                 IsPrefix(Append(p, k), q) => IsPrefix(p, q)
<1>1. IsPrefix(p, p)
  BY DEF IsPrefix
<1>2. ASSUME NEW k \in Works, NEW q \in Seq(Works), IsPrefix(Append(p, k), q)
      PROVE  IsPrefix(p, q)
  <2> DEFINE c == Append(p, k)
             n == Len(p)
  <2>1. /\ n \in Nat /\ Len(c) = n + 1 /\ Len(q) \in Nat
        /\ \A i \in 1 .. n : c[i] = p[i]
        /\ c \in Seq(Works)
    OBVIOUS
  <2>2. n + 1 <= Len(q) /\ SubSeq(c, 1, n + 1) = SubSeq(q, 1, n + 1)
    BY <1>2, <2>1 DEF IsPrefix
  <2>3. /\ \A i \in 1 .. n + 1 : q[i] \in Works /\ c[i] \in Works
        /\ \A i \in 1 .. n : p[i] \in Works
    BY <2>1, <2>2
  <2>4. \A i \in 1 .. n + 1 : SubSeq(c, 1, n + 1)[i] = c[i]
                              /\ SubSeq(q, 1, n + 1)[i] = q[i]
    BY <2>1, <2>3, SubSeqProperties
  <2>5. \A i \in 1 .. n : q[i] = p[i]
    BY <2>1, <2>2, <2>4
  <2>6. /\ SubSeq(p, 1, n) \in Seq(Works) /\ SubSeq(q, 1, n) \in Seq(Works)
        /\ Len(SubSeq(p, 1, n)) = n /\ Len(SubSeq(q, 1, n)) = n
        /\ \A i \in 1 .. n : SubSeq(p, 1, n)[i] = p[i] /\ SubSeq(q, 1, n)[i] = q[i]
    BY <2>1, <2>3, SubSeqProperties
  <2>7. SubSeq(p, 1, n) = SubSeq(q, 1, n)
    BY <2>5, <2>6
  <2> QED BY <2>1, <2>2, <2>7 DEF IsPrefix
<1> QED BY <1>1, <1>2

\* A thread past its first step has a work in hand, and a child of its own.
LEMMA InHand ==
    ASSUME TypeOK, Hands, NEW t \in Threads
    PROVE  /\ t[1] \in Processes /\ t[1] \in Seq(Works) /\ t[2] \in Workers
           /\ t = <<t[1], t[2]>>
           /\ pc[t] # "get" =>
                 /\ hand[t] \in Works /\ hand[t] # None
                 /\ Sub(t) \in Seq(Works) /\ Sub(t) # t[1] /\ Sub(t) # Daemon
                 /\ \A u \in Threads \ {t} : pc[u] # "get" => Sub(u) # Sub(t)
<1>1. \A u \in Threads : /\ u[1] \in Processes /\ u[1] \in Seq(Works)
                         /\ u[2] \in Workers /\ u = <<u[1], u[2]>>
                         /\ pc[u] # "get" => hand[u] \in Works /\ hand[u] # None
  BY NamesOK DEF TypeOK
<1>2. ASSUME pc[t] # "get", NEW u \in Threads \ {t}, pc[u] # "get"
      PROVE  Sub(u) # Sub(t)
  <2>1. ASSUME Append(u[1], hand[u]) = Append(t[1], hand[t]) PROVE FALSE
    <3>1. /\ u[1] \in Seq(Works) /\ hand[u] \in Works
          /\ t[1] \in Seq(Works) /\ hand[t] \in Works
      BY <1>1, <1>2
    <3>2. \A q \in Seq(Works) : \A j \in Works :
             Append(q, j) = Append(t[1], hand[t]) => q = t[1] /\ j = hand[t]
      BY <3>1, ChildNames
    <3>3. u[1] = t[1] /\ hand[u] = hand[t]
      BY <2>1, <3>1, <3>2
    <3> QED BY <1>1, <1>2, <3>3 DEF Hands
  <2> QED BY <2>1 DEF Sub
<1>3. pc[t] # "get" => Sub(t) \in Seq(Works) /\ Sub(t) # t[1] /\ Sub(t) # Daemon
  BY <1>1, ChildNames DEF Sub
<1> QED BY <1>1, <1>2, <1>3

\* Where Goto takes a thread.
LEMMA GotoMoves ==
    ASSUME TypeOK, NEW t \in Threads, NEW from, NEW to \in Places,
           Goto(t, from, to)
    PROVE  /\ state[t[1]] = "worker" /\ pc[t] = from /\ pc'[t] = to
           /\ \A u \in Threads \ {t} : pc'[u] = pc[u]
           /\ pc' \in [Threads -> Places] /\ Threads' = Threads
BY DEF Goto, TypeOK, Threads

LEMMA RanFinite ==
    ASSUME Family, NEW k
    PROVE  IsFiniteSet(Ran(k)) /\ Cardinality(Ran(k)) \in Nat
<1>1. Ran(k) \in SUBSET Processes
  BY DEF Ran, Copies, Children
<1> QED BY <1>1, FS_Subset, FS_CardinalityType DEF Family

\* A step that begins no action and takes no copy of a failed child.
LEMMA BegunKept ==
    ASSUME TypeOK, Family, Begun, Family', begun' = begun,
           works'[Daemon] = works[Daemon],
           \A c \in Copies : c \in Copies' /\ works'[c] = works[c]
    PROVE  Begun'
<1> SUFFICES ASSUME NEW k \in Works
             PROVE  begun'[k] <= (IF k \in Elements(works'[Daemon]) THEN 0 ELSE 1)
                                 + Cardinality(Ran(k)')
  BY DEF Begun, Daemon
<1>1. Ran(k) \in SUBSET Ran(k)'
  BY DEF Ran
<1>2. IsFiniteSet(Ran(k)') /\ Cardinality(Ran(k)') \in Nat
  <2>1. Ran(k)' \in SUBSET Processes'
    BY DEF Ran, Copies, Children
  <2> QED BY <2>1, FS_Subset, FS_CardinalityType DEF Family
<1>3. Cardinality(Ran(k)) <= Cardinality(Ran(k)')
  BY <1>1, <1>2, FS_Subset
<1>4. begun[k] \in Nat
  BY DEF TypeOK
<1>5. begun[k] <= (IF k \in Elements(works[Daemon]) THEN 0 ELSE 1)
                  + Cardinality(Ran(k))
  BY DEF Begun
<1> QED BY <1>2, <1>3, <1>4, <1>5, RanFinite

\* A step that kills nobody: what was killed and what had exited stays so.
LEMMA DownKept ==
    ASSUME TypeOK, Hands, DownNeedsEarlyExit,
           Threads \subseteq Threads', Processes \subseteq Processes',
           \A p \in Processes' :
              state'[p] = "killed" => p \in Processes /\ state[p] = "killed",
           \A p \in Processes :
              state[p] \in {"killed", "exited"} => state'[p] = state[p],
           \A t \in Threads :
              state[t[1]] = "killed" => pc'[t] = pc[t] /\ hand'[t] = hand[t]
    PROVE  DownNeedsEarlyExit'
<1> SUFFICES ASSUME NEW p \in Processes', state'[p] = "killed"
             PROVE  \E t \in Threads' : /\ IsPrefix(p, t[1])
                                        /\ state'[t[1]] = "killed"
                                        /\ pc'[t] = "write"
                                        /\ Sub(t)' \in Children'
                                        /\ state'[Sub(t)'] = "exited"
  BY DEF DownNeedsEarlyExit
<1>1. PICK t \in Threads : /\ IsPrefix(p, t[1]) /\ state[t[1]] = "killed"
                           /\ pc[t] = "write"
                           /\ Sub(t) \in Children /\ state[Sub(t)] = "exited"
  BY DEF DownNeedsEarlyExit
<1>2. Sub(t)' = Sub(t)
  BY <1>1 DEF Sub
<1>3. t[1] \in Processes /\ Sub(t) \in Processes
  BY <1>1, InHand DEF Children
<1>4. Sub(t) \in Children'
  BY <1>1, <1>3 DEF Children, Daemon
<1> QED BY <1>1, <1>2, <1>3, <1>4

-----------------------------------------------------------------------------
(* The steps of a thread                                                   *)

LEMMA GetWorkKeeps ==
    ASSUME IInv, NEW t \in Threads, GetWork(t)
    PROVE  IInv'
<1>0. TypeOK /\ Hands /\ Family /\ PipeEnds /\ Begun
  BY DEF IInv
<1>1. PICK p \in Processes, k \in Works :
         p = t[1] /\ k = Head(works[p]) /\ works[p] # <<>> /\ p \in Seq(Works)
  <2>1. t[1] \in Processes /\ t[1] \in Seq(Works) /\ works[t[1]] \in Seq(Works)
    BY <1>0, InHand DEF TypeOK
  <2> QED BY <2>1, TailShape DEF GetWork
<1>2. /\ works' = [works EXCEPT ![p] = Tail(@)] /\ hand' = [hand EXCEPT ![t] = k]
      /\ begun' = [begun EXCEPT ![k] = @ + 1]
      /\ UNCHANGED <<state, readers, writers>>
      /\ Goto(t, "get", "pipe")
  BY <1>1 DEF GetWork, pipes
<1>3. /\ state[p] = "worker" /\ pc[t] = "get" /\ pc'[t] = "pipe"
      /\ \A u \in Threads \ {t} : pc'[u] = pc[u]
      /\ pc' \in [Threads -> Places] /\ Threads' = Threads
  BY <1>0, <1>1, <1>2, GotoMoves DEF Places
<1>4. /\ Processes' = Processes /\ Children' = Children /\ Copies' = Copies
  BY <1>2 DEF Processes, Children, Copies, Daemon
<1>5. /\ Tail(works[p]) \in Seq(Works) /\ Distinct(Tail(works[p]))
      /\ k \in Elements(works[p])
      /\ Elements(Tail(works[p])) = Elements(works[p]) \ {k}
  <2>1. works[p] \in Seq(Works) /\ Distinct(works[p])
    BY <1>0 DEF TypeOK, Hands
  <2> QED BY <1>1, <2>1, TailShape, PopDistinct, PopElements
<1>6. /\ works' \in [Processes -> Seq(Works)] /\ works'[p] = Tail(works[p])
      /\ \A q \in Processes \ {p} : works'[q] = works[q]
  BY <1>0, <1>2, <1>5 DEF TypeOK
<1>7. /\ hand' \in [Threads -> Works \cup {None}] /\ hand'[t] = k /\ k # None
      /\ \A u \in Threads \ {t} : hand'[u] = hand[u] /\ Sub(u)' = Sub(u)
      /\ Sub(t)' = Append(p, k)
  BY <1>0, <1>1, <1>2, NamesOK DEF TypeOK, Sub
<1>8. begun' \in [Works -> Nat] /\ begun'[k] = begun[k] + 1
      /\ \A j \in Works \ {k} : begun'[j] = begun[j]
  BY <1>0, <1>2 DEF TypeOK
<1>9. TypeOK'
  <2>1. \A e \in writers' : e[2] \in {Append(e[1], j) : j \in Works} =>
           \E u \in Threads' : /\ u[1] = e[1] /\ pc'[u] \notin {"get", "pipe", "wait"}
                               /\ Sub(u)' = e[2]
    <3> SUFFICES ASSUME NEW e \in writers, e[2] \in {Append(e[1], j) : j \in Works}
                 PROVE  \E u \in Threads : /\ u[1] = e[1]
                                           /\ pc'[u] \notin {"get", "pipe", "wait"}
                                           /\ Sub(u)' = e[2]
      BY <1>2, <1>3
    <3>1. PICK u \in Threads : /\ u[1] = e[1] /\ pc[u] \notin {"get", "pipe", "wait"}
                               /\ Sub(u) = e[2]
      BY <1>0 DEF TypeOK
    <3> QED BY <1>3, <1>7, <3>1
  <2>2. \A u \in Threads : pc'[u] = "get" <=> hand'[u] = None
    <3>1. \A u \in Threads : pc[u] = "get" <=> hand[u] = None
      BY <1>0 DEF TypeOK
    <3> QED BY <1>3, <1>7, <3>1
  <2> QED BY <1>0, <1>2, <1>3, <1>4, <1>6, <1>7, <1>8, <2>1, <2>2 DEF TypeOK
<1>10. Hands'
  <2>1. \A q \in Processes : Distinct(works'[q])
    BY <1>0, <1>5, <1>6 DEF Hands
  <2>2. \A u \in Threads : hand'[u] \notin Elements(works'[u[1]])
    <3> TAKE u \in Threads
    <3>1. u[1] \in Processes /\ hand[u] \notin Elements(works[u[1]])
      BY <1>0, InHand DEF Hands
    <3>2. Elements(works'[u[1]]) \subseteq Elements(works[u[1]])
      BY <1>5, <1>6, <3>1
    <3>3. CASE u = t
      BY <1>1, <1>5, <1>6, <1>7, <3>3
    <3>4. CASE u # t
      BY <1>7, <3>1, <3>2, <3>4
    <3> QED BY <3>3, <3>4
  <2>3. \A u \in Threads : u[1] = p => hand[u] # k
    BY <1>0, <1>5 DEF Hands
  <2>4. \A u, v \in Threads :
           u # v /\ u[1] = v[1] /\ hand'[u] # None => hand'[v] # hand'[u]
    <3> SUFFICES ASSUME NEW u \in Threads, NEW v \in Threads, u # v, u[1] = v[1],
                        hand'[u] # None
                 PROVE  hand'[v] # hand'[u]
      OBVIOUS
    <3>1. u # t /\ v # t => hand[v] # hand[u]
      BY <1>0, <1>7 DEF Hands
    <3> QED BY <1>1, <1>7, <2>3, <3>1
  <2> QED BY <1>3, <1>4, <2>1, <2>2, <2>4 DEF Hands
<1>11. Family'
  <2>1. \A q \in Processes : Elements(works'[q]) \subseteq Elements(works[q])
    BY <1>5, <1>6
  <2>2. /\ pc'[t] \in {"pipe", "fork"} => Sub(t)' \notin Processes
        /\ pc'[t] \in {"parent", "write", "close", "wait"} => Sub(t)' \in Processes
        /\ state'[t[1]] # "forked"
    BY <1>0, <1>1, <1>2, <1>3, <1>5, <1>7 DEF Family
  <2>3. \A u \in Threads \ {t} :
          /\ pc'[u] \in {"pipe", "fork"} => Sub(u)' \notin Processes
          /\ pc'[u] \in {"parent", "write", "close", "wait"} => Sub(u)' \in Processes
          /\ state'[u[1]] = "forked" => pc'[u] = "get"
    BY <1>0, <1>2, <1>3, <1>7 DEF Family
  <2> QED BY <1>0, <1>3, <1>4, <2>1, <2>2, <2>3 DEF Family
<1>12. PipeEnds'
  <2>1. \A u \in Threads : state'[u[1]] = "worker" =>
          /\ pc'[u] \in {"fork", "parent", "write", "close"} =>
                <<u[1], Sub(u)'>> \in writers'
          /\ pc'[u] = "fork" => <<u[1], Sub(u)'>> \in readers'
    BY <1>0, <1>2, <1>3, <1>7 DEF PipeEnds
  <2> QED BY <1>0, <1>2, <1>3, <1>4, <2>1 DEF PipeEnds, Closed
<1>13. Begun'
  <2> SUFFICES ASSUME NEW j \in Works
               PROVE  begun'[j] <= (IF j \in Elements(works'[Daemon]) THEN 0 ELSE 1)
                                   + Cardinality(Ran(j)')
    BY DEF Begun, Daemon
  <2>1. /\ begun[j] <= (IF j \in Elements(works[Daemon]) THEN 0 ELSE 1)
                       + Cardinality(Ran(j))
        /\ begun[j] \in Nat
    BY <1>0 DEF Begun, TypeOK
  <2>2. IsFiniteSet(Ran(j)) /\ Cardinality(Ran(j)) \in Nat
    BY <1>0, RanFinite
  <2>3. CASE p = Daemon
    <3>1. Ran(j)' = Ran(j)
      BY <1>4, <1>6, <2>3 DEF Ran, Copies, Children
    <3>2. /\ j # k => (j \in Elements(works'[Daemon]) <=> j \in Elements(works[Daemon]))
          /\ k \in Elements(works[Daemon]) /\ k \notin Elements(works'[Daemon])
      BY <1>5, <1>6, <2>3
    <3> QED BY <1>8, <2>1, <2>2, <3>1, <3>2
  <2>4. CASE p # Daemon
    <3>1. works'[Daemon] = works[Daemon]
      BY <1>0, <1>6, <2>4 DEF TypeOK
    <3>2. CASE j = k
      <4>1. k \notin Elements(p)
        BY <1>0, <1>5 DEF Family
      <4>2. p \in Copies /\ p \notin Ran(k)
        BY <1>3, <1>5, <2>4 DEF Copies, Children, Ran
      <4>3. Ran(k)' = Ran(k) \cup {p}
        BY <1>4, <1>5, <1>6, <4>1, <4>2 DEF Ran, Copies, Children
      <4>4. Cardinality(Ran(k)') = Cardinality(Ran(k)) + 1
        BY <2>2, <3>2, <4>2, <4>3, FS_AddElement
      <4> QED BY <1>8, <2>1, <2>2, <3>1, <3>2, <4>4
    <3>3. CASE j # k
      <4>1. Ran(j)' = Ran(j)
        BY <1>4, <1>5, <1>6, <3>3 DEF Ran, Copies, Children
      <4> QED BY <1>8, <2>1, <3>1, <3>3, <4>1
    <3> QED BY <3>2, <3>3
  <2> QED BY <2>3, <2>4
<1>14. DownNeedsEarlyExit'
  <2>1. \A u \in Threads : state[u[1]] = "killed" => pc'[u] = pc[u] /\ hand'[u] = hand[u]
    BY <1>1, <1>3, <1>7
  <2> QED BY <1>0, <1>2, <1>3, <1>4, <2>1, DownKept DEF IInv
<1> QED BY <1>9, <1>10, <1>11, <1>12, <1>13, <1>14 DEF IInv

LEMMA OpenPipesKeeps ==
    ASSUME IInv, NEW t \in Threads, OpenPipes(t)
    PROVE  IInv'
<1>0. TypeOK /\ Hands /\ Family /\ PipeEnds /\ Begun
  BY DEF IInv
<1>1. Goto(t, "pipe", "fork") /\ UNCHANGED <<state, works, hand, begun>>
  BY DEF OpenPipes
<1>2. /\ state[t[1]] = "worker" /\ pc[t] = "pipe" /\ pc'[t] = "fork"
      /\ \A u \in Threads \ {t} : pc'[u] = pc[u]
      /\ pc' \in [Threads -> Places] /\ Threads' = Threads
  BY <1>0, <1>1, GotoMoves DEF Places
<1>3. PICK p \in Processes, c \in Seq(Works) :
         /\ p = t[1] /\ c = Sub(t) /\ p \in Seq(Works) /\ c # p
         /\ hand[t] \in Works /\ hand[t] # None
         /\ \A u \in Threads \ {t} : pc[u] # "get" => Sub(u) # c
  BY <1>0, <1>2, InHand
<1>4. /\ readers' = readers \cup {<<p, c>>} /\ writers' = writers \cup {<<p, c>>}
  BY <1>3 DEF OpenPipes
<1>5. /\ Processes' = Processes /\ Children' = Children /\ Copies' = Copies
      /\ \A u \in Threads : Sub(u)' = Sub(u)
  BY <1>1 DEF Processes, Children, Copies, Daemon, Sub
<1>6. c \notin Processes
  BY <1>0, <1>2, <1>3 DEF Family
<1>7. TypeOK'
  <2>1. \A e \in writers' : e[2] \in {Append(e[1], j) : j \in Works} =>
           \E u \in Threads : /\ u[1] = e[1] /\ pc'[u] \notin {"get", "pipe", "wait"}
                              /\ Sub(u)' = e[2]
    <3> SUFFICES ASSUME NEW e \in writers', e[2] \in {Append(e[1], j) : j \in Works}
                 PROVE  \E u \in Threads : /\ u[1] = e[1]
                                           /\ pc'[u] \notin {"get", "pipe", "wait"}
                                           /\ Sub(u) = e[2]
      BY <1>5
    <3>1. CASE e = <<p, c>>
      BY <1>2, <1>3, <3>1
    <3>2. CASE e \in writers
      <4>1. PICK u \in Threads : /\ u[1] = e[1] /\ pc[u] \notin {"get", "pipe", "wait"}
                                 /\ Sub(u) = e[2]
        BY <1>0, <3>2 DEF TypeOK
      <4> QED BY <1>2, <4>1
    <3> QED BY <1>4, <3>1, <3>2
  <2>2. \A u \in Threads : pc'[u] = "get" <=> hand'[u] = None
    <3>1. \A u \in Threads : pc[u] = "get" <=> hand[u] = None
      BY <1>0 DEF TypeOK
    <3> QED BY <1>1, <1>2, <1>3, <3>1
  <2>3. /\ readers' \subseteq Processes \X Seq(Works)
        /\ writers' \subseteq Processes \X Seq(Works)
    BY <1>0, <1>3, <1>4 DEF TypeOK
  <2> QED BY <1>0, <1>1, <1>2, <1>5, <2>1, <2>2, <2>3 DEF TypeOK
<1>8. Hands'
  BY <1>0, <1>1, <1>2, <1>5 DEF Hands
<1>9. Family'
  <2>1. \A u \in Threads :
          /\ pc'[u] \in {"pipe", "fork"} => Sub(u)' \notin Processes
          /\ pc'[u] \in {"parent", "write", "close", "wait"} => Sub(u)' \in Processes
          /\ state'[u[1]] = "forked" => pc'[u] = "get"
    BY <1>0, <1>1, <1>2, <1>3, <1>5, <1>6 DEF Family
  <2> QED BY <1>0, <1>1, <1>2, <1>5, <2>1 DEF Family
<1>10. PipeEnds'
  <2>1. \A e \in readers' \cup writers' : \A q \in Seq(Works) : \A k \in Works :
          e[2] = Append(q, k) => q \in Processes
    <3> SUFFICES ASSUME NEW e \in readers' \cup writers', NEW q \in Seq(Works),
                        NEW k \in Works, e[2] = Append(q, k)
                 PROVE  q \in Processes
      OBVIOUS
    <3>1. CASE e = <<p, c>>
      <4>1. Append(q, k) = Append(p, hand[t])
        BY <1>3, <3>1 DEF Sub
      <4>2. \A r \in Seq(Works) : \A j \in Works :
               Append(r, j) = Append(p, hand[t]) => r = p /\ j = hand[t]
        BY <1>3, ChildNames
      <4>3. q = p
        BY <1>3, <4>1, <4>2
      <4> QED BY <4>3
    <3>2. CASE e \in readers \cup writers
      BY <1>0, <3>2 DEF PipeEnds
    <3> QED BY <1>4, <3>1, <3>2
  <2>2. \A d \in Children :
          /\ state'[d] \in {"forked", "running", "worker"} => <<d, d>> \in readers'
          /\ state'[d] = "lingers" => Closed(writers', d)
    <3> SUFFICES ASSUME NEW d \in Children
                 PROVE  /\ state[d] \in {"forked", "running", "worker"} =>
                              <<d, d>> \in readers'
                        /\ state[d] = "lingers" => Closed(writers', d)
      BY <1>1
    <3>1. d # c
      BY <1>6 DEF Children
    <3>2. \A e : e \in writers' <=> e \in writers \/ e = <<p, c>>
      BY <1>4
    <3>3. Closed(writers, d) => Closed(writers', d)
      BY <3>1, <3>2 DEF Closed
    <3>4. /\ state[d] \in {"forked", "running", "worker"} => <<d, d>> \in readers
          /\ state[d] = "lingers" => Closed(writers, d)
      BY <1>0 DEF PipeEnds
    <3> QED BY <1>4, <3>3, <3>4
  <2>3. \A u \in Threads : state'[u[1]] = "worker" =>
          /\ pc'[u] \in {"fork", "parent", "write", "close"} =>
                <<u[1], Sub(u)'>> \in writers'
          /\ pc'[u] = "fork" => <<u[1], Sub(u)'>> \in readers'
    BY <1>0, <1>1, <1>2, <1>3, <1>4, <1>5 DEF PipeEnds
  <2>4. \A d : Closed(writers, d)' = Closed(writers', d)
    BY DEF Closed
  <2> QED BY <1>2, <1>5, <2>1, <2>2, <2>3, <2>4 DEF PipeEnds
<1>11. Begun'
  BY <1>0, <1>1, <1>5, <1>9, BegunKept DEF Daemon
<1>12. DownNeedsEarlyExit'
  <2>1. \A u \in Threads : state[u[1]] = "killed" => pc'[u] = pc[u] /\ hand'[u] = hand[u]
    BY <1>1, <1>2
  <2> QED BY <1>0, <1>1, <1>2, <1>5, <2>1, DownKept DEF IInv
<1> QED BY <1>7, <1>8, <1>9, <1>10, <1>11, <1>12 DEF IInv

\* The subprocess was not made, or is over: the process has no end of its pipe
\* left, and the thread takes the next work.
LEMMA AnswerKeeps ==
    ASSUME IInv, NEW t \in Threads,
           PipesFail(t) \/ ForkFails(t) \/ WriteFails(t) \/ Reap(t) \/ ReapFails(t)
    PROVE  IInv'
<1>0. TypeOK /\ Hands /\ Family /\ PipeEnds /\ Begun
  BY DEF IInv
<1>1. /\ \/ Goto(t, "pipe", "get") \/ Goto(t, "fork", "get")
         \/ Goto(t, "write", "get") \/ Goto(t, "wait", "get")
      /\ Answer(t)
      /\ UNCHANGED <<state, works, begun>>
  BY DEF PipesFail, ForkFails, WriteFails, Reap, ReapFails
<1>2. /\ state[t[1]] = "worker" /\ pc[t] \in {"pipe", "fork", "write", "wait"}
      /\ pc'[t] = "get"
      /\ \A u \in Threads \ {t} : pc'[u] = pc[u]
      /\ pc' \in [Threads -> Places] /\ Threads' = Threads
  BY <1>0, <1>1, GotoMoves DEF Places
<1>3. PICK p \in Processes, c \in Seq(Works) :
         /\ p = t[1] /\ c = Sub(t) /\ p \in Seq(Works) /\ c # p
         /\ hand[t] \in Works /\ hand[t] # None
         /\ \A u \in Threads \ {t} : pc[u] # "get" => Sub(u) # c
  BY <1>0, <1>2, InHand
<1>4. /\ hand' \in [Threads -> Works \cup {None}] /\ hand'[t] = None
      /\ \A u \in Threads \ {t} : hand'[u] = hand[u] /\ Sub(u)' = Sub(u)
  BY <1>0, <1>1 DEF Answer, TypeOK, Sub
<1>5. /\ Processes' = Processes /\ Children' = Children /\ Copies' = Copies
  BY <1>1 DEF Processes, Children, Copies, Daemon
<1>6. /\ readers \ {<<p, c>>} \subseteq readers' /\ readers' \subseteq readers
      /\ writers \ {<<p, c>>} \subseteq writers' /\ writers' \subseteq writers
      /\ <<p, c>> \notin writers'
  <2>1. CASE ForkFails(t) \/ WriteFails(t)
    BY <1>3, <2>1 DEF ForkFails, WriteFails
  <2>2. CASE PipesFail(t) \/ Reap(t) \/ ReapFails(t)
    <3>1. readers' = readers /\ writers' = writers /\ pc[t] \in {"pipe", "wait"}
      BY <2>2 DEF PipesFail, Reap, ReapFails, pipes, Goto
    <3>2. ASSUME <<p, c>> \in writers PROVE FALSE
      <4>1. c \in {Append(p, k) : k \in Works}
        BY <1>3 DEF Sub
      <4>2. PICK u \in Threads : pc[u] \notin {"get", "pipe", "wait"} /\ Sub(u) = c
        BY <1>0, <3>2, <4>1 DEF TypeOK
      <4> QED BY <1>3, <3>1, <4>2
    <3> QED BY <3>1, <3>2
  <2> QED BY <2>1, <2>2
<1>7. TypeOK'
  <2>1. \A e \in writers' : e[2] \in {Append(e[1], j) : j \in Works} =>
           \E u \in Threads : /\ u[1] = e[1] /\ pc'[u] \notin {"get", "pipe", "wait"}
                              /\ Sub(u)' = e[2]
    <3> SUFFICES ASSUME NEW e \in writers', e[2] \in {Append(e[1], j) : j \in Works}
                 PROVE  \E u \in Threads : /\ u[1] = e[1]
                                           /\ pc'[u] \notin {"get", "pipe", "wait"}
                                           /\ Sub(u)' = e[2]
      OBVIOUS
    <3>1. /\ e \in writers /\ e # <<p, c>>
          /\ e \in Processes \X Seq(Works) /\ e = <<e[1], e[2]>>
      <4>1. e \in writers /\ e # <<p, c>>
        BY <1>6
      <4>2. e \in Processes \X Seq(Works)
        BY <1>0, <4>1 DEF TypeOK
      <4> QED BY <4>1, <4>2
    <3>2. PICK u \in Threads : /\ u[1] = e[1] /\ pc[u] \notin {"get", "pipe", "wait"}
                               /\ Sub(u) = e[2]
      BY <1>0, <3>1 DEF TypeOK
    <3>3. u # t
      BY <1>3, <3>1, <3>2
    <3> QED BY <1>2, <1>4, <3>2, <3>3
  <2>2. \A u \in Threads : pc'[u] = "get" <=> hand'[u] = None
    <3>1. \A u \in Threads : pc[u] = "get" <=> hand[u] = None
      BY <1>0 DEF TypeOK
    <3> QED BY <1>2, <1>4, <3>1
  <2>3. /\ readers' \subseteq Processes \X Seq(Works)
        /\ writers' \subseteq Processes \X Seq(Works)
    BY <1>0, <1>6 DEF TypeOK
  <2> QED BY <1>0, <1>1, <1>2, <1>4, <1>5, <2>1, <2>2, <2>3 DEF TypeOK
<1>8. Hands'
  <2>1. \A q \in Processes : None \notin Elements(works[q])
    BY <1>0, NamesOK, ElementsInRange DEF TypeOK
  <2>2. \A u \in Threads : hand'[u] \notin Elements(works'[u[1]])
    BY <1>0, <1>1, <1>3, <1>4, <2>1 DEF Hands
  <2>3. \A u, v \in Threads :
           u # v /\ u[1] = v[1] /\ hand'[u] # None => hand'[v] # hand'[u]
    BY <1>0, <1>4 DEF Hands
  <2> QED BY <1>0, <1>1, <1>2, <1>5, <2>2, <2>3 DEF Hands
<1>9. Family'
  <2>1. \A u \in Threads :
          /\ pc'[u] \in {"pipe", "fork"} => Sub(u)' \notin Processes
          /\ pc'[u] \in {"parent", "write", "close", "wait"} => Sub(u)' \in Processes
          /\ state'[u[1]] = "forked" => pc'[u] = "get"
    BY <1>0, <1>1, <1>2, <1>4 DEF Family
  <2> QED BY <1>0, <1>1, <1>2, <1>5, <2>1 DEF Family
<1>10. PipeEnds'
  <2>1. \A d \in Children :
          /\ state'[d] \in {"forked", "running", "worker"} => <<d, d>> \in readers'
          /\ state'[d] = "lingers" => Closed(writers', d)
    BY <1>0, <1>1, <1>3, <1>6 DEF PipeEnds, Closed
  <2>2. \A u \in Threads : state'[u[1]] = "worker" =>
          /\ pc'[u] \in {"fork", "parent", "write", "close"} =>
                <<u[1], Sub(u)'>> \in writers'
          /\ pc'[u] = "fork" => <<u[1], Sub(u)'>> \in readers'
    <3> SUFFICES ASSUME NEW u \in Threads, state[u[1]] = "worker",
                        pc'[u] \in {"fork", "parent", "write", "close"}
                 PROVE  /\ <<u[1], Sub(u)'>> \in writers'
                        /\ pc'[u] = "fork" => <<u[1], Sub(u)'>> \in readers'
      BY <1>1
    <3>1. u # t /\ pc'[u] = pc[u] /\ Sub(u)' = Sub(u) /\ Sub(u) # c
      BY <1>2, <1>3, <1>4
    <3> QED BY <1>0, <1>6, <3>1 DEF PipeEnds
  <2>3. \A d : Closed(writers, d)' = Closed(writers', d)
    BY DEF Closed
  <2> QED BY <1>0, <1>2, <1>5, <1>6, <2>1, <2>2, <2>3 DEF PipeEnds
<1>11. Begun'
  BY <1>0, <1>1, <1>5, <1>9, BegunKept DEF Daemon
<1>12. DownNeedsEarlyExit'
  <2>1. \A u \in Threads : state[u[1]] = "killed" => pc'[u] = pc[u] /\ hand'[u] = hand[u]
    BY <1>2, <1>4
  <2> QED BY <1>0, <1>1, <1>2, <1>5, <2>1, DownKept DEF IInv
<1> QED BY <1>7, <1>8, <1>9, <1>10, <1>11, <1>12 DEF IInv

\* The parent goes on with its child: it closes an end, or writes.
LEMMA AdvanceKeeps ==
    ASSUME IInv, NEW t \in Threads,
           CloseReadEnd(t) \/ Write(t) \/ CloseWriteEnd(t)
    PROVE  IInv'
<1>0. TypeOK /\ Hands /\ Family /\ PipeEnds /\ Begun
  BY DEF IInv
<1>1. /\ \/ Goto(t, "parent", "write") \/ Goto(t, "write", "close")
         \/ Goto(t, "close", "wait")
      /\ UNCHANGED <<state, works, hand, begun>>
  BY DEF CloseReadEnd, Write, CloseWriteEnd
<1>2. /\ state[t[1]] = "worker" /\ pc[t] \in {"parent", "write", "close"}
      /\ pc'[t] \in {"write", "close", "wait"}
      /\ \A u \in Threads \ {t} : pc'[u] = pc[u]
      /\ pc' \in [Threads -> Places] /\ Threads' = Threads
  BY <1>0, <1>1, GotoMoves DEF Places
<1>3. PICK p \in Processes, c \in Seq(Works) :
         /\ p = t[1] /\ c = Sub(t) /\ p \in Seq(Works) /\ c # p
         /\ hand[t] \in Works /\ hand[t] # None
         /\ \A u \in Threads \ {t} : pc[u] # "get" => Sub(u) # c
  BY <1>0, <1>2, InHand
<1>4. /\ Processes' = Processes /\ Children' = Children /\ Copies' = Copies
      /\ \A u \in Threads : Sub(u)' = Sub(u)
  BY <1>1 DEF Processes, Children, Copies, Daemon, Sub
<1>5. /\ readers \ {<<p, c>>} \subseteq readers' /\ readers' \subseteq readers
      /\ writers \ {<<p, c>>} \subseteq writers' /\ writers' \subseteq writers
      /\ pc'[t] # "wait" => writers' = writers
      /\ pc'[t] = "wait" => <<p, c>> \notin writers'
  <2>1. CASE CloseReadEnd(t)
    BY <1>0, <1>3, <2>1, GotoMoves DEF CloseReadEnd, Places
  <2>2. CASE Write(t)
    BY <1>0, <2>2, GotoMoves DEF Write, pipes, Places
  <2>3. CASE CloseWriteEnd(t)
    BY <1>0, <1>3, <2>3, GotoMoves DEF CloseWriteEnd, Places
  <2> QED BY <2>1, <2>2, <2>3
<1>6. TypeOK'
  <2>1. \A e \in writers' : e[2] \in {Append(e[1], j) : j \in Works} =>
           \E u \in Threads : /\ u[1] = e[1] /\ pc'[u] \notin {"get", "pipe", "wait"}
                              /\ Sub(u)' = e[2]
    <3> SUFFICES ASSUME NEW e \in writers', e[2] \in {Append(e[1], j) : j \in Works}
                 PROVE  \E u \in Threads : /\ u[1] = e[1]
                                           /\ pc'[u] \notin {"get", "pipe", "wait"}
                                           /\ Sub(u) = e[2]
      BY <1>4
    <3>1. e \in writers /\ e = <<e[1], e[2]>>
      <4>1. e \in writers
        BY <1>5
      <4>2. e \in Processes \X Seq(Works)
        BY <1>0, <4>1 DEF TypeOK
      <4> QED BY <4>1, <4>2
    <3>2. PICK u \in Threads : /\ u[1] = e[1] /\ pc[u] \notin {"get", "pipe", "wait"}
                               /\ Sub(u) = e[2]
      BY <1>0, <3>1 DEF TypeOK
    <3>3. u = t => pc'[u] # "wait"
      BY <1>3, <1>5, <3>1, <3>2
    <3> QED BY <1>2, <3>2, <3>3
  <2>2. \A u \in Threads : pc'[u] = "get" <=> hand'[u] = None
    <3>1. \A u \in Threads : pc[u] = "get" <=> hand[u] = None
      BY <1>0 DEF TypeOK
    <3> QED BY <1>1, <1>2, <1>3, <3>1
  <2>3. /\ readers' \subseteq Processes \X Seq(Works)
        /\ writers' \subseteq Processes \X Seq(Works)
    BY <1>0, <1>5 DEF TypeOK
  <2> QED BY <1>0, <1>1, <1>2, <1>4, <2>1, <2>2, <2>3 DEF TypeOK
<1>7. Hands'
  BY <1>0, <1>1, <1>2, <1>4 DEF Hands
<1>8. Family'
  <2>1. \A u \in Threads :
          /\ pc'[u] \in {"pipe", "fork"} => Sub(u)' \notin Processes
          /\ pc'[u] \in {"parent", "write", "close", "wait"} => Sub(u)' \in Processes
          /\ state'[u[1]] = "forked" => pc'[u] = "get"
    BY <1>0, <1>1, <1>2, <1>4 DEF Family
  <2> QED BY <1>0, <1>1, <1>2, <1>4, <2>1 DEF Family
<1>9. PipeEnds'
  <2>1. \A d \in Children :
          /\ state'[d] \in {"forked", "running", "worker"} => <<d, d>> \in readers'
          /\ state'[d] = "lingers" => Closed(writers', d)
    BY <1>0, <1>1, <1>3, <1>5 DEF PipeEnds, Closed
  <2>2. \A u \in Threads : state'[u[1]] = "worker" =>
          /\ pc'[u] \in {"fork", "parent", "write", "close"} =>
                <<u[1], Sub(u)'>> \in writers'
          /\ pc'[u] = "fork" => <<u[1], Sub(u)'>> \in readers'
    <3> SUFFICES ASSUME NEW u \in Threads, state[u[1]] = "worker",
                        pc'[u] \in {"fork", "parent", "write", "close"}
                 PROVE  /\ <<u[1], Sub(u)>> \in writers'
                        /\ pc'[u] = "fork" => <<u[1], Sub(u)>> \in readers'
      BY <1>1, <1>4
    <3>1. CASE u = t
      BY <1>0, <1>2, <1>5, <3>1 DEF PipeEnds
    <3>2. CASE u # t
      <4>1. pc'[u] = pc[u] /\ Sub(u) # c
        BY <1>2, <1>3, <3>2
      <4> QED BY <1>0, <1>5, <4>1 DEF PipeEnds
    <3> QED BY <3>1, <3>2
  <2>3. \A d : Closed(writers, d)' = Closed(writers', d)
    BY DEF Closed
  <2> QED BY <1>0, <1>2, <1>4, <1>5, <2>1, <2>2, <2>3 DEF PipeEnds
<1>10. Begun'
  BY <1>0, <1>1, <1>4, <1>8, BegunKept DEF Daemon
<1>11. DownNeedsEarlyExit'
  <2>1. \A u \in Threads : state[u[1]] = "killed" => pc'[u] = pc[u] /\ hand'[u] = hand[u]
    BY <1>1, <1>2
  <2> QED BY <1>0, <1>1, <1>2, <1>4, <2>1, DownKept DEF IInv
<1> QED BY <1>6, <1>7, <1>8, <1>9, <1>10, <1>11 DEF IInv

\* SIGPIPE: the child ended before it was written to, or was killed itself.
LEMMA WriteKillsKeeps ==
    ASSUME IInv, NEW t \in Threads, WriteKills(t)
    PROVE  IInv'
<1>0. TypeOK /\ Hands /\ Family /\ PipeEnds /\ Begun
  BY DEF IInv
<1>1. PICK p \in Processes, c \in Seq(Works) :
         /\ p = t[1] /\ c = Sub(t) /\ p \in Seq(Works) /\ c # Daemon
         /\ c = Append(p, hand[t]) /\ hand[t] \in Works
  BY <1>0, InHand DEF WriteKills, Sub
<1>2. /\ UNCHANGED <<works, pc, hand, begun>>
      /\ state[p] = "worker" /\ pc[t] = "write" /\ Closed(readers, c)
      /\ state' = [state EXCEPT ![p] = "killed"]
      /\ readers' = Drop(readers, p) /\ writers' = Drop(writers, p)
  BY <1>1 DEF WriteKills, threads
<1>3. /\ Processes' = Processes /\ Children' = Children /\ Threads' = Threads
      /\ \A u \in Threads : Sub(u)' = Sub(u)
      /\ state'[p] = "killed" /\ \A q \in Processes \ {p} : state'[q] = state[q]
      /\ state' \in [Processes -> {"forked", "running", "worker", "exited",
                                   "lingers", "killed"}]
  BY <1>0, <1>2 DEF TypeOK, Processes, Children, Daemon, Threads, Sub
<1>4. /\ readers' \subseteq readers /\ writers' \subseteq writers
      /\ \A e \in readers : e[1] # p => e \in readers'
      /\ \A e \in writers : e[1] # p => e \in writers'
  BY <1>2 DEF Drop
<1>5. TypeOK'
  <2>1. \A e \in writers' : e[2] \in {Append(e[1], j) : j \in Works} =>
           \E u \in Threads : /\ u[1] = e[1] /\ pc'[u] \notin {"get", "pipe", "wait"}
                              /\ Sub(u)' = e[2]
    BY <1>0, <1>2, <1>3, <1>4 DEF TypeOK
  <2> QED BY <1>0, <1>2, <1>3, <1>4, <2>1 DEF TypeOK
<1>6. Hands' /\ Family'
  <2>1. \A u \in Threads : state'[u[1]] = "forked" => pc'[u] = "get"
    BY <1>0, <1>2, <1>3, InHand DEF Family
  <2> QED BY <1>0, <1>2, <1>3, <2>1 DEF Hands, Family
<1>7. PipeEnds'
  <2>1. \A d \in Children :
          /\ state'[d] \in {"forked", "running", "worker"} => <<d, d>> \in readers'
          /\ state'[d] = "lingers" => Closed(writers', d)
    BY <1>0, <1>3, <1>4 DEF PipeEnds, Closed, Children
  <2>2. \A u \in Threads : state'[u[1]] = "worker" =>
          /\ pc'[u] \in {"fork", "parent", "write", "close"} =>
                <<u[1], Sub(u)'>> \in writers'
          /\ pc'[u] = "fork" => <<u[1], Sub(u)'>> \in readers'
    <3> SUFFICES ASSUME NEW u \in Threads, state'[u[1]] = "worker",
                        pc[u] \in {"fork", "parent", "write", "close"}
                 PROVE  /\ <<u[1], Sub(u)>> \in writers'
                        /\ pc[u] = "fork" => <<u[1], Sub(u)>> \in readers'
      BY <1>2, <1>3
    <3>1. u[1] \in Processes \ {p} /\ state[u[1]] = "worker"
      BY <1>0, <1>3, InHand
    <3>2. <<u[1], Sub(u)>>[1] = u[1]
      OBVIOUS
    <3> QED BY <1>0, <1>4, <3>1, <3>2 DEF PipeEnds
  <2>3. \A d : Closed(writers, d)' = Closed(writers', d)
    BY DEF Closed
  <2> QED BY <1>0, <1>3, <1>4, <2>1, <2>2, <2>3 DEF PipeEnds
<1>8. Begun'
  <2>1. \A d \in Copies : d \in Copies' /\ works'[d] = works[d]
    BY <1>2, <1>3 DEF Copies, Children
  <2> QED BY <1>0, <1>2, <1>6, <2>1, BegunKept DEF Daemon
<1>9. c \in Children /\ state[c] \in {"exited", "killed"}
  <2>1. c \in Children
    BY <1>0, <1>1, <1>2 DEF Family, Children
  <2>2. <<p, c>> \in writers
    BY <1>0, <1>1, <1>2 DEF PipeEnds
  <2>3. state[c] # "lingers"
    BY <1>0, <2>1, <2>2 DEF PipeEnds, Closed
  <2>4. state[c] \notin {"forked", "running", "worker"}
    BY <1>0, <1>2, <2>1 DEF PipeEnds, Closed
  <2> QED BY <1>0, <2>1, <2>3, <2>4 DEF TypeOK, Children
<1>10. \A q \in Processes : state[q] = "killed" =>
          \E u \in Threads : /\ IsPrefix(q, u[1]) /\ state'[u[1]] = "killed"
                             /\ pc[u] = "write"
                             /\ Sub(u) \in Children /\ state'[Sub(u)] = "exited"
  <2> SUFFICES ASSUME NEW q \in Processes, state[q] = "killed"
               PROVE  \E u \in Threads : /\ IsPrefix(q, u[1]) /\ state'[u[1]] = "killed"
                                         /\ pc[u] = "write" /\ Sub(u) \in Children
                                         /\ state'[Sub(u)] = "exited"
    OBVIOUS
  <2>1. PICK u \in Threads : /\ IsPrefix(q, u[1]) /\ state[u[1]] = "killed"
                             /\ pc[u] = "write"
                             /\ Sub(u) \in Children /\ state[Sub(u)] = "exited"
    BY DEF IInv, DownNeedsEarlyExit
  <2>2. u[1] \in Processes \ {p} /\ Sub(u) \in Processes \ {p}
    BY <1>0, <1>2, <2>1, InHand DEF Children
  <2> QED BY <1>3, <2>1, <2>2
<1>11. \E u \in Threads : /\ IsPrefix(p, u[1]) /\ state'[u[1]] = "killed"
                          /\ pc[u] = "write"
                          /\ Sub(u) \in Children /\ state'[Sub(u)] = "exited"
  <2>1. CASE state[c] = "exited"
    <3>1. IsPrefix(p, t[1]) /\ state'[c] = "exited"
      BY <1>1, <1>2, <1>3, <1>9, <2>1, Below DEF Children
    <3> QED BY <1>1, <1>2, <1>3, <1>9, <3>1
  <2>2. CASE state[c] = "killed"
    <3>1. PICK u \in Threads : /\ IsPrefix(c, u[1]) /\ state'[u[1]] = "killed"
                               /\ pc[u] = "write"
                               /\ Sub(u) \in Children /\ state'[Sub(u)] = "exited"
      BY <1>9, <1>10, <2>2 DEF Children
    <3>2. u[1] \in Seq(Works)
      BY <1>0, InHand
    <3>3. \A k \in Works : \A q \in Seq(Works) :
             IsPrefix(Append(p, k), q) => IsPrefix(p, q)
      BY <1>1, Below
    <3>4. IsPrefix(p, u[1])
      BY <1>1, <3>1, <3>2, <3>3
    <3> QED BY <3>1, <3>4
  <2> QED BY <1>9, <2>1, <2>2
<1>12. DownNeedsEarlyExit'
  <2>1. \A q \in Processes : state'[q] = "killed" => q = p \/ state[q] = "killed"
    BY <1>3
  <2> QED BY <1>2, <1>3, <1>10, <1>11, <2>1 DEF DownNeedsEarlyExit
<1> QED BY <1>5, <1>6, <1>7, <1>8, <1>12 DEF IInv

\* The child inherits what its parent has open, and a copy of its works.
LEMMA ForkKeeps ==
    ASSUME IInv, NEW t \in Threads, Fork(t)
    PROVE  IInv'
<1>0. TypeOK /\ Hands /\ Family /\ PipeEnds /\ Begun
  BY DEF IInv
<1>1. PICK p \in Processes, c \in Seq(Works), k \in Works :
         /\ p = t[1] /\ c = Sub(t) /\ p \in Seq(Works) /\ c # p /\ c # Daemon
         /\ k = hand[t] /\ c = Append(p, k) /\ k # None /\ t[2] \in Workers
         /\ \A u \in Threads \ {t} : pc[u] # "get" => Sub(u) # c
  BY <1>0, InHand DEF Fork, Copy, Sub
<1> DEFINE n == <<c, t[2]>>
<1>2. /\ state[p] = "worker" /\ pc[t] = "fork" /\ begun' = begun
      /\ pc' = With([pc EXCEPT ![t] = "parent"], n, "get")
      /\ hand' = With(hand, n, None)
      /\ state' = With(state, c, "forked") /\ works' = With(works, c, works[p])
      /\ readers' = Inherited(readers, p, c)
      /\ writers' = Inherited(writers, p, c) \ {<<c, c>>}
  BY <1>1 DEF Fork, Copy
<1>3. c \notin Processes /\ n \notin Threads
  <2>1. c \notin Processes
    BY <1>0, <1>1, <1>2 DEF Family
  <2>2. \A u \in Threads : u[1] \in Processes
    BY <1>0, InHand
  <2> QED BY <2>1, <2>2
<1>4. /\ Processes' = Processes \cup {c} /\ Children' = Children \cup {c}
      /\ state'[c] = "forked" /\ \A q \in Processes : state'[q] = state[q]
      /\ state' \in [Processes \cup {c} -> {"forked", "running", "worker", "exited",
                                            "lingers", "killed"}]
  <2>1. Processes' = Processes \cup {c}
    BY <1>2 DEF With, Processes
  <2> QED BY <1>0, <1>1, <1>2, <1>3, <2>1 DEF With, Processes, Children, Daemon, TypeOK
<1>5. /\ works' \in [Processes \cup {c} -> Seq(Works)] /\ works'[c] = works[p]
      /\ \A q \in Processes : works'[q] = works[q]
  BY <1>0, <1>2, <1>3 DEF With, TypeOK
<1>6. /\ pc' \in [Threads \cup {n} -> Places] /\ Threads' = Threads \cup {n}
      /\ pc'[n] = "get" /\ pc'[t] = "parent"
      /\ \A u \in Threads \ {t} : pc'[u] = pc[u]
  <2>1. [pc EXCEPT ![t] = "parent"] \in [Threads -> Places]
    BY <1>0 DEF TypeOK, Places
  <2> QED BY <1>2, <1>3, <2>1 DEF With, Threads, Places
<1>7. /\ hand' \in [Threads \cup {n} -> Works \cup {None}] /\ hand'[n] = None
      /\ \A u \in Threads : hand'[u] = hand[u] /\ Sub(u)' = Sub(u)
  <2>1. /\ hand' \in [Threads \cup {n} -> Works \cup {None}] /\ hand'[n] = None
        /\ \A u \in Threads : hand'[u] = hand[u]
    BY <1>0, <1>2, <1>3 DEF With, TypeOK
  <2> QED BY <2>1 DEF Sub
<1>8. /\ readers \subseteq readers' /\ <<c, c>> \in readers'
      /\ \A e \in readers' : e \in readers \/ \E f \in readers : e = <<c, f[2]>>
      /\ writers \subseteq writers'
      /\ \A e \in writers' : e \in writers \/ \E f \in writers : e = <<c, f[2]>>
  <2>1. <<p, c>> \in readers
    BY <1>0, <1>1, <1>2 DEF PipeEnds
  <2>2. <<c, c>> \notin writers
    BY <1>0, <1>3 DEF TypeOK
  <2>3. <<c, c>> \in Inherited(readers, p, c)
    BY <2>1 DEF Inherited, Drop
  <2> QED BY <1>2, <2>2, <2>3 DEF Inherited
<1>9. TypeOK'
  <2>1. \A e \in writers' : e[2] \in {Append(e[1], j) : j \in Works} =>
           \E u \in Threads : /\ u[1] = e[1] /\ pc'[u] \notin {"get", "pipe", "wait"}
                              /\ Sub(u)' = e[2]
    <3> SUFFICES ASSUME NEW e \in writers', NEW j \in Works, e[2] = Append(e[1], j)
                 PROVE  \E u \in Threads : /\ u[1] = e[1]
                                           /\ pc'[u] \notin {"get", "pipe", "wait"}
                                           /\ Sub(u) = e[2]
      BY <1>7
    <3>1. CASE e \in writers
      <4>1. PICK u \in Threads : /\ u[1] = e[1] /\ pc[u] \notin {"get", "pipe", "wait"}
                                 /\ Sub(u) = e[2]
        BY <1>0, <3>1 DEF TypeOK
      <4> QED BY <1>6, <4>1
    <3>2. ASSUME NEW f \in writers, e = <<c, f[2]>> PROVE FALSE
      <4>1. f[2] = Append(c, j)
        BY <3>2
      <4> QED BY <1>0, <1>1, <1>3, <4>1 DEF PipeEnds
    <3> QED BY <1>8, <3>1, <3>2
  <2>2. \A u \in Threads \cup {n} : pc'[u] = "get" <=> hand'[u] = None
    <3>1. \A u \in Threads : pc[u] = "get" <=> hand[u] = None
      BY <1>0 DEF TypeOK
    <3> QED BY <1>2, <1>6, <1>7, <3>1
  <2>3. /\ readers' \subseteq (Processes \cup {c}) \X Seq(Works)
        /\ writers' \subseteq (Processes \cup {c}) \X Seq(Works)
    <3>1. \A e \in readers \cup writers : /\ e \in (Processes \cup {c}) \X Seq(Works)
                                          /\ <<c, e[2]>> \in (Processes \cup {c}) \X Seq(Works)
      BY <1>0 DEF TypeOK
    <3> QED BY <1>8, <3>1
  <2>4. /\ Daemon \in Processes' /\ Processes' \subseteq Seq(Works)
        /\ Threads \cup {n} \subseteq (Processes \cup {c}) \X Workers
        /\ begun' \in [Works -> Nat]
    <3>1. /\ Daemon \in Processes /\ Processes \subseteq Seq(Works)
          /\ Threads \subseteq Processes \X Workers /\ begun \in [Works -> Nat]
      BY <1>0 DEF TypeOK
    <3>2. n \in (Processes \cup {c}) \X Workers
      BY <1>1
    <3> QED BY <1>1, <1>2, <1>4, <3>1, <3>2
  <2> QED BY <1>4, <1>5, <1>6, <1>7, <2>1, <2>2, <2>3, <2>4 DEF TypeOK, Daemon
<1>10. k \notin Elements(works[p])
  BY <1>0, <1>1 DEF Hands
<1>11. \A u \in Threads : u[1] \in Processes /\ u[1] # c
  BY <1>0, <1>3, InHand
<1>12. Hands'
  <2>1. \A q \in Processes' : Distinct(works'[q])
    BY <1>0, <1>4, <1>5 DEF Hands
  <2>2. None \notin Elements(works[p])
    BY <1>0, NamesOK, ElementsInRange DEF TypeOK
  <2>3. \A u \in Threads' : hand'[u] \notin Elements(works'[u[1]])
    <3>1. \A u \in Threads : hand[u] \notin Elements(works[u[1]])
      BY <1>0 DEF Hands
    <3>2. n[1] = c
      OBVIOUS
    <3> QED BY <1>5, <1>6, <1>7, <1>11, <2>2, <3>1, <3>2
  <2>4. \A u, v \in Threads' :
           u # v /\ u[1] = v[1] /\ hand'[u] # None => hand'[v] # hand'[u]
    BY <1>0, <1>6, <1>7, <1>11 DEF Hands
  <2> QED BY <2>1, <2>3, <2>4 DEF Hands
<1>13. Family'
  <2>1. IsFiniteSet(Processes')
    BY <1>0, <1>4, FS_AddElement DEF Family
  <2>2. /\ \A q \in Seq(Works) : \A j \in Works : Append(q, j) = c => q = p /\ j = k
        /\ Elements(c) = Elements(p) \cup {k}
        /\ \A j \in Works : Append(c, j) # c
    <3>1. \A q \in Seq(Works) : \A j \in Works :
             Append(q, j) = Append(p, k) => q = p /\ j = k
      BY <1>1, ChildNames
    <3>2. Elements(Append(p, k)) = Elements(p) \cup {k}
      BY <1>1, ChildNames
    <3>3. \A j \in Works : Append(c, j) # c
      BY <1>1, ChildNames
    <3> QED BY <1>1, <3>1, <3>2, <3>3
  <2>3. \A q \in Seq(Works) : \A j \in Works :
           Append(q, j) \in Processes' => q \in Processes'
    BY <1>0, <1>4, <2>2 DEF Family
  <2>4. \A q \in Processes' : \A j \in Elements(works'[q]) :
           j \notin Elements(q) /\ Append(q, j) \notin Processes'
    <3> TAKE q \in Processes'
    <3> TAKE j \in Elements(works'[q])
    <3>1. CASE q \in Processes
      <4>1. j \in Elements(works[q]) /\ q \in Seq(Works) /\ j \in Works
        BY <1>0, <1>5, <3>1, ElementsInRange DEF TypeOK
      <4>2. Append(q, j) # c
        BY <1>10, <2>2, <4>1
      <4> QED BY <1>0, <1>4, <3>1, <4>1, <4>2 DEF Family
    <3>2. CASE q = c
      <4>1. j \in Elements(works[p]) /\ j \in Works
        BY <1>0, <1>5, <3>2, ElementsInRange DEF TypeOK
      <4>2. j \notin Elements(c)
        BY <1>0, <1>10, <2>2, <4>1 DEF Family
      <4>3. Append(c, j) \notin Processes
        BY <1>0, <1>1, <1>3, <4>1 DEF Family
      <4> QED BY <1>4, <2>2, <3>2, <4>1, <4>2, <4>3
    <3> QED BY <1>4, <3>1, <3>2
  <2>5. \A u \in Threads :
          /\ pc'[u] \in {"pipe", "fork"} => Sub(u)' \notin Processes'
          /\ pc'[u] \in {"parent", "write", "close", "wait"} => Sub(u)' \in Processes'
          /\ state'[u[1]] = "forked" => pc'[u] = "get"
    <3> TAKE u \in Threads
    <3>1. CASE u = t
      BY <1>1, <1>2, <1>4, <1>6, <1>7, <3>1
    <3>2. CASE u # t
      <4>1. /\ pc[u] \in {"pipe", "fork"} => Sub(u) \notin Processes
            /\ pc[u] \in {"parent", "write", "close", "wait"} => Sub(u) \in Processes
            /\ state[u[1]] = "forked" => pc[u] = "get"
        BY <1>0 DEF Family
      <4>2. pc[u] # "get" => Sub(u) # c
        BY <1>1, <3>2
      <4>3. pc'[u] = pc[u] /\ Sub(u)' = Sub(u) /\ state'[u[1]] = state[u[1]]
        BY <1>4, <1>6, <1>7, <1>11, <3>2
      <4> QED BY <1>4, <4>1, <4>2, <4>3
    <3> QED BY <3>1, <3>2
  <2> QED BY <1>6, <2>1, <2>3, <2>4, <2>5 DEF Family
<1>14. PipeEnds'
  <2>1. \A e \in readers' \cup writers' : \A q \in Seq(Works) : \A j \in Works :
           e[2] = Append(q, j) => q \in Processes'
    <3>1. \A e \in readers' \cup writers' : \E f \in readers \cup writers : f[2] = e[2]
      BY <1>8
    <3>2. \A f \in readers \cup writers : \A q \in Seq(Works) : \A j \in Works :
             f[2] = Append(q, j) => q \in Processes
      BY <1>0 DEF PipeEnds
    <3> QED BY <1>4, <3>1, <3>2
  <2>2. \A d \in Children' :
          /\ state'[d] \in {"forked", "running", "worker"} => <<d, d>> \in readers'
          /\ state'[d] = "lingers" => Closed(writers', d)
    <3> TAKE d \in Children'
    <3>1. CASE d = c
      BY <1>4, <1>8, <3>1
    <3>2. CASE d \in Children
      <4>1. \A e \in writers' : \E f \in writers : f[2] = e[2]
        BY <1>8
      <4>2. Closed(writers, d) => Closed(writers', d)
        BY <4>1 DEF Closed
      <4>3. state'[d] = state[d]
        BY <1>4, <3>2 DEF Children
      <4> QED BY <1>0, <1>8, <3>2, <4>2, <4>3 DEF PipeEnds
    <3> QED BY <1>4, <3>1, <3>2
  <2>3. \A u \in Threads' : state'[u[1]] = "worker" =>
          /\ pc'[u] \in {"fork", "parent", "write", "close"} =>
                <<u[1], Sub(u)'>> \in writers'
          /\ pc'[u] = "fork" => <<u[1], Sub(u)'>> \in readers'
    <3> TAKE u \in Threads'
    <3>1. CASE u = n
      BY <1>6, <3>1
    <3>2. CASE u = t
      BY <1>0, <1>1, <1>2, <1>6, <1>7, <1>8, <3>2 DEF PipeEnds
    <3>3. CASE u \in Threads \ {t}
      BY <1>0, <1>4, <1>6, <1>7, <1>8, <1>11, <3>3 DEF PipeEnds
    <3> QED BY <1>6, <3>1, <3>2, <3>3
  <2>4. \A d : Closed(writers, d)' = Closed(writers', d)
    BY DEF Closed
  <2> QED BY <2>1, <2>2, <2>3, <2>4 DEF PipeEnds
<1>15. Begun'
  <2>1. \A d \in Copies : d \in Copies' /\ works'[d] = works[d]
    BY <1>4, <1>5 DEF Copies, Children
  <2>2. works'[Daemon] = works[Daemon]
    BY <1>0, <1>5 DEF TypeOK
  <2> QED BY <1>0, <1>2, <1>13, <2>1, <2>2, BegunKept
<1>16. DownNeedsEarlyExit'
  <2>1. \A u \in Threads : state[u[1]] = "killed" => pc'[u] = pc[u] /\ hand'[u] = hand[u]
    BY <1>1, <1>2, <1>6, <1>7
  <2> QED BY <1>0, <1>4, <1>6, <2>1, DownKept DEF IInv
<1> QED BY <1>9, <1>12, <1>13, <1>14, <1>15, <1>16 DEF IInv

-----------------------------------------------------------------------------
(* The steps of a child                                                    *)

LEMMA ChildKeeps ==
    ASSUME IInv, NEW c \in Children,
           Program(c) \/ ExitEarly(c) \/ LingerEnds(c)
    PROVE  IInv'
<1>0. TypeOK /\ Hands /\ Family /\ PipeEnds /\ Begun /\ c \in Seq(Works)
      /\ c \in Processes /\ c # Daemon
  BY DEF IInv, TypeOK, Children
<1>1. /\ UNCHANGED <<pc, hand, begun>>
      /\ state[c] \in {"forked", "running", "lingers"}
      /\ \E s \in {"running", "worker", "exited", "lingers"} :
            state' = [state EXCEPT ![c] = s]
      /\ works' = works \/ works' = [works EXCEPT ![c] = <<>>]
  BY DEF Program, Exec, ExecFails, Exit, Linger, ExitEarly, LingerEnds, Ends, threads
<1>2. /\ state' \in [Processes -> {"forked", "running", "worker", "exited",
                                   "lingers", "killed"}]
      /\ state'[c] \in {"running", "worker", "exited", "lingers"}
      /\ \A d \in Processes \ {c} : state'[d] = state[d]
      /\ Processes' = Processes /\ Children' = Children /\ Threads' = Threads
      /\ \A u \in Threads : Sub(u)' = Sub(u)
  BY <1>0, <1>1 DEF TypeOK, Processes, Children, Daemon, Threads, Sub
<1>3. /\ works' \in [Processes -> Seq(Works)]
      /\ \A d \in Processes \ {c} : works'[d] = works[d]
      /\ works'[c] = works[c] \/ works'[c] = <<>>
  <2>1. <<>> \in Seq(Works) /\ works \in [Processes -> Seq(Works)]
    BY <1>0 DEF TypeOK
  <2>2. CASE works' = works
    BY <2>1, <2>2
  <2>3. CASE works' = [works EXCEPT ![c] = <<>>]
    BY <1>0, <2>1, <2>3
  <2> QED BY <1>1, <2>2, <2>3
<1>4. /\ readers' \subseteq readers /\ writers' \subseteq writers
      /\ \A e \in readers : e[1] # c => e \in readers'
      /\ \A e \in writers : e[1] # c => e \in writers'
      /\ state'[c] \in {"running", "worker"} =>
            /\ state[c] = "forked" /\ readers' = readers
      /\ state'[c] = "lingers" => Closed(writers, c)
  <2>1. CASE Exec(c) \/ ExecFails(c)
    <3>1. readers' = readers /\ writers' = writers /\ state[c] = "forked"
      BY <2>1 DEF Exec, ExecFails, pipes
    <3>2. state'[c] \in {"running", "worker"}
      BY <1>0, <2>1 DEF Exec, ExecFails, TypeOK
    <3> QED BY <3>1, <3>2
  <2>2. CASE Exit(c) \/ ExitEarly(c) \/ LingerEnds(c)
    <3>1. /\ readers' = Drop(readers, c) /\ writers' = Drop(writers, c)
          /\ state'[c] = "exited"
      BY <1>0, <2>2 DEF Exit, ExitEarly, LingerEnds, Ends, TypeOK
    <3> QED BY <3>1 DEF Drop
  <2>3. CASE Linger(c)
    <3>1. /\ readers' = readers \ {<<c, c>>} /\ writers' = writers
          /\ state'[c] = "lingers" /\ Closed(writers, c)
      BY <1>0, <2>3 DEF Linger, TypeOK
    <3> QED BY <3>1
  <2> QED BY <2>1, <2>2, <2>3 DEF Program
<1>5. TypeOK'
  <2>1. \A e \in writers' : e[2] \in {Append(e[1], j) : j \in Works} =>
           \E u \in Threads : /\ u[1] = e[1] /\ pc'[u] \notin {"get", "pipe", "wait"}
                              /\ Sub(u)' = e[2]
    <3>1. writers' \subseteq writers /\ pc' = pc /\ Threads' = Threads
      BY <1>1, <1>2, <1>4
    <3>2. \A e \in writers : e[2] \in {Append(e[1], j) : j \in Works} =>
             \E u \in Threads : /\ u[1] = e[1] /\ pc[u] \notin {"get", "pipe", "wait"}
                                /\ Sub(u) = e[2]
      BY <1>0 DEF TypeOK
    <3> QED BY <1>2, <3>1, <3>2
  <2>2. /\ readers' \subseteq Processes \X Seq(Works)
        /\ writers' \subseteq Processes \X Seq(Works)
    BY <1>0, <1>4 DEF TypeOK
  <2>3. /\ pc' \in [Threads -> Places] /\ hand' \in [Threads -> Works \cup {None}]
        /\ \A u \in Threads : pc'[u] = "get" <=> hand'[u] = None
        /\ begun' \in [Works -> Nat]
    BY <1>0, <1>1 DEF TypeOK
  <2>4. /\ Daemon \in Processes /\ Processes \subseteq Seq(Works)
        /\ Threads \subseteq Processes \X Workers
    BY <1>0 DEF TypeOK
  <2> QED BY <1>2, <1>3, <2>1, <2>2, <2>3, <2>4 DEF TypeOK, Daemon
<1>6. \A d \in Processes : /\ Elements(works'[d]) \subseteq Elements(works[d])
                           /\ Distinct(works'[d])
  <2>1. Elements(<<>>) = {} /\ Distinct(<<>>)
    BY DEF Elements, Distinct
  <2> QED BY <1>0, <1>3, <2>1 DEF Hands
<1>7. Hands'
  <2>1. \A u \in Threads : hand'[u] \notin Elements(works'[u[1]])
    BY <1>0, <1>1, <1>6, InHand DEF Hands
  <2> QED BY <1>0, <1>1, <1>2, <1>6, <2>1 DEF Hands
<1>8. Family'
  <2>1. pc' = pc
    BY <1>1
  <2>2. \A u \in Threads : state'[u[1]] = "forked" => pc'[u] = "get"
    BY <1>0, <1>2, <2>1, InHand DEF Family
  <2>3. \A q \in Processes : \A k \in Elements(works'[q]) :
           k \notin Elements(q) /\ Append(q, k) \notin Processes
    BY <1>0, <1>6 DEF Family
  <2> QED BY <1>0, <1>2, <2>1, <2>2, <2>3 DEF Family
<1>9. PipeEnds'
  <2>1. \A d \in Children :
          /\ state'[d] \in {"forked", "running", "worker"} => <<d, d>> \in readers'
          /\ state'[d] = "lingers" => Closed(writers', d)
    <3> TAKE d \in Children
    <3>1. CASE d = c
      BY <1>0, <1>2, <1>4, <3>1 DEF PipeEnds, Closed
    <3>2. CASE d # c
      <4>1. state'[d] = state[d] /\ <<d, d>>[1] # c
        BY <1>2, <3>2 DEF Children
      <4> QED BY <1>0, <1>4, <4>1 DEF PipeEnds, Closed
    <3> QED BY <3>1, <3>2
  <2>2. \A u \in Threads : state'[u[1]] = "worker" =>
          /\ pc'[u] \in {"fork", "parent", "write", "close"} =>
                <<u[1], Sub(u)'>> \in writers'
          /\ pc'[u] = "fork" => <<u[1], Sub(u)'>> \in readers'
    <3> SUFFICES ASSUME NEW u \in Threads, state'[u[1]] = "worker",
                        pc[u] \in {"fork", "parent", "write", "close"}
                 PROVE  /\ <<u[1], Sub(u)>> \in writers'
                        /\ pc[u] = "fork" => <<u[1], Sub(u)>> \in readers'
      BY <1>1, <1>2
    <3>1. u[1] \in Processes /\ <<u[1], Sub(u)>>[1] = u[1]
      BY <1>0, InHand
    <3>2. u[1] # c
      BY <1>0, <1>4, <3>1 DEF Family
    <3> QED BY <1>0, <1>2, <1>4, <3>1, <3>2 DEF PipeEnds
  <2>3. \A d : Closed(writers, d)' = Closed(writers', d)
    BY DEF Closed
  <2> QED BY <1>0, <1>2, <1>4, <2>1, <2>2, <2>3 DEF PipeEnds
<1>10. Begun'
  <2>1. \A d \in Copies : d \in Copies' /\ works'[d] = works[d]
    BY <1>1, <1>2, <1>3 DEF Copies, Children
  <2>2. works'[Daemon] = works[Daemon]
    BY <1>0, <1>3 DEF TypeOK
  <2> QED BY <1>0, <1>1, <1>8, <2>1, <2>2, BegunKept
<1>11. DownNeedsEarlyExit'
  <2>1. /\ \A d \in Processes : state'[d] = "killed" => state[d] = "killed"
        /\ \A d \in Processes :
              state[d] \in {"killed", "exited"} => state'[d] = state[d]
    BY <1>1, <1>2
  <2> QED BY <1>0, <1>1, <1>2, <2>1, DownKept DEF IInv
<1> QED BY <1>5, <1>7, <1>8, <1>9, <1>10, <1>11 DEF IInv

-----------------------------------------------------------------------------
(* The invariant, and what follows from it                                 *)

\* Every work waits once to begin with.
LEMMA AllWait ==
    SetToSeq(Works) \in Seq(Works) /\ Distinct(SetToSeq(Works))
<1>1. /\ Cardinality(Works) \in Nat
      /\ ExistsBijection(1 .. Cardinality(Works), Works)
  BY WorksFinite, FS_CardinalityType
<1>2. \E f \in [1 .. Cardinality(Works) -> Works] : IsInjective(f)
  BY <1>1 DEF ExistsBijection, Bijection, Injection
<1>3. /\ SetToSeq(Works) \in [1 .. Cardinality(Works) -> Works]
      /\ IsInjective(SetToSeq(Works))
  BY <1>2 DEF SetToSeq
<1>4. SetToSeq(Works) \in Seq(Works)
  BY <1>1, <1>3
<1> QED BY <1>3, <1>4 DEF Distinct, IsInjective

LEMMA InitInvariant == Init => IInv
<1> SUFFICES ASSUME Init PROVE IInv
  OBVIOUS
<1>1. /\ Processes = {Daemon} /\ Children = {} /\ Threads = {Daemon} \X Workers
      /\ state[Daemon] = "worker" /\ works[Daemon] = SetToSeq(Works)
      /\ \A t \in Threads : pc[t] = "get" /\ hand[t] = None
      /\ readers = {} /\ writers = {}
  BY DEF Init, Processes, Children, Threads
<1>2. Daemon \in Seq(Works) /\ Elements(Daemon) = {}
  BY DEF Daemon, Elements
<1>3. TypeOK
  <2>1. /\ works \in [Processes -> Seq(Works)]
        /\ state \in [Processes -> {"forked", "running", "worker", "exited",
                                    "lingers", "killed"}]
    BY <1>1, AllWait DEF Init
  <2>2. pc \in [Threads -> Places] /\ hand \in [Threads -> Works \cup {None}]
    BY <1>1 DEF Init, Places
  <2>3. begun \in [Works -> Nat]
    BY DEF Init
  <2> QED BY <1>1, <1>2, <2>1, <2>2, <2>3 DEF TypeOK
<1>4. Hands
  <2>1. \A t \in Threads : t[1] = Daemon
    BY <1>1
  <2>2. None \notin Elements(works[Daemon])
    BY <1>1, NamesOK, AllWait, ElementsInRange
  <2> QED BY <1>1, <2>1, <2>2, AllWait DEF Hands
<1>5. Family
  <2>1. IsFiniteSet(Processes)
    BY <1>1, FS_Singleton
  <2>2. \A p \in Seq(Works) : \A k \in Works : Append(p, k) \notin Processes
    BY <1>1, ChildNames
  <2>3. Elements(works[Daemon]) \subseteq Works
    BY <1>1, AllWait, ElementsInRange
  <2>4. \A t \in Threads : pc[t] = "get"
    BY <1>1
  <2> QED BY <1>1, <1>2, <2>1, <2>2, <2>3, <2>4 DEF Family
<1>6. PipeEnds /\ DownNeedsEarlyExit
  BY <1>1 DEF PipeEnds, DownNeedsEarlyExit
<1>7. Begun
  <2> SUFFICES ASSUME NEW k \in Works
               PROVE  begun[k] <= (IF k \in Elements(works[Daemon]) THEN 0 ELSE 1)
                                  + Cardinality(Ran(k))
    BY DEF Begun
  <2>1. begun[k] = 0
    BY DEF Init
  <2> QED BY <1>5, <2>1, RanFinite
<1> QED BY <1>3, <1>4, <1>5, <1>6, <1>7 DEF IInv

LEMMA StepInvariant == IInv /\ [Next]_vars => IInv'
<1> SUFFICES ASSUME IInv, [Next]_vars PROVE IInv'
  OBVIOUS
<1>1. CASE UNCHANGED vars
  <2>1. UNCHANGED <<state, works, pc, hand, readers, writers, begun>>
    BY <1>1 DEF vars, threads, pipes
  <2>2. /\ Processes' = Processes /\ Children' = Children /\ Threads' = Threads
        /\ Copies' = Copies /\ \A t : Sub(t)' = Sub(t)
        /\ \A c : Closed(writers, c)' = Closed(writers, c)
    BY <2>1 DEF Processes, Children, Threads, Copies, Daemon, Sub, Closed
  <2>3. TypeOK' /\ Hands' /\ Family'
    BY <2>1, <2>2 DEF IInv, TypeOK, Hands, Family, Daemon
  <2>4. PipeEnds' /\ DownNeedsEarlyExit'
    BY <2>1, <2>2 DEF IInv, PipeEnds, DownNeedsEarlyExit
  <2>5. Begun'
    BY <2>1, <2>2, <2>3, BegunKept DEF IInv, Daemon
  <2> QED BY <2>3, <2>4, <2>5 DEF IInv
<1>2. ASSUME NEW t \in Threads, Worker(t) \/ WriteFails(t) \/ ReapFails(t)
      PROVE  IInv'
  BY <1>2, GetWorkKeeps, OpenPipesKeeps, AnswerKeeps, AdvanceKeeps, ForkKeeps,
     WriteKillsKeeps DEF Worker
<1>3. ASSUME NEW c \in Children, Program(c) \/ ExitEarly(c) \/ LingerEnds(c)
      PROVE  IInv'
  BY <1>3, ChildKeeps
<1> QED BY <1>1, <1>2, <1>3 DEF Next

\* The inductive invariant holds, whatever the workers and works are.
THEOREM InvariantHolds == Safety => []IInv
<1> QED BY InitInvariant, StepInvariant, PTL DEF Safety

\* Every variable has its type; and a process has the write end of the pipe of a
\* child only while a thread is between the pipe and the close of it
\* (subprocess.h:66-130).
THEOREM TypesHold == Safety => []TypeOK
<1>1. IInv => TypeOK
  BY DEF IInv
<1> QED BY <1>1, InvariantHolds, PTL

\* An action is begun again only by children whose execv failed, by children of
\* such children too, once by each, and never the actions a child was forked in
\* (subprocess.h:100, workpool.cpp:41).
THEOREM TwiceOnlyByExecFailure == Safety => []TwiceNeedsExecFailure
<1>1. IInv => TwiceNeedsExecFailure
  <2> SUFFICES ASSUME IInv, NEW k \in Works
               PROVE  begun[k] <= 1 + Cardinality({c \in Copies : k \notin ToSet(c)})
    BY DEF TwiceNeedsExecFailure
  <2> DEFINE Outside == {c \in Copies : k \notin ToSet(c)}
  <2>0. Family /\ Begun /\ TypeOK
    BY DEF IInv
  <2>1. Outside \in SUBSET Processes /\ Ran(k) \in SUBSET Outside
    BY DEF Ran, Copies, Children, ToSet, Elements
  <2>2. /\ IsFiniteSet(Outside) /\ Cardinality(Outside) \in Nat
        /\ Cardinality(Ran(k)) <= Cardinality(Outside)
    <3>1. IsFiniteSet(Outside)
      BY <2>0, <2>1, FS_Subset DEF Family
    <3> QED BY <2>1, <3>1, FS_Subset, FS_CardinalityType
  <2>3. /\ begun[k] <= (IF k \in Elements(works[Daemon]) THEN 0 ELSE 1)
                       + Cardinality(Ran(k))
        /\ begun[k] \in Nat /\ Cardinality(Ran(k)) \in Nat
    BY <2>0, RanFinite DEF Begun, TypeOK
  <2> HIDE DEF Outside
  <2>4. begun[k] <= 1 + Cardinality(Outside)
    BY <2>2, <2>3
  <2> QED BY <2>4 DEF Outside
<1> QED BY <1>1, InvariantHolds, PTL

\* SIGPIPE kills the daemon, or a worker in a child, only at a program that ended
\* before it was written to, or further up from one (subprocess.h:112).
THEOREM DownOnlyByEarlyExit == Safety => []DownNeedsEarlyExit
<1>1. IInv => DownNeedsEarlyExit
  BY DEF IInv
<1> QED BY <1>1, InvariantHolds, PTL
=============================================================================
