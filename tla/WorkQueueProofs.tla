-------------------------- MODULE WorkQueueProofs --------------------------
(***************************************************************************)
(* Proofs about WorkQueue for any number of workers and works, and for any *)
(* state the uninitialised mutex and semaphore may start in.               *)
(*                                                                         *)
(* Unlike the mailbox of Thread<T>, works_ may be popped when it is empty. *)
(* That this needs wakeups nobody posted is not inductive:                 *)
(* it follows from the balance of tokens and works, with the ghosts, the   *)
(* failed waits and the lost posts in it, at the moment of the pop; a      *)
(* crash then stays excused because nothing runs after it.                 *)
(***************************************************************************)
EXTENDS WorkQueue, QueueLemmas

USE WorkersFinite, PoolIsNoWorker, NoneIsNeither, GarbageIsNeither, InitsOK
    DEF Threads

IInv == TypeOK /\ MutexGuardsWorks /\ TokenBalance

\* Next is one of the actions below.
LEMMA NextSplit ==
    ASSUME Next
    PROVE  \/ \E p \in Threads : Lock(p) \/ LockFails(p)
           \/ \E w \in Works : Receive(w)
           \/ Push \/ Post
           \/ \E p \in Workers : \/ Wait(p) \/ WaitFails(p)
                                \/ Take(p) \/ TakeNothing(p) \/ Finish(p)
BY DEF Next, PoolStep, Go

-----------------------------------------------------------------------------
(* Types and the mutex                                                     *)

LEMMA InitTyped == Init => TypeOK /\ MutexGuardsWorks
<1> SUFFICES ASSUME Init PROVE TypeOK /\ MutexGuardsWorks
  OBVIOUS
<1>1. /\ works \in Seq(Works)
      /\ workSemaphore \in 0..SemMax /\ ghosts \in 0..SemMax
      /\ lost \in Nat /\ failedWaits \in 0..MaxFailedWaits
  BY DEF Init
<1>2. /\ pc \in [Threads -> {"receive", "wait", "lock", "locked", "post", "run"}]
      /\ hand \in [Threads -> Works \cup {None}]
      /\ \A p \in Threads : pc[p] \in {"receive", "wait"} /\ hand[p] = None
      /\ \A p \in Workers : pc[p] = "wait"
      /\ pc[Pool] = "receive"
  BY DEF Init
<1>3. workMutex \in {None, Garbage} /\ \A p \in Threads : p # None /\ p # Garbage
  BY DEF Init
<1> QED
  BY <1>1, <1>2, <1>3 DEF Init, TypeOK, MutexGuardsWorks

\* A step keeps the types and the mutex.  A pop is only made of a queue that is
\* not empty: otherwise the step is TakeNothing.
LEMMA StepTyped ==
    ASSUME TypeOK, MutexGuardsWorks, [Next]_vars
    PROVE  TypeOK' /\ MutexGuardsWorks'
<1> USE DEF Goto, Hold, sync, history, ends
<1>1. ASSUME NEW p \in Threads, Lock(p)
      PROVE  TypeOK' /\ MutexGuardsWorks'
  <2>1. TypeOK'
    BY <1>1 DEF Lock, TypeOK
  <2>2. MutexGuardsWorks'
    BY <1>1 DEF Lock, TypeOK, MutexGuardsWorks
  <2> QED BY <2>1, <2>2
<1>2. ASSUME NEW p \in Threads, LockFails(p)
      PROVE  TypeOK' /\ MutexGuardsWorks'
  BY <1>2 DEF LockFails, TypeOK, MutexGuardsWorks
<1>3. ASSUME NEW w \in Works, Receive(w)
      PROVE  TypeOK' /\ MutexGuardsWorks'
  <2>1. TypeOK'
    BY <1>3 DEF Receive, TypeOK
  <2>2. MutexGuardsWorks'
    BY <1>3 DEF Receive, TypeOK, MutexGuardsWorks
  <2> QED BY <2>1, <2>2
<1>4. CASE Push
  <2>1. hand[Pool] \in Works
    BY <1>4 DEF Push, TypeOK
  <2>2. TypeOK'
    BY <1>4, <2>1 DEF Push, TypeOK
  <2>3. MutexGuardsWorks'
    BY <1>4 DEF Push, TypeOK, MutexGuardsWorks
  <2> QED BY <2>2, <2>3
<1>5. CASE Post
  <2>1. workSemaphore' \in 0..SemMax /\ lost' \in Nat
    BY <1>5 DEF Post, TypeOK
  <2>2. TypeOK'
    BY <1>5, <2>1 DEF Post, TypeOK
  <2>3. MutexGuardsWorks'
    BY <1>5 DEF Post, TypeOK, MutexGuardsWorks
  <2> QED BY <2>2, <2>3
<1>6. ASSUME NEW p \in Workers, Wait(p)
      PROVE  TypeOK' /\ MutexGuardsWorks'
  <2>1. workSemaphore' \in 0..SemMax
    BY <1>6 DEF Wait, TypeOK
  <2>2. TypeOK'
    BY <1>6, <2>1 DEF Wait, TypeOK
  <2>3. MutexGuardsWorks'
    BY <1>6 DEF Wait, TypeOK, MutexGuardsWorks
  <2> QED BY <2>2, <2>3
<1>7. ASSUME NEW p \in Workers, Take(p)
      PROVE  TypeOK' /\ MutexGuardsWorks'
  <2>1. Head(works) \in Works /\ Tail(works) \in Seq(Works)
    BY <1>7 DEF Take, TypeOK
  <2>2. TypeOK'
    BY <1>7, <2>1 DEF Take, TypeOK
  <2>3. MutexGuardsWorks'
    BY <1>7 DEF Take, TypeOK, MutexGuardsWorks
  <2> QED BY <2>2, <2>3
<1>8. ASSUME NEW p \in Workers, TakeNothing(p)
      PROVE  TypeOK' /\ MutexGuardsWorks'
  BY <1>8 DEF TakeNothing, TypeOK, MutexGuardsWorks
<1>9. ASSUME NEW p \in Workers, Finish(p)
      PROVE  TypeOK' /\ MutexGuardsWorks'
  <2>1. TypeOK'
    BY <1>9 DEF Finish, TypeOK
  <2>2. MutexGuardsWorks'
    BY <1>9 DEF Finish, TypeOK, MutexGuardsWorks
  <2> QED BY <2>1, <2>2
<1>10. ASSUME NEW p \in Workers, WaitFails(p)
       PROVE  TypeOK' /\ MutexGuardsWorks'
  <2>1. failedWaits' \in 0..MaxFailedWaits
    BY <1>10 DEF WaitFails, TypeOK
  <2>2. TypeOK'
    BY <1>10, <2>1 DEF WaitFails, TypeOK
  <2>3. MutexGuardsWorks'
    BY <1>10 DEF WaitFails, TypeOK, MutexGuardsWorks
  <2> QED BY <2>2, <2>3
<1>11. CASE UNCHANGED vars
  BY <1>11 DEF vars, TypeOK, MutexGuardsWorks
<1> QED
  BY <1>1, <1>2, <1>3, <1>4, <1>5, <1>6, <1>7, <1>8, <1>9, <1>10, <1>11,
     NextSplit

-----------------------------------------------------------------------------
(* The balance of tokens and works                                         *)

LEMMA ClaimingFinite ==
    /\ IsFiniteSet(Claiming) /\ Cardinality(Claiming) \in Nat
    /\ Posting \in {0, 1}
BY FS_Subset, FS_CardinalityType DEF Claiming, Posting

\* A worker is claiming exactly between its wait and its pop, so that these two
\* change the balance on both sides alike; a post that fails moves the token
\* that was due to the lost ones, and a wait that fails is counted as a token.
LEMMA StepBalance ==
    ASSUME TypeOK, TokenBalance, [Next]_vars
    PROVE  TokenBalance'
<1> USE DEF Goto, Hold, sync, history, ends
<1>0. /\ Len(works) \in Nat /\ workSemaphore \in Nat
      /\ ghosts \in Nat /\ lost \in Nat /\ failedWaits \in Nat
  BY DEF TypeOK
<1>1. ASSUME NEW p \in Threads, Lock(p)
      PROVE  TokenBalance'
  <2>1. Claiming' = Claiming /\ Posting' = Posting
    BY <1>1 DEF Lock, TypeOK, Claiming, Posting
  <2> QED BY <1>1, <2>1 DEF Lock, TokenBalance
<1>2. ASSUME NEW w \in Works, Receive(w)
      PROVE  TokenBalance'
  <2>1. Claiming' = Claiming /\ Posting' = Posting
    BY <1>2 DEF Receive, TypeOK, Claiming, Posting
  <2> QED BY <1>2, <2>1 DEF Receive, TokenBalance
<1>3. CASE Push
  <2>1. Claiming' = Claiming /\ Posting = 0 /\ Posting' = 1
    BY <1>3 DEF Push, TypeOK, Claiming, Posting
  <2>2. Len(works') = Len(works) + 1
    BY <1>3 DEF Push, TypeOK
  <2>3. UNCHANGED <<workSemaphore, ghosts, lost, failedWaits>>
    BY <1>3 DEF Push
  <2> QED
    BY <1>0, <2>1, <2>2, <2>3, ClaimingFinite DEF TokenBalance
<1>4. CASE Post
  <2>1. Claiming' = Claiming /\ Posting = 1 /\ Posting' = 0
    BY <1>4 DEF Post, TypeOK, Claiming, Posting
  <2>2. workSemaphore' + lost' = workSemaphore + lost + 1
    BY <1>4 DEF Post, TypeOK
  <2> QED
    BY <1>4, <2>1, <2>2, ClaimingFinite DEF Post, TypeOK, TokenBalance
<1>5. ASSUME NEW p \in Workers, Wait(p)
      PROVE  TokenBalance'
  <2>1. p \notin Claiming /\ Claiming' = Claiming \cup {p} /\ Posting' = Posting
    BY <1>5 DEF Wait, TypeOK, Claiming, Posting
  <2>2. Cardinality(Claiming') = Cardinality(Claiming) + 1
    BY <2>1, ClaimingFinite, FS_AddElement
  <2> QED
    BY <1>5, <2>1, <2>2, ClaimingFinite DEF Wait, TypeOK, TokenBalance
<1>6. ASSUME NEW p \in Workers, Take(p)
      PROVE  TokenBalance'
  <2>1. p \in Claiming /\ Claiming' = Claiming \ {p} /\ Posting' = Posting
    BY <1>6 DEF Take, TypeOK, Claiming, Posting
  <2>2. Cardinality(Claiming') = Cardinality(Claiming) - 1
    BY <2>1, ClaimingFinite, FS_RemoveElement
  <2>3. Len(works') = Len(works) - 1
    BY <1>6 DEF Take, TypeOK
  <2> QED
    BY <1>6, <2>1, <2>2, <2>3, ClaimingFinite DEF Take, TypeOK, TokenBalance
<1>7. ASSUME NEW p \in Workers, Finish(p)
      PROVE  TokenBalance'
  <2>1. Claiming' = Claiming /\ Posting' = Posting
    BY <1>7 DEF Finish, TypeOK, Claiming, Posting
  <2> QED BY <1>7, <2>1 DEF Finish, TokenBalance
<1>8. ASSUME NEW p \in Workers, WaitFails(p)
      PROVE  TokenBalance'
  <2>1. p \notin Claiming /\ Claiming' = Claiming \cup {p} /\ Posting' = Posting
    BY <1>8 DEF WaitFails, TypeOK, Claiming, Posting
  <2>2. Cardinality(Claiming') = Cardinality(Claiming) + 1
    BY <2>1, ClaimingFinite, FS_AddElement
  <2>3. /\ UNCHANGED <<works, workSemaphore, ghosts, lost>>
        /\ failedWaits' = failedWaits + 1
    BY <1>8 DEF WaitFails
  <2> QED
    BY <1>0, <2>1, <2>2, <2>3, ClaimingFinite DEF TokenBalance
<1>9. ASSUME UNCHANGED <<works, workSemaphore, pc, history>>
      PROVE  TokenBalance'
  BY <1>9 DEF TokenBalance, Claiming, Posting
<1>10. \A p \in Threads : LockFails(p) \/ TakeNothing(p) \/ UNCHANGED vars =>
          UNCHANGED <<works, workSemaphore, pc, history>>
  BY DEF LockFails, TakeNothing, vars
<1> QED
  BY <1>1, <1>2, <1>3, <1>4, <1>5, <1>6, <1>7, <1>8, <1>9, <1>10, NextSplit

LEMMA InitBalance == Init => TokenBalance
<1> SUFFICES ASSUME Init PROVE TokenBalance
  OBVIOUS
<1>1. Claiming = {} /\ Posting = 0
  BY DEF Init, Claiming, Posting
<1> QED BY <1>1, FS_EmptySet DEF Init, TokenBalance

\* A worker that finds nothing to pop holds a token nobody posted.
LEMMA EmptyPopIsSpare ==
    ASSUME TypeOK, TokenBalance, NEW p \in Workers, TakeNothing(p)
    PROVE  ghosts + failedWaits > lost
<1>1. Claiming # {} /\ works = <<>>
  BY DEF TakeNothing, Claiming
<1>2. Cardinality(Claiming) > 0
  BY <1>1, ClaimingFinite, FS_EmptySet
<1> QED BY <1>1, <1>2, ClaimingFinite DEF TypeOK, TokenBalance

LEMMA StepCrash ==
    ASSUME TypeOK, TokenBalance, CrashNeedsSpareWakeup, [Next]_vars
    PROVE  CrashNeedsSpareWakeup'
<1> USE DEF Goto, Hold, sync, history, ends
<1>1. ASSUME NEW p \in Workers, TakeNothing(p)
      PROVE  CrashNeedsSpareWakeup'
  BY <1>1, EmptyPopIsSpare DEF TakeNothing, CrashNeedsSpareWakeup
<1>2. ASSUME NEW p \in Threads, LockFails(p)
      PROVE  CrashNeedsSpareWakeup'
  BY <1>2 DEF LockFails, CrashNeedsSpareWakeup
<1>3. UNCHANGED vars => CrashNeedsSpareWakeup'
  BY DEF vars, CrashNeedsSpareWakeup
<1>4. ASSUME Next, ~crashed, UNCHANGED crashed
      PROVE  CrashNeedsSpareWakeup'
  BY <1>4 DEF CrashNeedsSpareWakeup
<1>5. ASSUME Next, ~(\E p \in Workers : TakeNothing(p)),
             ~(\E p \in Threads : LockFails(p))
      PROVE  UNCHANGED crashed
  BY <1>5, NextSplit DEF Lock, Receive, Push, Post, Wait, WaitFails,
                        Take, Finish
<1> QED
  BY <1>1, <1>2, <1>3, <1>4, <1>5 DEF Next

-----------------------------------------------------------------------------
(* Every work in one place                                                 *)

\* What the moves of a work do to the sets that OnePlace is about.
LEMMA ReceiveMoves ==
    ASSUME TypeOK, OnePlace, NEW w \in Works, Receive(w)
    PROVE  /\ hand[Pool] = None /\ hand' = [hand EXCEPT ![Pool] = w]
           /\ w \in unsent /\ unsent' = unsent \ {w}
           /\ InHand' = InHand \cup {w} /\ InQueue' = InQueue
           /\ works' = works /\ finished' = finished
<1> USE DEF Receive, Goto, Hold
<1>1. hand[Pool] = None /\ hand' = [hand EXCEPT ![Pool] = w] /\ w # None
  BY DEF TypeOK
<1>2. InHand' = InHand \cup {w}
  BY <1>1 DEF TypeOK, InHand
<1> QED BY <1>1, <1>2 DEF InQueue

LEMMA PushMoves ==
    ASSUME TypeOK, OnePlace, Push
    PROVE  /\ hand[Pool] \in Works /\ hand[Pool] \in InHand
           /\ hand' = [hand EXCEPT ![Pool] = None]
           /\ InHand' = InHand \ {hand[Pool]}
           /\ InQueue' = InQueue \cup {hand[Pool]}
           /\ works' = Append(works, hand[Pool])
           /\ unsent' = unsent /\ finished' = finished
<1> USE DEF Push, Goto, Hold, ends
<1>1. /\ hand[Pool] \in Works /\ hand[Pool] \in InHand
      /\ hand' = [hand EXCEPT ![Pool] = None]
  BY DEF TypeOK, InHand
<1>2. InHand' = InHand \ {hand[Pool]}
  BY <1>1 DEF TypeOK, OnePlace, InHand
<1>3. InQueue' = InQueue \cup {hand[Pool]}
  <2>1. works \in Seq(Works) /\ works' = Append(works, hand[Pool])
    BY DEF TypeOK
  <2>2. Elements(Append(works, hand[Pool])) = Elements(works) \cup {hand[Pool]}
    BY <2>1, AppendElements
  <2>3. InQueue = Elements(works) /\ InQueue' = Elements(works')
    BY DEF InQueue, Elements
  <2> QED BY <2>1, <2>2, <2>3
<1> QED BY <1>1, <1>2, <1>3

LEMMA TakeMoves ==
    ASSUME TypeOK, OnePlace, NEW p \in Workers, Take(p)
    PROVE  /\ hand[p] = None /\ Head(works) \in Works /\ Head(works) \in InQueue
           /\ hand' = [hand EXCEPT ![p] = Head(works)]
           /\ InHand' = InHand \cup {Head(works)}
           /\ InQueue' = InQueue \ {Head(works)}
           /\ works # <<>> /\ works' = Tail(works)
           /\ Distinct(works')
           /\ unsent' = unsent /\ finished' = finished
<1> USE DEF Take, Goto, Hold, ends
<1>1. /\ works # <<>> /\ works \in Seq(Works) /\ works' = Tail(works)
      /\ Distinct(works) /\ hand[p] = None
      /\ hand' = [hand EXCEPT ![p] = Head(works)]
  BY DEF TypeOK, OnePlace, Distinct
<1>2. Head(works) \in Works /\ Head(works) \in InQueue
  BY <1>1, TailShape DEF InQueue
<1>3. InQueue' = InQueue \ {Head(works)} /\ Distinct(works')
  BY <1>1, PopDistinct DEF InQueue, Elements
<1>4. InHand' = InHand \cup {Head(works)}
  BY <1>1, <1>2 DEF TypeOK, InHand
<1> QED BY <1>1, <1>2, <1>3, <1>4

LEMMA FinishMoves ==
    ASSUME TypeOK, OnePlace, NEW p \in Workers, Finish(p)
    PROVE  /\ hand[p] \in Works /\ hand[p] \in InHand
           /\ hand' = [hand EXCEPT ![p] = None]
           /\ InHand' = InHand \ {hand[p]}
           /\ finished' = finished \cup {hand[p]}
           /\ InQueue' = InQueue /\ works' = works /\ unsent' = unsent
<1> USE DEF Finish, Goto, Hold
<1>1. /\ hand[p] \in Works /\ hand[p] \in InHand
      /\ hand' = [hand EXCEPT ![p] = None]
  BY DEF TypeOK, InHand
<1>2. InHand' = InHand \ {hand[p]}
  BY <1>1 DEF TypeOK, OnePlace, InHand
<1> QED BY <1>1, <1>2 DEF InQueue

LEMMA StepOnePlace ==
    ASSUME TypeOK, OnePlace, [Next]_vars
    PROVE  OnePlace'
<1> USE DEF Goto, Hold, sync, history, ends
<1>1. ASSUME UNCHANGED <<works, hand, unsent, finished>>
      PROVE  OnePlace'
  BY <1>1 DEF OnePlace, InHand, InQueue
<1>2. ASSUME NEW w \in Works, Receive(w)
      PROVE  OnePlace'
  <2>1. \A q \in Threads : hand[q] # w
    BY <1>2, ReceiveMoves DEF OnePlace, InHand
  <2> QED
    BY <1>2, <2>1, ReceiveMoves DEF OnePlace, TypeOK
<1>3. CASE Push
  <2>1. \A i, j \in DOMAIN works' : i # j => works'[i] # works'[j]
    <3>1. Distinct(works) /\ hand[Pool] \notin Elements(works)
      BY <1>3, PushMoves DEF OnePlace, Distinct, Elements, InQueue
    <3>2. works \in Seq(Works) /\ works' = Append(works, hand[Pool])
      BY <1>3, PushMoves DEF TypeOK
    <3>3. Distinct(works')
      BY <3>1, <3>2, AppendDistinct
    <3> QED BY <3>3 DEF Distinct
  <2>2. \A p, q \in Threads : p # q /\ hand'[p] # None => hand'[p] # hand'[q]
    BY <1>3, PushMoves DEF OnePlace, TypeOK
  <2> QED
    BY <1>3, <2>1, <2>2, PushMoves DEF OnePlace
<1>4. ASSUME NEW p \in Workers, Take(p)
      PROVE  OnePlace'
  <2>1. \A q \in Threads : hand[q] # Head(works)
    BY <1>4, TakeMoves DEF OnePlace, InHand
  <2>2. \A i, j \in DOMAIN works' : i # j => works'[i] # works'[j]
    BY <1>4, TakeMoves DEF Distinct
  <2> QED
    BY <1>4, <2>1, <2>2, TakeMoves DEF OnePlace, TypeOK
<1>5. ASSUME NEW p \in Workers, Finish(p)
      PROVE  OnePlace'
  <2>1. \A q, r \in Threads : q # r /\ hand'[q] # None => hand'[q] # hand'[r]
    BY <1>5, FinishMoves DEF OnePlace, TypeOK
  <2> QED
    BY <1>5, <2>1, FinishMoves DEF OnePlace
<1>6. ASSUME NEW p \in Threads, Lock(p) \/ LockFails(p)
      PROVE  UNCHANGED <<works, hand, unsent, finished>>
  BY <1>6 DEF Lock, LockFails
<1>7. ASSUME NEW p \in Workers, Wait(p) \/ WaitFails(p) \/ TakeNothing(p)
      PROVE  UNCHANGED <<works, hand, unsent, finished>>
  BY <1>7 DEF Wait, WaitFails, TakeNothing
<1>8. Post \/ UNCHANGED vars => UNCHANGED <<works, hand, unsent, finished>>
  BY DEF Post, vars
<1> QED
  BY <1>1, <1>2, <1>3, <1>4, <1>5, <1>6, <1>7, <1>8, NextSplit

LEMMA InitOnePlace == Init => OnePlace
BY DEF Init, OnePlace, InHand, InQueue

-----------------------------------------------------------------------------
\* Whatever the memory of the mutex and the semaphore held, the variables are
\* typed, only the holder of the mutex is at works_, and tokens, works, ghosts,
\* failed waits and lost posts balance.
THEOREM InvariantHolds == Safety => []IInv
<1>1. Init => IInv
  BY InitTyped, InitBalance DEF IInv
<1>2. IInv /\ [Next]_vars => IInv'
  BY StepTyped, StepBalance DEF IInv
<1> QED BY <1>1, <1>2, PTL DEF Safety

\* Every variable of the work pool has its type, and a thread has a work in hand
\* exactly between receiving it and passing it on.
THEOREM TypesHold == Safety => []TypeOK
BY InvariantHolds, PTL DEF IInv

\* works_ is touched by the holder of workMutex_ only (workpool.cpp:66-80).
THEOREM MutexExcludes == Safety => []MutexGuardsWorks
BY InvariantHolds, PTL DEF IInv

\* Tokens are the queued works, but for the ghosts, the failed waits and the
\* lost posts.
THEOREM TokensBalance == Safety => []TokenBalance
BY InvariantHolds, PTL DEF IInv

\* getWork pops an empty queue only with a wakeup to spare: more of them came
\* from the uninitialised semaphore and from failed waits than posts failed.
THEOREM CrashesNeedSpareWakeups == Safety => []CrashNeedsSpareWakeup
<1>1. Init => CrashNeedsSpareWakeup
  BY DEF Init, CrashNeedsSpareWakeup
<1>2. IInv /\ CrashNeedsSpareWakeup /\ [Next]_vars => CrashNeedsSpareWakeup'
  BY StepCrash DEF IInv
<1> QED BY <1>1, <1>2, InvariantHolds, PTL DEF Safety

\* No work is run by two workers, run twice or dropped.
THEOREM WorksStayUnique == Safety => []OnePlace
<1>1. Init => OnePlace
  BY InitOnePlace
<1>2. IInv /\ OnePlace /\ [Next]_vars => OnePlace'
  BY StepOnePlace DEF IInv
<1> QED BY <1>1, <1>2, InvariantHolds, PTL DEF Safety

-----------------------------------------------------------------------------
(* works_ is a channel                                                     *)

\* The channel's held is a worker's hand; the pool's hand is not sent yet.
LEMMA StepRefines ==
    ASSUME TypeOK, OnePlace, [Next]_vars
    PROVE  [Chan!Next]_(Chan!vars)
<1> USE DEF Goto, Hold, sync, history, ends, Chan!vars
<1>1. ASSUME UNCHANGED <<works, hand, unsent, finished>>
      PROVE  UNCHANGED Chan!vars
  BY <1>1
<1>2. ASSUME NEW w \in Works, Receive(w)
      PROVE  UNCHANGED Chan!vars
  <2>1. \A p \in Workers : hand'[p] = hand[p]
    BY <1>2, ReceiveMoves DEF TypeOK
  <2>2. hand'[Pool] = w
    BY <1>2, ReceiveMoves DEF TypeOK
  <2> QED BY <1>2, <2>1, <2>2, ReceiveMoves
<1>3. ASSUME Push
      PROVE  Chan!Send(hand[Pool])
  <2>1. \A p \in Workers : hand'[p] = hand[p]
    BY <1>3, PushMoves DEF TypeOK
  <2>2. hand'[Pool] = None /\ hand[Pool] \notin unsent
    BY <1>3, PushMoves DEF TypeOK, OnePlace
  <2> QED BY <1>3, <2>1, <2>2, PushMoves DEF Chan!Send
<1>4. ASSUME NEW p \in Workers, Take(p)
      PROVE  Chan!Receive(p)
  <2>1. hand'[Pool] = hand[Pool]
    BY <1>4, TakeMoves DEF TypeOK
  <2>2. [q \in Workers |-> hand'[q]]
          = [[q \in Workers |-> hand[q]] EXCEPT ![p] = Head(works)]
    <3>1. \A q \in Workers : hand'[q] = IF q = p THEN Head(works) ELSE hand[q]
      BY <1>4, TakeMoves DEF TypeOK
    <3> QED BY <3>1
  <2> QED BY <1>4, <2>1, <2>2, TakeMoves DEF Chan!Receive
<1>5. ASSUME NEW p \in Workers, Finish(p)
      PROVE  Chan!Handle(p)
  <2>1. hand'[Pool] = hand[Pool]
    BY <1>5, FinishMoves DEF TypeOK
  <2>2. [q \in Workers |-> hand'[q]]
          = [[q \in Workers |-> hand[q]] EXCEPT ![p] = None]
    <3>1. \A q \in Workers : hand'[q] = IF q = p THEN None ELSE hand[q]
      BY <1>5, FinishMoves DEF TypeOK
    <3> QED BY <3>1
  <2> QED BY <1>5, <2>1, <2>2, FinishMoves DEF Chan!Handle
<1>6. ASSUME NEW p \in Threads, Lock(p) \/ LockFails(p)
      PROVE  UNCHANGED Chan!vars
  BY <1>1, <1>6 DEF Lock, LockFails
<1>7. ASSUME NEW p \in Workers, Wait(p) \/ WaitFails(p) \/ TakeNothing(p)
      PROVE  UNCHANGED Chan!vars
  BY <1>1, <1>7 DEF Wait, WaitFails, TakeNothing
<1>8. Post \/ UNCHANGED vars => UNCHANGED Chan!vars
  BY <1>1 DEF Post, vars
<1>9. Push => hand[Pool] \in Works
  BY PushMoves
<1> QED
  BY <1>2, <1>3, <1>4, <1>5, <1>6, <1>7, <1>8, <1>9, NextSplit DEF Chan!Next

\* Even with a garbage semaphore and failing waits, works are received once each,
\* by one worker, in the order in which the pool pushed them.
THEOREM WorksAreChannel == Safety => ImplementsChannel
<1>1. Init => Chan!Init
  BY DEF Init, Chan!Init
<1>2. IInv /\ OnePlace /\ [Next]_vars => [Chan!Next]_(Chan!vars)
  BY StepRefines DEF IInv
<1> QED
  BY <1>1, <1>2, InvariantHolds, WorksStayUnique, PTL
     DEF Safety, ImplementsChannel, Chan!Safety
=============================================================================
