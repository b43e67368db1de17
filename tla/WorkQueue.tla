----------------------------- MODULE WorkQueue -----------------------------
(***************************************************************************)
(* works_ of workpool.cpp: the queue between the WorkPool thread, which    *)
(* pushes in handleMessage, and the WorkPoolWorkers, which pop in getWork  *)
(* and then run the work.                                                  *)
(*                                                                         *)
(* Unlike the mailbox of Thread<T>, neither workMutex_ nor workSemaphore_  *)
(* is initialised (workpool.h:85-86, workpool.cpp:89-96), and the results  *)
(* of sem_post and sem_wait are not looked at.  What the two objects hold  *)
(* when the workers start is whatever the allocation held: any semaphore   *)
(* value, and a mutex that is free or looks taken for ever.                *)
(***************************************************************************)
EXTENDS Naturals, Sequences, FiniteSets

CONSTANTS Workers,      \* the WorkPoolWorkers
          Pool,         \* the WorkPool thread
          Works,        \* the Work objects
          SemMax,       \* SEM_VALUE_MAX
          MaxFailedWaits, \* bound on the sem_waits that fail
          SemInits,     \* values workSemaphore_ may start with
          MutexInits,   \* states workMutex_ may start in: None or Garbage
          Garbage,      \* held by nobody, and taken
          None          \* no work in hand, and the holder of a free mutex

Threads == Workers \cup {Pool}

ASSUME WorkersFinite == IsFiniteSet(Workers)
ASSUME PoolIsNoWorker == Pool \notin Workers
ASSUME NoneIsNeither == None \notin Threads \cup Works
ASSUME GarbageIsNeither == Garbage \notin Threads \cup {None}
ASSUME InitsOK == /\ SemMax \in Nat /\ MaxFailedWaits \in Nat
                  /\ SemInits \subseteq 0..SemMax
                  /\ MutexInits \subseteq {None, Garbage}

VARIABLES works,           \* works_
          workMutex,       \* the thread that holds workMutex_, None or Garbage
          workSemaphore,   \* the value of workSemaphore_
          pc,              \* what each thread does next
          hand,            \* work in handleMessage, in getWork and in run
          unsent,          \* works the pool has not received yet
          finished,        \* works run and finished
          crashed,         \* a worker popped an empty works_, or a lock failed
          ghosts,          \* history: the value workSemaphore_ started with
          lost,            \* history: posts that failed unnoticed
          failedWaits      \* history: waits that failed unnoticed

sync == <<workMutex, workSemaphore>>
history == <<ghosts, lost, failedWaits>>
ends == <<unsent, finished, crashed>>
vars == <<works, sync, pc, hand, ends, history>>

Init == /\ works = <<>>
        /\ workMutex \in MutexInits
        /\ workSemaphore \in SemInits
        /\ pc = [p \in Threads |-> IF p = Pool THEN "receive" ELSE "wait"]
        /\ hand = [p \in Threads |-> None]
        /\ unsent = Works
        /\ finished = {}
        /\ crashed = FALSE
        /\ ghosts = workSemaphore
        /\ lost = 0
        /\ failedWaits = 0

Goto(p, from, to) == pc[p] = from /\ pc' = [pc EXCEPT ![p] = to]
Hold(p, w) == hand' = [hand EXCEPT ![p] = w]

\* Variant of Lock: the mutex does not exclude.
LockBarging(p) ==
    /\ workMutex # Garbage
    /\ Goto(p, "lock", "locked")
    /\ workMutex' = p
    /\ UNCHANGED <<works, workSemaphore, hand, ends, history>>

\* LockMutex lock(&workMutex_)
Lock(p) ==
    /\ workMutex = None
    /\ Goto(p, "lock", "locked")
    /\ workMutex' = p
    /\ UNCHANGED <<works, workSemaphore, hand, ends, history>>

\* On garbage pthread_mutex_lock blocks, or fails and LockMutex throws.
LockFails(p) ==
    /\ workMutex = Garbage
    /\ pc[p] = "lock"
    /\ crashed' = TRUE
    /\ UNCHANGED <<works, sync, pc, hand, unsent, finished, history>>

-----------------------------------------------------------------------------
(* WorkPool::handleMessage                                                 *)

Receive(w) ==
    /\ w \in unsent
    /\ Goto(Pool, "receive", "lock")
    /\ Hold(Pool, w)
    /\ unsent' = unsent \ {w}
    /\ UNCHANGED <<works, sync, finished, crashed, history>>

\* Variant of Push: the semaphore is posted here, and again by Post.
PushAndPost ==
    /\ Goto(Pool, "locked", "post")
    /\ works' = Append(works, hand[Pool])
    /\ Hold(Pool, None)
    /\ workMutex' = None
    /\ workSemaphore' = workSemaphore + 1
    /\ UNCHANGED <<ends, history>>

Push ==
    /\ Goto(Pool, "locked", "post")
    /\ works' = Append(works, hand[Pool])
    /\ Hold(Pool, None)
    /\ workMutex' = None
    /\ UNCHANGED <<workSemaphore, ends, history>>

\* Variant of Post: a token for the first waiting work only.
PostIfEmpty ==
    /\ Goto(Pool, "post", "receive")
    /\ workSemaphore' = IF workSemaphore = 0 THEN 1 ELSE workSemaphore
    /\ UNCHANGED <<works, workMutex, hand, ends, history>>

\* sem_post.  Its result is ignored: at SemMax the token is lost, and the work
\* stays in the queue without one.
Post ==
    /\ Goto(Pool, "post", "receive")
    /\ \/ /\ workSemaphore < SemMax
          /\ workSemaphore' = workSemaphore + 1
          /\ lost' = lost
       \/ /\ workSemaphore = SemMax
          /\ lost' = lost + 1
          /\ UNCHANGED workSemaphore
    /\ UNCHANGED <<works, workMutex, hand, ends, ghosts, failedWaits>>

-----------------------------------------------------------------------------
(* WorkPool::getWork, called by worker p, and the rest of its loop         *)

\* Variant of Wait: sem_wait does not wait for a token.
WaitInterrupted(p) ==
    /\ Goto(p, "wait", "lock")
    /\ workSemaphore' = workSemaphore - 1
    /\ UNCHANGED <<works, workMutex, hand, ends, history>>

Wait(p) ==
    /\ workSemaphore > 0
    /\ Goto(p, "wait", "lock")
    /\ workSemaphore' = workSemaphore - 1
    /\ UNCHANGED <<works, workMutex, hand, ends, history>>

\* A sem_wait that fails, as one a signal interrupts does: its result is ignored
\* too, and the worker goes on without a token.
WaitFails(p) ==
    /\ failedWaits < MaxFailedWaits
    /\ Goto(p, "wait", "lock")
    /\ failedWaits' = failedWaits + 1
    /\ UNCHANGED <<works, sync, hand, ends, ghosts, lost>>

\* Variant of Take: front without pop.
TakeNoPop(p) ==
    /\ works # <<>>
    /\ Goto(p, "locked", "run")
    /\ Hold(p, Head(works))
    /\ workMutex' = None
    /\ UNCHANGED <<works, workSemaphore, ends, history>>

\* Variant of Take: the newest work first.
TakeNewest(p) ==
    /\ works # <<>>
    /\ Goto(p, "locked", "run")
    /\ Hold(p, works[Len(works)])
    /\ works' = SubSeq(works, 1, Len(works) - 1)
    /\ workMutex' = None
    /\ UNCHANGED <<workSemaphore, ends, history>>

Take(p) ==
    /\ works # <<>>
    /\ Goto(p, "locked", "run")
    /\ Hold(p, Head(works))
    /\ works' = Tail(works)
    /\ workMutex' = None
    /\ UNCHANGED <<workSemaphore, ends, history>>

\* front and pop of an empty queue: the unique_ptr read is null or garbage, and
\* the next line dereferences it.
TakeNothing(p) ==
    /\ works = <<>>
    /\ pc[p] = "locked"
    /\ crashed' = TRUE
    /\ UNCHANGED <<works, sync, pc, hand, unsent, finished, history>>

\* runSingle and finish_; the Work is gone when run goes round its loop.
Finish(p) ==
    /\ Goto(p, "run", "wait")
    /\ finished' = finished \cup {hand[p]}
    /\ Hold(p, None)
    /\ UNCHANGED <<works, sync, unsent, crashed, history>>

-----------------------------------------------------------------------------
PoolStep == Lock(Pool) \/ Push \/ Post \/ \E w \in Works : Receive(w)

\* What a worker does once it is out of sem_wait.
Go(p) == Lock(p) \/ Take(p) \/ TakeNothing(p) \/ Finish(p)

Next == /\ ~crashed
        /\ \/ PoolStep
           \/ \E p \in Workers : Wait(p) \/ WaitFails(p) \/ Go(p)
           \/ \E p \in Threads : LockFails(p)

Safety == Init /\ [][Next]_vars

\* The kernel runs the pool, some waiting worker when there is a token, and
\* every worker that is out of sem_wait.  No wait is obliged to fail.  The
\* liveness of the queue is stated for commands that return.
Spec == /\ Safety
        /\ WF_vars(~crashed /\ PoolStep)
        /\ WF_vars(~crashed /\ \E p \in Workers : Wait(p))
        /\ \A p \in Workers : WF_vars(~crashed /\ Go(p))

-----------------------------------------------------------------------------
(* Properties                                                              *)

\* Every variable has its type; a thread has a work in hand exactly between
\* receiving it and passing it on.
TypeOK ==
    /\ works \in Seq(Works)
    /\ workMutex \in Threads \cup {None, Garbage}
    /\ workSemaphore \in 0..SemMax
    /\ pc \in [Threads -> {"receive", "wait", "lock", "locked", "post", "run"}]
    /\ pc[Pool] \in {"receive", "lock", "locked", "post"}
    /\ \A p \in Workers : pc[p] \in {"wait", "lock", "locked", "run"}
    /\ hand \in [Threads -> Works \cup {None}]
    /\ pc[Pool] \in {"lock", "locked"} <=> hand[Pool] # None
    /\ \A p \in Workers : pc[p] = "run" <=> hand[p] # None
    /\ unsent \subseteq Works
    /\ finished \subseteq Works
    /\ crashed \in BOOLEAN
    /\ ghosts \in 0..SemMax
    /\ lost \in Nat
    /\ failedWaits \in 0..MaxFailedWaits

\* works_ is only touched by the holder of workMutex_ (workpool.cpp:66-69,
\* 76-80).
MutexGuardsWorks ==
    \A p \in Threads : pc[p] = "locked" <=> workMutex = p

\* Workers that are out of sem_wait and have popped nothing yet.
Claiming == {p \in Workers : pc[p] \in {"lock", "locked"}}
Posting == IF pc[Pool] = "post" THEN 1 ELSE 0

\* The tokens, wherever they are, are the queued works, plus the ghosts the
\* uninitialised semaphore started with and the waits that failed unnoticed,
\* less the posts that failed unnoticed.
TokenBalance ==
    Len(works) + ghosts + failedWaits
      = workSemaphore + Posting + Cardinality(Claiming) + lost

\* A worker pops an empty queue only if the wakeups nobody posted, those of the
\* uninitialised semaphore and those of failed waits, are more than the posts
\* that failed (each of those leaves a work for one of them to pop); and
\* nothing else brings the process down but a mutex that held garbage.
CrashNeedsSpareWakeup ==
    crashed => ghosts + failedWaits > lost \/ workMutex = Garbage

InQueue == {works[i] : i \in DOMAIN works}
InHand == {hand[p] : p \in Threads} \ {None}

\* No work is run by two workers, run twice, or dropped, whatever the
\* semaphore started with and whichever waits fail.
OnePlace ==
    /\ Works = unsent \cup InQueue \cup InHand \cup finished
    /\ unsent \cap (InQueue \cup InHand \cup finished) = {}
    /\ InQueue \cap (InHand \cup finished) = {}
    /\ InHand \cap finished = {}
    /\ \A p, q \in Threads : p # q /\ hand[p] # None => hand[p] # hand[q]
    /\ \A i, j \in DOMAIN works : i # j => works[i] # works[j]

\* works_ is a channel from the pool to the workers: first in, first out, each
\* work to one worker.
Chan == INSTANCE Channel WITH
            Messages <- Works,
            Receivers <- Workers,
            unsent <- unsent \cup ({hand[Pool]} \ {None}),
            queue <- works,
            held <- [p \in Workers |-> hand[p]],
            done <- finished

\* The steps of workpool.cpp are steps of the channel, or leave it unchanged.
ImplementsChannel == Chan!Safety

\* In memory that was zero, as sem_init and pthread_mutex_init would have
\* left it, and while no post and no wait fails, waiting works are received and
\* received works are finished.
ImplementsFairness ==
    ghosts = 0 /\ workMutex = None =>
        <>(lost > 0 \/ failedWaits > 0) \/ Chan!Liveness
=============================================================================
