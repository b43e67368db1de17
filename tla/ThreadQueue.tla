---------------------------- MODULE ThreadQueue ----------------------------
(***************************************************************************)
(* Thread<T> of thread.h: a thread with a mailbox.  Any thread may call    *)
(* sendMessage; the thread itself loops in run().  Resolver, Responder and *)
(* WorkPool are Thread<T>s.                                                *)
(*                                                                         *)
(* The mailbox is a std::queue guarded by messagesMutex_ and counted by    *)
(* messagesSemaphore_.  The two change at different times: a sender posts  *)
(* after it has unlocked, and the consumer takes its token before it       *)
(* locks.  What a thread does between two blocking calls is one action;    *)
(* the destructor of LockMutex is part of the action that leaves the block.*)
(* Operators called a variant are not part of the specification: they are  *)
(* what the code could wrongly have been.                                  *)
(***************************************************************************)
EXTENDS Naturals, Sequences, FiniteSets

CONSTANTS Senders,    \* threads that call sendMessage
          Consumer,   \* the thread that executes run()
          Messages,   \* the objects sent; each std::unique_ptr is sent once
          SemMax,     \* SEM_VALUE_MAX: sem_post fails above it
          None        \* an empty unique_ptr, and the holder of a free mutex

Threads == Senders \cup {Consumer}

ASSUME SendersFinite == IsFiniteSet(Senders)
ASSUME ConsumerIsNoSender == Consumer \notin Senders
ASSUME NoneIsNeither == None \notin Threads \cup Messages
ASSUME SemMaxNat == SemMax \in Nat

VARIABLES messages,            \* messages_
          messagesMutex,       \* the thread that holds messagesMutex_, or None
          messagesSemaphore,   \* the value of messagesSemaphore_
          pc,                  \* what each thread does next
          hand,                \* t in sendMessage, msg in run
          unsent,              \* messages nobody has passed to sendMessage
          handled,             \* messages handleMessage has returned from
          terminated           \* an exception left a thread: std::terminate

sync == <<messagesMutex, messagesSemaphore>>
ends == <<unsent, handled, terminated>>
vars == <<messages, sync, pc, hand, ends>>

Init == /\ messages = <<>>
        /\ messagesMutex = None
        /\ messagesSemaphore = 0
        /\ pc = [p \in Threads |-> IF p = Consumer THEN "wait" ELSE "idle"]
        /\ hand = [p \in Threads |-> None]
        /\ unsent = Messages
        /\ handled = {}
        /\ terminated = FALSE

Goto(p, from, to) == pc[p] = from /\ pc' = [pc EXCEPT ![p] = to]
Hold(p, m) == hand' = [hand EXCEPT ![p] = m]

\* Variant of Lock: the mutex does not exclude.
LockBarging(p) ==
    /\ Goto(p, "lock", "locked")
    /\ messagesMutex' = p
    /\ UNCHANGED <<messages, messagesSemaphore, hand, ends>>

\* The constructor of LockMutex.
Lock(p) ==
    /\ messagesMutex = None
    /\ Goto(p, "lock", "locked")
    /\ messagesMutex' = p
    /\ UNCHANGED <<messages, messagesSemaphore, hand, ends>>

-----------------------------------------------------------------------------
(* sendMessage, executed by s                                              *)

SendMessage(s, m) ==
    /\ m \in unsent
    /\ Goto(s, "idle", "lock")
    /\ Hold(s, m)
    /\ unsent' = unsent \ {m}
    /\ UNCHANGED <<messages, sync, handled, terminated>>

\* Variant of Push: last in, first out.
PushAtFront(s) ==
    /\ Goto(s, "locked", "post")
    /\ messages' = <<hand[s]>> \o messages
    /\ Hold(s, None)
    /\ messagesMutex' = None
    /\ UNCHANGED <<messagesSemaphore, ends>>

Push(s) ==
    /\ Goto(s, "locked", "post")
    /\ messages' = Append(messages, hand[s])
    /\ Hold(s, None)
    /\ messagesMutex' = None
    /\ UNCHANGED <<messagesSemaphore, ends>>

\* Variant of Post: a token for the first waiting message only.
PostIfEmpty(s) ==
    /\ messagesSemaphore < SemMax
    /\ Goto(s, "post", "idle")
    /\ messagesSemaphore' = IF messagesSemaphore = 0 THEN 1
                                                     ELSE messagesSemaphore
    /\ UNCHANGED <<messages, messagesMutex, hand, ends>>

Post(s) ==
    /\ messagesSemaphore < SemMax
    /\ Goto(s, "post", "idle")
    /\ messagesSemaphore' = messagesSemaphore + 1
    /\ UNCHANGED <<messages, messagesMutex, hand, ends>>

\* EOVERFLOW: the message is in the queue when the THROW ends the process.
PostOverflows(s) ==
    /\ messagesSemaphore = SemMax
    /\ pc[s] = "post"
    /\ terminated' = TRUE
    /\ UNCHANGED <<messages, sync, pc, hand, unsent, handled>>

-----------------------------------------------------------------------------
(* run, executed by the consumer                                           *)

\* Variant of Wait: sem_wait does not wait for a token.
WaitInterrupted ==
    /\ Goto(Consumer, "wait", "lock")
    /\ messagesSemaphore' = messagesSemaphore - 1
    /\ UNCHANGED <<messages, messagesMutex, hand, ends>>

Wait ==
    /\ messagesSemaphore > 0
    /\ Goto(Consumer, "wait", "lock")
    /\ messagesSemaphore' = messagesSemaphore - 1
    /\ UNCHANGED <<messages, messagesMutex, hand, ends>>

\* A sem_wait that fails, as one a signal interrupts does: the THROW ends the
\* process.
WaitFails ==
    /\ pc[Consumer] = "wait"
    /\ terminated' = TRUE
    /\ UNCHANGED <<messages, sync, pc, hand, unsent, handled>>

\* Variant of Take: front without pop.
TakeNoPop ==
    /\ Goto(Consumer, "locked", "handle")
    /\ Hold(Consumer, Head(messages))
    /\ messagesMutex' = None
    /\ UNCHANGED <<messages, messagesSemaphore, ends>>

\* front and pop; on an empty queue both are undefined (FrontExists).
Take ==
    /\ Goto(Consumer, "locked", "handle")
    /\ Hold(Consumer, Head(messages))
    /\ messages' = Tail(messages)
    /\ messagesMutex' = None
    /\ UNCHANGED <<messagesSemaphore, ends>>

\* handleMessage returns.
HandleMessage ==
    /\ Goto(Consumer, "handle", "wait")
    /\ handled' = handled \cup {hand[Consumer]}
    /\ Hold(Consumer, None)
    /\ UNCHANGED <<messages, sync, unsent, terminated>>

\* handleMessage throws, as those of Resolver and Responder do at a client that
\* left: no run catches it.
HandleThrows ==
    /\ pc[Consumer] = "handle"
    /\ terminated' = TRUE
    /\ UNCHANGED <<messages, sync, pc, hand, unsent, handled>>

-----------------------------------------------------------------------------
\* A call of sendMessage that has begun.
Call(s) == Lock(s) \/ Push(s) \/ Post(s) \/ PostOverflows(s)

Run == Wait \/ Lock(Consumer) \/ Take

Next == /\ ~terminated
        /\ \/ Run
           \/ WaitFails
           \/ HandleMessage \/ HandleThrows
           \/ \E s \in Senders : Call(s)
           \/ \E s \in Senders, m \in Messages : SendMessage(s, m)

Safety == Init /\ [][Next]_vars

\* The kernel runs every thread that can run.  Nothing obliges a sender to
\* call sendMessage, but a call that has begun is completed.  Nothing obliges
\* handleMessage to return or to throw either: the handlers of Resolver and
\* Responder block in recv and send for as long as a client likes.
Spec == /\ Safety
        /\ WF_vars(~terminated /\ Run)
        /\ \A s \in Senders : WF_vars(~terminated /\ Call(s))

-----------------------------------------------------------------------------
(* Properties                                                              *)

\* Every variable has its type; a thread has a message in hand exactly
\* between receiving it and passing it on.
TypeOK ==
    /\ messages \in Seq(Messages)
    /\ messagesMutex \in Threads \cup {None}
    /\ messagesSemaphore \in 0..SemMax
    /\ pc \in [Threads -> {"idle", "wait", "lock", "locked", "post", "handle"}]
    /\ \A s \in Senders : pc[s] \in {"idle", "lock", "locked", "post"}
    /\ pc[Consumer] \in {"wait", "lock", "locked", "handle"}
    /\ hand \in [Threads -> Messages \cup {None}]
    /\ \A s \in Senders : pc[s] \in {"lock", "locked"} <=> hand[s] # None
    /\ pc[Consumer] = "handle" <=> hand[Consumer] # None
    /\ unsent \subseteq Messages
    /\ handled \subseteq Messages
    /\ terminated \in BOOLEAN

\* messages_ is only touched by the holder of messagesMutex_, so by one thread
\* at a time (thread.h:67-70, 86-90).
MutexGuardsQueue ==
    \A p \in Threads : pc[p] = "locked" <=> messagesMutex = p

\* Senders that have pushed and not yet posted, and the token the consumer
\* took for a message it has not popped yet.
Posting == {s \in Senders : pc[s] = "post"}
Claimed == IF pc[Consumer] \in {"lock", "locked"} THEN 1 ELSE 0

\* Every queued message is backed by exactly one token: one in the semaphore,
\* one a sender is about to post, or the one the consumer holds.  No wakeup is
\* lost and none is spurious, although queue and semaphore change apart.
TokenBalance ==
    Len(messages) = messagesSemaphore + Cardinality(Posting) + Claimed

\* The consumer never calls front and pop on an empty queue (thread.h:88-89),
\* which would be undefined behaviour.
FrontExists == pc[Consumer] = "locked" => messages # <<>>

InQueue == {messages[i] : i \in DOMAIN messages}
InCall == {hand[s] : s \in Senders} \ {None}

\* A message is in exactly one place at a time: not sent yet, in a sender's
\* t, in the queue (once), in the consumer's msg, or handled.  Nothing is
\* duplicated, dropped or handled twice by the moves of the unique_ptr.
OnePlace ==
    /\ Messages = unsent \cup InCall \cup InQueue \cup handled
                  \cup ({hand[Consumer]} \ {None})
    /\ unsent \cap (InCall \cup InQueue \cup handled \cup {hand[Consumer]}) = {}
    /\ InCall \cap (InQueue \cup handled \cup {hand[Consumer]}) = {}
    /\ InQueue \cap (handled \cup {hand[Consumer]}) = {}
    /\ hand[Consumer] \notin handled
    /\ \A s1, s2 \in Senders : s1 # s2 /\ hand[s1] # None => hand[s1] # hand[s2]
    /\ \A i, j \in DOMAIN messages : i # j => messages[i] # messages[j]

\* The mailbox is a first-in first-out channel that delivers every message
\* once: a message is sent at the push and received at the pop.
Chan == INSTANCE Channel WITH
            Receivers <- {Consumer},
            unsent <- unsent \cup InCall,
            queue <- messages,
            held <- [r \in {Consumer} |-> hand[r]],
            done <- handled

\* The steps of thread.h are steps of the channel, or leave it unchanged.
ImplementsChannel == Chan!Safety

\* Some call of handleMessage never returns.
HandlerHangs == [](pc[Consumer] = "handle")

\* ... and a waiting message is received and a received one handled, unless the
\* process ends (a sem_post overflows, a sem_wait fails, a handler throws) or a
\* handler never returns.
ImplementsFairness == <>terminated \/ <>HandlerHangs \/ Chan!Liveness

\* A message passed to sendMessage is handled in the end, unless the process
\* ends or the handler of this message or of an earlier one never returns.
SentIsHandled ==
    \A m \in Messages :
        m \notin unsent ~> (m \in handled \/ terminated \/ HandlerHangs)
=============================================================================
