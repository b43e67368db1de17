------------------------- MODULE ThreadQueueProofs -------------------------
(***************************************************************************)
(* Proofs about ThreadQueue for any number of senders and messages.        *)
(*                                                                         *)
(* The consumer pops after it has taken a token and the lock, so that the  *)
(* queue is not empty then (FrontExists) is no invariant on its own: it    *)
(* needs the balance between tokens and messages, which in turn needs the  *)
(* mutex (or two threads change the queue at once) and the types.  IInv is *)
(* their conjunction.                                                      *)
(***************************************************************************)
EXTENDS ThreadQueue, QueueLemmas

USE SendersFinite, ConsumerIsNoSender, NoneIsNeither, SemMaxNat DEF Threads

IInv == TypeOK /\ MutexGuardsQueue /\ TokenBalance

\* Next is one of the actions below; the consumer and the senders share Lock.
LEMMA NextSplit ==
    ASSUME Next
    PROVE  \/ \E p \in Threads : Lock(p)
           \/ \E s \in Senders : Push(s) \/ Post(s) \/ PostOverflows(s)
           \/ \E s \in Senders, m \in Messages : SendMessage(s, m)
           \/ Wait \/ Take \/ HandleMessage
           \/ WaitFails \/ HandleThrows
BY DEF Next, Run, Call

-----------------------------------------------------------------------------
(* Types and the mutex                                                     *)

LEMMA InitTyped == Init => TypeOK /\ MutexGuardsQueue
<1> SUFFICES ASSUME Init PROVE TypeOK /\ MutexGuardsQueue
  OBVIOUS
<1>1. /\ messages \in Seq(Messages)
      /\ messagesSemaphore \in 0..SemMax
  BY DEF Init
<1>2. /\ pc \in [Threads -> {"idle", "wait", "lock", "locked", "post", "handle"}]
      /\ hand \in [Threads -> Messages \cup {None}]
      /\ \A p \in Threads : pc[p] \in {"idle", "wait"} /\ hand[p] = None
      /\ \A s \in Senders : pc[s] = "idle"
      /\ pc[Consumer] = "wait"
  BY DEF Init
<1>3. messagesMutex = None /\ \A p \in Threads : p # None
  BY DEF Init
<1> QED
  BY <1>1, <1>2, <1>3 DEF Init, TypeOK, MutexGuardsQueue

\* A step keeps the types and the mutex.  Only the consumer's pop needs more: a
\* message there to take.
LEMMA StepTyped ==
    ASSUME TypeOK, MutexGuardsQueue, FrontExists, [Next]_vars
    PROVE  TypeOK' /\ MutexGuardsQueue'
<1> USE DEF Goto, Hold, sync, ends
<1>1. ASSUME NEW p \in Threads, Lock(p)
      PROVE  TypeOK' /\ MutexGuardsQueue'
  <2>1. TypeOK'
    BY <1>1 DEF Lock, TypeOK
  <2>2. MutexGuardsQueue'
    BY <1>1 DEF Lock, TypeOK, MutexGuardsQueue
  <2> QED BY <2>1, <2>2
<1>2. ASSUME NEW s \in Senders, Push(s)
      PROVE  TypeOK' /\ MutexGuardsQueue'
  <2>1. hand[s] \in Messages
    BY <1>2 DEF Push, TypeOK
  <2>2. TypeOK'
    BY <1>2, <2>1 DEF Push, TypeOK
  <2>3. MutexGuardsQueue'
    BY <1>2 DEF Push, TypeOK, MutexGuardsQueue
  <2> QED BY <2>2, <2>3
<1>3. ASSUME NEW s \in Senders, Post(s) \/ PostOverflows(s)
      PROVE  TypeOK' /\ MutexGuardsQueue'
  <2>1. TypeOK'
    <3>1. CASE Post(s)
      <4>1. messagesSemaphore' \in 0..SemMax
        BY <3>1 DEF Post, TypeOK
      <4> QED BY <3>1, <4>1 DEF Post, TypeOK
    <3>2. CASE PostOverflows(s)
      BY <3>2 DEF PostOverflows, TypeOK
    <3> QED BY <1>3, <3>1, <3>2
  <2>2. MutexGuardsQueue'
    BY <1>3 DEF Post, PostOverflows, TypeOK, MutexGuardsQueue
  <2> QED BY <2>1, <2>2
<1>4. ASSUME NEW s \in Senders, NEW m \in Messages, SendMessage(s, m)
      PROVE  TypeOK' /\ MutexGuardsQueue'
  <2>1. TypeOK'
    BY <1>4 DEF SendMessage, TypeOK
  <2>2. MutexGuardsQueue'
    BY <1>4 DEF SendMessage, TypeOK, MutexGuardsQueue
  <2> QED BY <2>1, <2>2
<1>5. CASE Wait
  BY <1>5 DEF Wait, TypeOK, MutexGuardsQueue
<1>6. CASE Take
  <2>1. Head(messages) \in Messages /\ Tail(messages) \in Seq(Messages)
    BY <1>6 DEF Take, FrontExists, TypeOK
  <2>2. TypeOK'
    BY <1>6, <2>1 DEF Take, TypeOK
  <2>3. MutexGuardsQueue'
    BY <1>6 DEF Take, TypeOK, MutexGuardsQueue
  <2> QED BY <2>2, <2>3
<1>7. CASE HandleMessage
  BY <1>7 DEF HandleMessage, TypeOK, MutexGuardsQueue
<1>8. CASE WaitFails \/ HandleThrows
  BY <1>8 DEF WaitFails, HandleThrows, TypeOK, MutexGuardsQueue
<1>9. CASE UNCHANGED vars
  BY <1>9 DEF vars, TypeOK, MutexGuardsQueue
<1> QED
  BY <1>1, <1>2, <1>3, <1>4, <1>5, <1>6, <1>7, <1>8, <1>9, NextSplit

-----------------------------------------------------------------------------
(* The balance of tokens and messages                                      *)

LEMMA PostingFinite == IsFiniteSet(Posting) /\ Cardinality(Posting) \in Nat
BY FS_Subset, FS_CardinalityType DEF Posting

\* The queue is not empty when the consumer pops: it holds a token that is
\* counted for a message still there.
LEMMA BalanceGivesFront == TypeOK /\ TokenBalance => FrontExists
BY PostingFinite DEF TypeOK, TokenBalance, FrontExists, Claimed

\* A sender is about to post exactly between its push and its post, so the two
\* change the balance on both sides alike.
LEMMA StepBalance ==
    ASSUME TypeOK, TokenBalance, [Next]_vars
    PROVE  TokenBalance'
<1> USE DEF Goto, Hold, sync, ends
<1>1. ASSUME NEW p \in Threads, Lock(p)
      PROVE  TokenBalance'
  <2>1. Posting' = Posting /\ Claimed' = Claimed
    BY <1>1 DEF Lock, TypeOK, Posting, Claimed
  <2> QED BY <1>1, <2>1 DEF Lock, TokenBalance
<1>2. ASSUME NEW s \in Senders, Push(s)
      PROVE  TokenBalance'
  <2>1. s \notin Posting /\ Posting' = Posting \cup {s} /\ Claimed' = Claimed
    BY <1>2 DEF Push, TypeOK, Posting, Claimed
  <2>2. Cardinality(Posting') = Cardinality(Posting) + 1
    BY <2>1, PostingFinite, FS_AddElement
  <2>3. Len(messages') = Len(messages) + 1
    BY <1>2 DEF Push, TypeOK
  <2> QED
    BY <1>2, <2>1, <2>2, <2>3, PostingFinite DEF Push, TypeOK, TokenBalance, Claimed
<1>3. ASSUME NEW s \in Senders, Post(s)
      PROVE  TokenBalance'
  <2>1. s \in Posting /\ Posting' = Posting \ {s} /\ Claimed' = Claimed
    BY <1>3 DEF Post, TypeOK, Posting, Claimed
  <2>2. Cardinality(Posting') = Cardinality(Posting) - 1
    BY <2>1, PostingFinite, FS_RemoveElement
  <2> QED
    BY <1>3, <2>1, <2>2, PostingFinite DEF Post, TypeOK, TokenBalance, Claimed
<1>4. ASSUME NEW s \in Senders, PostOverflows(s)
      PROVE  TokenBalance'
  BY <1>4 DEF PostOverflows, TokenBalance, Posting, Claimed
<1>5. ASSUME NEW s \in Senders, NEW m \in Messages, SendMessage(s, m)
      PROVE  TokenBalance'
  <2>1. Posting' = Posting /\ Claimed' = Claimed
    BY <1>5 DEF SendMessage, TypeOK, Posting, Claimed
  <2> QED BY <1>5, <2>1 DEF SendMessage, TokenBalance
<1>6. CASE Wait
  <2>1. Posting' = Posting /\ Claimed = 0 /\ Claimed' = 1
    BY <1>6 DEF Wait, TypeOK, Posting, Claimed
  <2> QED BY <1>6, <2>1, PostingFinite DEF Wait, TypeOK, TokenBalance
<1>7. CASE Take
  <2>1. Posting' = Posting /\ Claimed = 1 /\ Claimed' = 0
    BY <1>7 DEF Take, TypeOK, Posting, Claimed
  <2>2. messages # <<>>
    BY <1>7, BalanceGivesFront DEF Take, FrontExists
  <2>3. Len(messages') = Len(messages) - 1
    BY <1>7, <2>2 DEF Take, TypeOK
  <2> QED BY <1>7, <2>1, <2>3, PostingFinite DEF Take, TypeOK, TokenBalance
<1>8. CASE HandleMessage
  <2>1. Posting' = Posting /\ Claimed' = Claimed
    BY <1>8 DEF HandleMessage, TypeOK, Posting, Claimed
  <2> QED BY <1>8, <2>1 DEF HandleMessage, TokenBalance
<1>9. CASE WaitFails \/ HandleThrows \/ UNCHANGED vars
  BY <1>9 DEF WaitFails, HandleThrows, vars, TokenBalance, Posting, Claimed
<1> QED
  BY <1>1, <1>2, <1>3, <1>4, <1>5, <1>6, <1>7, <1>8, <1>9, NextSplit

LEMMA InitBalance == Init => TokenBalance
<1> SUFFICES ASSUME Init PROVE TokenBalance
  OBVIOUS
<1>1. Posting = {} /\ Claimed = 0
  BY DEF Init, Posting, Claimed
<1> QED BY <1>1, FS_EmptySet DEF Init, TokenBalance

-----------------------------------------------------------------------------
(* Every message in one place                                              *)

\* What the four moves of a unique_ptr do to the sets that OnePlace is about.
LEMMA SendMoves ==
    ASSUME TypeOK, NEW s \in Senders, NEW m \in Messages, SendMessage(s, m)
    PROVE  /\ hand[s] = None /\ m \in unsent /\ unsent' = unsent \ {m}
           /\ InCall' = InCall \cup {m} /\ InQueue' = InQueue
           /\ hand'[Consumer] = hand[Consumer] /\ handled' = handled
BY DEF SendMessage, Goto, Hold, TypeOK, InCall, InQueue

LEMMA PushMoves ==
    ASSUME TypeOK, OnePlace, NEW s \in Senders, Push(s)
    PROVE  /\ hand[s] \in InCall
           /\ InCall' = InCall \ {hand[s]} /\ InQueue' = InQueue \cup {hand[s]}
           /\ hand'[Consumer] = hand[Consumer]
           /\ unsent' = unsent /\ handled' = handled
<1> USE DEF Push, Goto, Hold, ends
<1>1. hand[s] \in Messages /\ hand[s] \in InCall
  BY DEF TypeOK, InCall
<1>2. InCall' = InCall \ {hand[s]}
  BY <1>1 DEF TypeOK, OnePlace, InCall
<1>3. InQueue' = InQueue \cup {hand[s]}
  <2>1. /\ DOMAIN messages' = DOMAIN messages \cup {Len(messages) + 1}
        /\ \A i \in DOMAIN messages : messages'[i] = messages[i]
        /\ messages'[Len(messages) + 1] = hand[s]
    BY <1>1 DEF TypeOK
  <2> QED BY <2>1 DEF InQueue
<1> QED BY <1>1, <1>2, <1>3 DEF TypeOK

LEMMA TakeMoves ==
    ASSUME TypeOK, FrontExists, OnePlace, Take
    PROVE  /\ hand[Consumer] = None
           /\ Head(messages) \in InQueue /\ hand'[Consumer] = Head(messages)
           /\ InQueue' = InQueue \ {Head(messages)} /\ InCall' = InCall
           /\ unsent' = unsent /\ handled' = handled
<1> USE DEF Take, Goto, Hold, ends
<1>1. /\ messages # <<>> /\ messages \in Seq(Messages)
      /\ messages' = Tail(messages)
  BY DEF FrontExists, TypeOK
<1>2. Head(messages) = messages[1] /\ 1 \in DOMAIN messages
  BY <1>1
<1>3. InQueue' = InQueue \ {Head(messages)}
  BY <1>1, PopDistinct DEF InQueue, OnePlace, Elements, Distinct
<1>4. InCall' = InCall
  BY DEF TypeOK, InCall
<1> QED BY <1>2, <1>3, <1>4 DEF TypeOK, InQueue

LEMMA HandleMoves ==
    ASSUME TypeOK, HandleMessage
    PROVE  /\ hand[Consumer] # None /\ hand'[Consumer] = None
           /\ handled' = handled \cup {hand[Consumer]} /\ unsent' = unsent
           /\ InCall' = InCall /\ InQueue' = InQueue
BY DEF HandleMessage, Goto, Hold, TypeOK, InCall, InQueue

LEMMA StepOnePlace ==
    ASSUME TypeOK, FrontExists, OnePlace, [Next]_vars
    PROVE  OnePlace'
<1> USE DEF Goto, Hold, sync, ends
<1>1. CASE UNCHANGED <<messages, hand, unsent, handled>>
  BY <1>1 DEF OnePlace, InCall, InQueue
<1>2. ASSUME NEW s \in Senders, NEW m \in Messages, SendMessage(s, m)
      PROVE  OnePlace'
  <2>1. hand' = [hand EXCEPT ![s] = m] /\ messages' = messages
    BY <1>2 DEF SendMessage
  <2>2. \A r \in Senders : hand[r] # m
    BY <1>2, SendMoves DEF OnePlace, InCall
  <2> QED
    BY <1>2, <2>1, <2>2, SendMoves DEF OnePlace, TypeOK
<1>3. ASSUME NEW s \in Senders, Push(s)
      PROVE  OnePlace'
  <2>1. /\ messages' = Append(messages, hand[s])
        /\ hand' = [hand EXCEPT ![s] = None]
    BY <1>3 DEF Push
  <2>2. hand[s] \in Messages /\ hand[s] \notin InQueue
    BY <1>3, PushMoves DEF OnePlace, TypeOK, InCall
  <2>3. \A i, j \in DOMAIN messages' : i # j => messages'[i] # messages'[j]
    BY <2>1, <2>2 DEF OnePlace, InQueue, TypeOK
  <2>4. \A s1, s2 \in Senders : s1 # s2 /\ hand'[s1] # None => hand'[s1] # hand'[s2]
    BY <2>1 DEF OnePlace, TypeOK
  <2> QED
    BY <1>3, <2>2, <2>3, <2>4, PushMoves DEF OnePlace, TypeOK
<1>4. CASE Take
  <2>1. messages' = Tail(messages) /\ messages # <<>>
    BY <1>4 DEF Take, FrontExists
  <2>2. \A i, j \in DOMAIN messages' : i # j => messages'[i] # messages'[j]
    BY <2>1 DEF OnePlace, TypeOK
  <2>3. \A s \in Senders : hand'[s] = hand[s]
    BY <1>4 DEF Take, TypeOK
  <2>4. Head(messages) \in Messages
    BY <2>1 DEF TypeOK
  <2> QED
    BY <1>4, <2>2, <2>3, <2>4, TakeMoves DEF OnePlace
<1>5. CASE HandleMessage
  <2>1. messages' = messages /\ \A s \in Senders : hand'[s] = hand[s]
    BY <1>5 DEF HandleMessage, TypeOK
  <2> QED
    BY <1>5, <2>1, HandleMoves DEF OnePlace
<1>6. ASSUME NEW p \in Threads, Lock(p)
      PROVE  UNCHANGED <<messages, hand, unsent, handled>>
  BY <1>6 DEF Lock
<1>7. ASSUME NEW s \in Senders, Post(s) \/ PostOverflows(s)
      PROVE  UNCHANGED <<messages, hand, unsent, handled>>
  BY <1>7 DEF Post, PostOverflows
<1>8. Wait \/ WaitFails \/ HandleThrows \/ UNCHANGED vars
        => UNCHANGED <<messages, hand, unsent, handled>>
  BY DEF Wait, WaitFails, HandleThrows, vars
<1> QED
  BY <1>1, <1>2, <1>3, <1>4, <1>5, <1>6, <1>7, <1>8, NextSplit

LEMMA InitOnePlace == Init => OnePlace
BY DEF Init, OnePlace, InCall, InQueue

-----------------------------------------------------------------------------
\* In every state of every execution of Thread<T> the variables are typed, only
\* the holder of the mutex is at the queue, tokens and messages balance, and
\* the consumer never pops an empty queue.
THEOREM InvariantHolds == Safety => []IInv
<1>1. Init => IInv
  BY InitTyped, InitBalance DEF IInv
<1>2. IInv /\ [Next]_vars => IInv'
  BY StepTyped, StepBalance, BalanceGivesFront DEF IInv
<1> QED BY <1>1, <1>2, PTL DEF Safety

THEOREM TypesHold == Safety => []TypeOK
BY InvariantHolds, PTL DEF IInv

THEOREM MutexExcludes == Safety => []MutexGuardsQueue
BY InvariantHolds, PTL DEF IInv

THEOREM TokensBalance == Safety => []TokenBalance
BY InvariantHolds, PTL DEF IInv

THEOREM QueueNotEmptyAtPop == Safety => []FrontExists
<1>1. IInv => FrontExists
  BY BalanceGivesFront DEF IInv
<1> QED BY <1>1, InvariantHolds, PTL

\* No message is lost, duplicated or handled twice on its way from sendMessage
\* to handleMessage, whoever sends and however the threads are scheduled.
THEOREM MessagesStayUnique == Safety => []OnePlace
<1>1. Init => OnePlace
  BY InitOnePlace
<1>2. IInv /\ OnePlace /\ [Next]_vars => OnePlace'
  BY StepOnePlace, BalanceGivesFront DEF IInv
<1> QED BY <1>1, <1>2, InvariantHolds, PTL DEF Safety

-----------------------------------------------------------------------------
(* The mailbox is a channel                                                *)

\* A push is a send, a pop a receive, a handled message a handled message, and
\* nothing else the threads do is visible to the channel.
LEMMA StepRefines ==
    ASSUME TypeOK, FrontExists, OnePlace, [Next]_vars
    PROVE  [Chan!Next]_(Chan!vars)
<1> USE DEF Goto, Hold, sync, ends, Chan!vars
<1>1. ASSUME UNCHANGED <<messages, hand, unsent, handled>>
      PROVE  UNCHANGED Chan!vars
  BY <1>1 DEF InCall
<1>2. ASSUME NEW s \in Senders, NEW m \in Messages, SendMessage(s, m)
      PROVE  UNCHANGED Chan!vars
  BY <1>2, SendMoves DEF SendMessage
<1>3. ASSUME NEW s \in Senders, Push(s)
      PROVE  Chan!Send(hand[s])
  BY <1>3, PushMoves DEF Push, Chan!Send, OnePlace
<1>4. ASSUME Take PROVE Chan!Receive(Consumer)
  BY <1>4, TakeMoves DEF Take, Chan!Receive, FrontExists
<1>5. ASSUME HandleMessage PROVE Chan!Handle(Consumer)
  BY <1>5, HandleMoves DEF HandleMessage, Chan!Handle
<1>6. ASSUME NEW p \in Threads, Lock(p)
      PROVE  UNCHANGED Chan!vars
  BY <1>1, <1>6 DEF Lock
<1>7. ASSUME NEW s \in Senders, Post(s) \/ PostOverflows(s)
      PROVE  UNCHANGED Chan!vars
  BY <1>1, <1>7 DEF Post, PostOverflows
<1>8. Wait \/ WaitFails \/ HandleThrows \/ UNCHANGED vars
        => UNCHANGED Chan!vars
  BY <1>1 DEF Wait, WaitFails, HandleThrows, vars
<1>9. \A s \in Senders : Push(s) => hand[s] \in Messages
  BY DEF Push, TypeOK
<1> QED
  BY <1>2, <1>3, <1>4, <1>5, <1>6, <1>7, <1>8, <1>9, NextSplit DEF Chan!Next

\* Every behaviour of Thread<T> is a behaviour of the first-in first-out
\* channel: messages are received once each, in the order of their pushes.
THEOREM MailboxIsChannel == Safety => ImplementsChannel
<1>1. Init => Chan!Init
  <2>1. Init => InCall = {}
    BY DEF Init, InCall
  <2> QED BY <2>1 DEF Init, Chan!Init
<1>2. IInv /\ OnePlace /\ [Next]_vars => [Chan!Next]_(Chan!vars)
  BY StepRefines, BalanceGivesFront DEF IInv
<1> QED
  BY <1>1, <1>2, InvariantHolds, MessagesStayUnique, PTL
     DEF Safety, ImplementsChannel, Chan!Safety
=============================================================================
