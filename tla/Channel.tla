------------------------------ MODULE Channel ------------------------------
(***************************************************************************)
(* What a message queue of holper promises, with nothing said about        *)
(* mutexes and semaphores: every message sent is received exactly once, in *)
(* the order of sending, by one of the receivers.  A message is a          *)
(* std::unique_ptr, so a message is sent at most once and is at any time   *)
(* in one place.  ThreadQueue (Thread<T> of thread.h) and WorkQueue (the   *)
(* works_ of workpool.cpp) are shown to implement this module.             *)
(***************************************************************************)
EXTENDS Sequences

CONSTANTS Messages,    \* the message objects
          Receivers,   \* the threads that take messages
          None         \* no message in hand; not one of Messages

VARIABLES unsent,      \* messages no sender has pushed yet
          queue,       \* messages sent and not received, oldest first
          held,        \* the message each receiver is handling
          done         \* messages handled

vars == <<unsent, queue, held, done>>

Init == /\ unsent = Messages
        /\ queue = <<>>
        /\ held = [r \in Receivers |-> None]
        /\ done = {}

Send(m) == /\ m \in unsent
           /\ unsent' = unsent \ {m}
           /\ queue' = Append(queue, m)
           /\ UNCHANGED <<held, done>>

Receive(r) == /\ held[r] = None
              /\ queue # <<>>
              /\ held' = [held EXCEPT ![r] = Head(queue)]
              /\ queue' = Tail(queue)
              /\ UNCHANGED <<unsent, done>>

Handle(r) == /\ held[r] # None
             /\ done' = done \cup {held[r]}
             /\ held' = [held EXCEPT ![r] = None]
             /\ UNCHANGED <<unsent, queue>>

Next == \/ \E m \in Messages : Send(m)
        \/ \E r \in Receivers : Receive(r) \/ Handle(r)

Safety == Init /\ [][Next]_vars

\* Some receiver takes a waiting message, and a receiver finishes what it took.
Liveness == /\ WF_vars(\E r \in Receivers : Receive(r))
            /\ \A r \in Receivers : WF_vars(Handle(r))

Spec == Safety /\ Liveness
=============================================================================
