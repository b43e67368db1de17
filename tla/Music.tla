------------------------------- MODULE Music -------------------------------
(***************************************************************************)
(* SpotifyAction (music.cpp) and SDBus::call (sdbus.h): a worker calls a   *)
(* method of the player over D-Bus; when nobody has the name of the player *)
(* and the command may start it, it forks, executes the player, and calls  *)
(* again up to ten times.                                                  *)
(***************************************************************************)
EXTENDS Naturals

CONSTANTS Workers,
          Spawning,    \* workers whose command has spawnOnFailure_
          Retries      \* retries, 11 in the code

VARIABLES player,    \* absent, starting, or up
          pc,        \* call, fork, retry, success, error
          retries,
          child,     \* the process the worker forked
          played,    \* history: calls the player executed for the worker
          lost       \* history: workers whose call was executed, and its
                     \* answer lost

vars == <<player, pc, retries, child, played, lost>>

Init == /\ player \in {"absent", "up"}
        /\ pc = [w \in Workers |-> "call"]
        /\ retries = [w \in Workers |-> 0]
        /\ child = [w \in Workers |-> "none"]
        /\ played = [w \in Workers |-> 0]
        /\ lost = {}

Goto(w, label) == pc' = [pc EXCEPT ![w] = label]
CanCall(w) == pc[w] = "call" \/ (pc[w] = "retry" /\ retries[w] > 1)

\* retries after the --retries of the loop, if the call is one of the loop
CountDown(w) ==
    retries' = IF pc[w] = "retry" THEN [retries EXCEPT ![w] = @ - 1]
                                  ELSE retries

\* bus.call succeeds.
CallSucceeds(w) ==
    /\ CanCall(w)
    /\ player = "up"
    /\ played' = [played EXCEPT ![w] = @ + 1]
    /\ Goto(w, "success")
    /\ CountDown(w)
    /\ UNCHANGED <<player, child, lost>>

\* Variant of CallFails: every error is tried again, like an unknown service.
CallFailsIsRetried(w) ==
    /\ CanCall(w)
    /\ player = "up"
    /\ \/ /\ played' = [played EXCEPT ![w] = @ + 1]
          /\ lost' = lost \cup {w}
       \/ UNCHANGED <<played, lost>>
    /\ CountDown(w)
    /\ UNCHANGED <<player, child, pc>>

\* Any error but SERVICE_UNKNOWN: thrown, from the loop too.  When the answer
\* took too long, the player has executed the call.
CallFails(w) ==
    /\ CanCall(w)
    /\ player = "up"
    /\ \/ /\ played' = [played EXCEPT ![w] = @ + 1]
          /\ lost' = lost \cup {w}
       \/ UNCHANGED <<played, lost>>
    /\ Goto(w, "error")
    /\ CountDown(w)
    /\ UNCHANGED <<player, child>>

\* Variant of ServiceUnknown: the retries are not counted down.
ServiceUnknownUncounted(w) ==
    /\ CanCall(w)
    /\ player # "up"
    /\ Goto(w, CASE pc[w] = "retry" -> "retry"
                 [] pc[w] = "call" /\ w \in Spawning -> "fork"
                 [] OTHER -> "error")
    /\ UNCHANGED <<player, child, played, lost, retries>>

\* SERVICE_UNKNOWN: the first one leads to the fork, or is thrown.
ServiceUnknown(w) ==
    /\ CanCall(w)
    /\ player # "up"
    /\ Goto(w, CASE pc[w] = "retry" -> "retry"
                 [] pc[w] = "call" /\ w \in Spawning -> "fork"
                 [] OTHER -> "error")
    /\ CountDown(w)
    /\ UNCHANGED <<player, child, played, lost>>

\* fork; its failure is not looked at.
Fork(w) ==
    /\ pc[w] = "fork"
    /\ \/ child' = [child EXCEPT ![w] = "forked"]
       \/ UNCHANGED child
    /\ retries' = [retries EXCEPT ![w] = Retries]
    /\ Goto(w, "retry")
    /\ UNCHANGED <<player, played, lost>>

\* --retries is 0: the first exception is thrown again.
GiveUp(w) ==
    /\ pc[w] = "retry"
    /\ retries[w] = 1
    /\ Goto(w, "error")
    /\ CountDown(w)
    /\ UNCHANGED <<player, child, played, lost>>

\* execl in the child.  A second player sees the first one and exits.
Exec(w) ==
    /\ child[w] = "forked"
    /\ child' = [child EXCEPT ![w] = "player"]
    /\ player' = IF player = "absent" THEN "starting" ELSE player
    /\ UNCHANGED <<pc, retries, played, lost>>

\* execl fails: the child goes on in the retry loop.  Its call fails, as its
\* descriptors are closed and the bus belongs to its parent; the exception
\* makes it a worker of its own.
ExecFails(w) ==
    /\ child[w] = "forked"
    /\ child' = [child EXCEPT ![w] = "worker"]
    /\ UNCHANGED <<player, pc, retries, played, lost>>

\* The player takes its name on the bus, or quits.
PlayerStarts ==
    /\ player = "starting"
    /\ player' = "up"
    /\ UNCHANGED <<pc, retries, child, played, lost>>
PlayerQuits ==
    /\ player = "up"
    /\ player' = "absent"
    /\ UNCHANGED <<pc, retries, child, played, lost>>

Act(w) == CallSucceeds(w) \/ CallFails(w) \/ ServiceUnknown(w) \/ Fork(w)
          \/ GiveUp(w)

Next == \/ \E w \in Workers : Act(w) \/ Exec(w) \/ ExecFails(w)
        \/ PlayerStarts \/ PlayerQuits

Liveness == \A w \in Workers : WF_vars(Act(w))

-----------------------------------------------------------------------------
(* Properties                                                              *)

\* However often a command is tried, the player executes it at most once: a
\* call is only repeated when nobody was there to get it.  The command reports
\* success if it was executed and the answer arrived, the last try included,
\* and only then (music.cpp:34, 56-75).
PlayedOnce ==
    \A w \in Workers :
       /\ played[w] <= 1
       /\ pc[w] = "success" => played[w] = 1 /\ w \notin lost
       /\ pc[w] = "error" => played[w] = 0 \/ w \in lost

\* The command ends, whatever becomes of the player it started: the retries are
\* bounded (music.cpp:56-58).
MusicEnds == \A w \in Workers : <>(pc[w] \in {"success", "error"})
=============================================================================
